-------------------------- MODULE RequestOrderProofs --------------------------
(***************************************************************************)
(* Requests of one client are dispatched in order and their credit is      *)
(* conserved, for any number of clients, requests and effects, in a server *)
(* without VT switching or whose clients never grab it; and the request    *)
(* path implements RequestService.                                         *)
(***************************************************************************)
EXTENDS CoreLoopProofs

\* A NOTIFY's batch is gone once it has been worked off.
BatchSpent == pc \notin {"notify", "vt"} => batch = Empty

\* A client with requests set aside executed nothing since, so it neither
\* waits for the backend nor is suspended, nor owns the grab itself.
WaitersIdle ==
    \A c \in Client : waiting[c] # << >> => c \notin parked \cup held /\ grab # c

\* No request of c can be dispatched before the next release of the waiters:
\* none is set aside, or none is queued, or the iteration is spent, or c is
\* about to be disconnected.
Safe(c) == waiting[c] = << >> \/ queue[c] = << >> \/ BudgetExhausted \/ c \in failed

\* Before the backlog is dispatched, requests are set aside only behind a
\* grab.  Later a grab may have gone without a release.
WaitersSafe ==
    /\ pc \in {"poll", "backlog"} /\ grab = NoClient => waiting = Empty
    /\ pc \in {"notify", "drain"} /\ grab = NoClient => \A c \in clients : Safe(c)
    /\ pc \in {"events", "tail"} => \A c \in clients : Safe(c)

\* The barrier of a VT switch dispatches although its iteration is spent, so
\* it must not meet requests set aside: the theorems below assume Calm.
Calm == ~VtSwitching \/ "grab" \notin Effects

\* What is missing in a server without VT switching, and in one without
\* server grabs.
NoVtRelease == ~VtSwitching => vt = "idle" /\ pc # "vt"
NoGrab == "grab" \notin Effects => grab = NoClient /\ waiting = Empty

OrderInv ==
    /\ StructInv /\ BatchSpent /\ WaitersIdle /\ WaitersSafe /\ NoVtRelease /\ NoGrab
    /\ RequestsInOrder /\ CreditConserved
-------------------------------------------------------------------------------
(***************************************************************************)
(* The stream of one client, and what moves a request along it             *)
(***************************************************************************)

Stream(w, q, b, h, l) ==
    /\ Follows(w, l)
    /\ Follows(q, l + Len(w))
    /\ FollowsToEof(b, l + Len(w) + Len(q))
    /\ FollowsToEof(h, l + Len(w) + Len(q) + Len(b))

Total(w, q, b, h, l) == l + Len(w) + Len(q) + Len(b) + Len(h)

\* Appending the next request.
LEMMA FollowsAppend ==
    ASSUME NEW s \in Seq(Nat), NEW n \in Nat
    PROVE  /\ Follows(s, n) => Follows(Append(s, n + Len(s) + 1), n)
           /\ \A m \in {n + Len(s) + 1, Eof} :
                 FollowsToEof(s, n) => FollowsToEof(Append(s, m), n)
           /\ \A m \in Nat : Len(Append(s, m)) = Len(s) + 1 /\ Append(s, m) \in Seq(Nat)
BY DEF Follows, FollowsToEof, Eof

\* Taking the first request.
LEMMA FollowsTail ==
    ASSUME NEW s \in Seq(Nat), NEW n \in Nat, s # << >>
    PROVE  /\ Len(Tail(s)) = Len(s) - 1 /\ Len(s) \in Nat /\ Len(s) > 0
           /\ Tail(s) \in Seq(Nat) /\ Head(s) \in Nat
           /\ Follows(s, n) => Head(s) = n + 1 /\ Follows(Tail(s), n + 1)
           /\ FollowsToEof(s, n) => Head(s) \in {n + 1, Eof} /\ FollowsToEof(Tail(s), n + 1)
<1>1. /\ Len(Tail(s)) = Len(s) - 1 /\ Len(s) \in Nat /\ Len(s) > 0
      /\ Tail(s) \in Seq(Nat) /\ Head(s) \in Nat /\ Head(s) = s[1]
      /\ DOMAIN s = 1..Len(s) /\ DOMAIN Tail(s) = 1..(Len(s) - 1)
      /\ \A i \in 1..(Len(s) - 1) : Tail(s)[i] = s[i + 1]
  OBVIOUS
<1>2. \A i \in 1..(Len(s) - 1) : i + 1 \in 1..Len(s) /\ n + (i + 1) = (n + 1) + i
  BY <1>1
<1>3. 1 \in 1..Len(s)
  BY <1>1
<1> QED BY <1>1, <1>2, <1>3 DEF Follows, FollowsToEof

\* Joining two adjacent pieces.
LEMMA FollowsConcat ==
    ASSUME NEW s \in Seq(Nat), NEW t \in Seq(Nat), NEW n \in Nat,
           Follows(s, n), Follows(t, n + Len(s))
    PROVE  Follows(s \o t, n) /\ Len(s \o t) = Len(s) + Len(t)
<1>1. /\ Len(s \o t) = Len(s) + Len(t) /\ Len(s) \in Nat /\ Len(t) \in Nat
      /\ DOMAIN s = 1..Len(s) /\ DOMAIN t = 1..Len(t)
      /\ DOMAIN (s \o t) = 1..(Len(s) + Len(t))
      /\ \A i \in 1..(Len(s) + Len(t)) :
            (s \o t)[i] = IF i <= Len(s) THEN s[i] ELSE t[i - Len(s)]
  OBVIOUS
<1> SUFFICES ASSUME NEW i \in 1..(Len(s) + Len(t)) PROVE (s \o t)[i] = n + i
  BY <1>1 DEF Follows
<1>2. CASE i <= Len(s)
  <2>1. i \in 1..Len(s)
    BY <1>1, <1>2
  <2> QED BY <1>1, <1>2, <2>1 DEF Follows
<1>3. CASE ~(i <= Len(s))
  <2>1. i - Len(s) \in 1..Len(t) /\ (n + Len(s)) + (i - Len(s)) = n + i
    BY <1>1, <1>3
  <2> QED BY <1>1, <1>3, <2>1 DEF Follows
<1> QED BY <1>2, <1>3

\* The reader sends: the next request, or ClientDisconnected.
LEMMA StreamSend ==
    ASSUME NEW w \in Seq(Nat), NEW q \in Seq(Nat), NEW b \in Seq(Nat), NEW h \in Seq(Nat),
           NEW l \in Nat, Stream(w, q, b, h, l), NEW m \in {Total(w, q, b, h, l) + 1, Eof}
    PROVE  /\ Stream(w, q, b, Append(h, m), l)
           /\ Total(w, q, b, Append(h, m), l) = Total(w, q, b, h, l) + 1
<1> DEFINE n == l + Len(w) + Len(q) + Len(b)
<1>1. n \in Nat /\ Len(h) \in Nat
  OBVIOUS
<1>2. FollowsToEof(h, n)
  BY DEF Stream
<1>3. m \in {n + Len(h) + 1, Eof} /\ m \in Nat
  BY <1>1 DEF Total, Eof
<1> HIDE DEF n
<1>4. FollowsToEof(Append(h, m), n) /\ Len(Append(h, m)) = Len(h) + 1
  BY <1>1, <1>2, <1>3, FollowsAppend
<1>5. Stream(w, q, b, Append(h, m), l)
  BY <1>4 DEF Stream, n
<1>6. Total(w, q, b, h, l) = n + Len(h) /\ Total(w, q, b, Append(h, m), l) = n + Len(h) + 1
  BY <1>4 DEF Total, n
<1> QED BY <1>5, <1>6

\* The VT barrier adds one message to the batch.
LEMMA StreamCollectOne ==
    ASSUME NEW w \in Seq(Nat), NEW q \in Seq(Nat), NEW b \in Seq(Nat), NEW h \in Seq(Nat),
           NEW l \in Nat, Stream(w, q, b, h, l), h # << >>
    PROVE  /\ Stream(w, q, Append(b, Head(h)), Tail(h), l)
           /\ Total(w, q, Append(b, Head(h)), Tail(h), l) = Total(w, q, b, h, l)
<1> DEFINE n == l + Len(w) + Len(q)
<1>1. n \in Nat /\ Len(b) \in Nat /\ Len(h) \in Nat
  OBVIOUS
<1>2. FollowsToEof(b, n) /\ FollowsToEof(h, n + Len(b))
  BY DEF Stream
<1> HIDE DEF n
<1>3. /\ Len(Tail(h)) = Len(h) - 1 /\ Head(h) \in {n + Len(b) + 1, Eof}
      /\ FollowsToEof(Tail(h), n + Len(b) + 1) /\ Head(h) \in Nat
  BY <1>1, <1>2, FollowsTail
<1>4. FollowsToEof(Append(b, Head(h)), n) /\ Len(Append(b, Head(h))) = Len(b) + 1
  BY <1>1, <1>2, <1>3, FollowsAppend
<1>5. /\ n + (Len(b) + 1) = n + Len(b) + 1
      /\ n + (Len(b) + 1) + (Len(h) - 1) = n + Len(b) + Len(h)
  BY <1>1
<1> QED BY <1>2, <1>3, <1>4, <1>5 DEF Stream, Total, n

\* NOTIFY collects the channel into an empty batch.
LEMMA StreamCollect ==
    ASSUME NEW w \in Seq(Nat), NEW q \in Seq(Nat), NEW h \in Seq(Nat),
           NEW l \in Nat, Stream(w, q, << >>, h, l)
    PROVE  /\ Stream(w, q, h, << >>, l)
           /\ Total(w, q, h, << >>, l) = Total(w, q, << >>, h, l)
BY DEF Stream, Total, FollowsToEof

\* A request goes from the batch to the queue.
LEMMA StreamReceive ==
    ASSUME NEW w \in Seq(Nat), NEW q \in Seq(Nat), NEW b \in Seq(Nat), NEW h \in Seq(Nat),
           NEW l \in Nat, Stream(w, q, b, h, l), b # << >>, Head(b) # Eof
    PROVE  /\ Stream(w, Append(q, Head(b)), Tail(b), h, l)
           /\ Total(w, Append(q, Head(b)), Tail(b), h, l) = Total(w, q, b, h, l)
<1> DEFINE n == l + Len(w)
<1>1. n \in Nat /\ Len(q) \in Nat /\ Len(h) \in Nat /\ Len(w) \in Nat
  OBVIOUS
<1>2. /\ Follows(w, l) /\ Follows(q, n) /\ FollowsToEof(b, n + Len(q))
      /\ FollowsToEof(h, n + Len(q) + Len(b))
  BY DEF Stream
<1> HIDE DEF n
<1>3. /\ Len(Tail(b)) = Len(b) - 1 /\ Len(b) \in Nat
      /\ Head(b) = n + Len(q) + 1 /\ FollowsToEof(Tail(b), n + Len(q) + 1)
  BY <1>1, <1>2, FollowsTail
<1>4. Follows(Append(q, Head(b)), n) /\ Len(Append(q, Head(b))) = Len(q) + 1
  BY <1>1, <1>2, <1>3, FollowsAppend
<1>5. n + (Len(q) + 1) = n + Len(q) + 1
      /\ n + (Len(q) + 1) + (Len(b) - 1) = n + Len(q) + Len(b)
      /\ n + (Len(q) + 1) + (Len(b) - 1) + Len(h) = n + Len(q) + Len(b) + Len(h)
  BY <1>1, <1>3
<1> QED BY <1>2, <1>3, <1>4, <1>5 DEF Stream, Total, n

\* The client's next request is dispatched.
LEMMA StreamDispatch ==
    ASSUME NEW q \in Seq(Nat), NEW b \in Seq(Nat), NEW h \in Seq(Nat),
           NEW l \in Nat, Stream(<< >>, q, b, h, l), q # << >>
    PROVE  /\ Head(q) = l + 1
           /\ Stream(<< >>, Tail(q), b, h, l + 1)
           /\ Total(<< >>, Tail(q), b, h, l + 1) = Total(<< >>, q, b, h, l)
<1>1. /\ Follows(q, l) /\ FollowsToEof(b, l + Len(q)) /\ FollowsToEof(h, l + Len(q) + Len(b))
      /\ Len(q) \in Nat /\ Len(b) \in Nat /\ Len(h) \in Nat /\ Len(<< >>) = 0
  BY DEF Stream
<1>2. Head(q) = l + 1 /\ Follows(Tail(q), l + 1) /\ Len(Tail(q)) = Len(q) - 1
  BY <1>1, FollowsTail
<1>3. (l + 1) + 0 = l + 1 /\ (l + 1) + 0 + (Len(q) - 1) = l + Len(q) /\ l + 0 = l
  BY <1>1
<1>4. Follows(<< >>, l + 1)
  BY DEF Follows
<1> QED BY <1>1, <1>2, <1>3, <1>4 DEF Stream, Total

\* The client's next queued request is set aside.
LEMMA StreamDivert ==
    ASSUME NEW w \in Seq(Nat), NEW q \in Seq(Nat), NEW b \in Seq(Nat), NEW h \in Seq(Nat),
           NEW l \in Nat, Stream(w, q, b, h, l), q # << >>
    PROVE  /\ Stream(Append(w, Head(q)), Tail(q), b, h, l)
           /\ Total(Append(w, Head(q)), Tail(q), b, h, l) = Total(w, q, b, h, l)
<1>1. /\ Follows(w, l) /\ Follows(q, l + Len(w)) /\ FollowsToEof(b, l + Len(w) + Len(q))
      /\ FollowsToEof(h, l + Len(w) + Len(q) + Len(b))
  BY DEF Stream
<1>2. Len(w) \in Nat /\ Len(q) \in Nat /\ Len(b) \in Nat /\ Len(h) \in Nat /\ l + Len(w) \in Nat
  OBVIOUS
<1>3. /\ Head(q) = l + Len(w) + 1 /\ Len(Tail(q)) = Len(q) - 1
      /\ Follows(Tail(q), l + Len(w) + 1)
  BY <1>1, <1>2, FollowsTail
<1>4. Follows(Append(w, Head(q)), l) /\ Len(Append(w, Head(q))) = Len(w) + 1
  BY <1>1, <1>2, <1>3, FollowsAppend
<1>5. l + (Len(w) + 1) = l + Len(w) + 1
      /\ l + (Len(w) + 1) + (Len(q) - 1) = l + Len(w) + Len(q)
  BY <1>2
<1> QED BY <1>1, <1>3, <1>4, <1>5 DEF Stream, Total

\* The waiters are put ahead of the queue.
LEMMA StreamRelease ==
    ASSUME NEW w \in Seq(Nat), NEW q \in Seq(Nat), NEW b \in Seq(Nat), NEW h \in Seq(Nat),
           NEW l \in Nat, Stream(w, q, b, h, l)
    PROVE  /\ Stream(<< >>, w \o q, b, h, l)
           /\ Total(<< >>, w \o q, b, h, l) = Total(w, q, b, h, l)
<1>1. /\ Follows(w, l) /\ Follows(q, l + Len(w)) /\ FollowsToEof(b, l + Len(w) + Len(q))
      /\ FollowsToEof(h, l + Len(w) + Len(q) + Len(b))
  BY DEF Stream
<1>2. Len(w) \in Nat /\ Len(q) \in Nat /\ Len(b) \in Nat /\ Len(h) \in Nat /\ Len(<< >>) = 0
  OBVIOUS
<1>3. Follows(w \o q, l) /\ Len(w \o q) = Len(w) + Len(q)
  BY <1>1, FollowsConcat
<1>4. l + 0 = l /\ l + 0 + (Len(w) + Len(q)) = l + Len(w) + Len(q)
  BY <1>2
<1>5. Follows(<< >>, l)
  BY DEF Follows
<1> QED BY <1>1, <1>2, <1>3, <1>4, <1>5 DEF Stream, Total
-------------------------------------------------------------------------------
(***************************************************************************)
(* The loop                                                                *)
(***************************************************************************)

\* What freeing the waiters, or not, does to waiters and queues.
LEMMA ReleaseCases ==
    ASSUME NEW q \in [Client -> Seq(Nat)], NEW r, waiting \in [Client -> Seq(Nat)],
           ReleaseIfUngrabbed(q, r)
    PROVE  \/ /\ grab' = NoClient /\ waiting' = Empty
              /\ \A c \in Client : queue'[c] = waiting[c] \o q[c] /\ waiting'[c] = << >>
           \/ grab' # NoClient /\ waiting' = waiting /\ queue' = q
<1>1. CASE grab' = NoClient /\ ReleaseServerGrabWaiters(q, r)
  <2>1. queue' = Restored(q, waiting) /\ waiting' = Empty
    BY <1>1 DEF ReleaseServerGrabWaiters
  <2>2. \A c \in Client : queue'[c] = waiting[c] \o q[c]
    BY <2>1, RestoredQueue
  <2>3. \A c \in Client : waiting'[c] = << >>
    BY <2>1 DEF Empty
  <2> QED BY <1>1, <2>1, <2>2, <2>3
<1> QED BY <1>1 DEF ReleaseIfUngrabbed

\* When a drain ends, no client with requests both set aside and queued can
\* be dispatched from in this iteration any more.
LEMMA DrainedIsSafe ==
    ASSUME QueueOK, ConnOK, WaitersIdle, BudgetExhausted \/ ~HasRunnable, NEW c \in clients
    PROVE  Safe(c)
<1> SUFFICES ASSUME waiting[c] # << >>, queue[c] # << >>, ~HasRunnable PROVE c \in failed
  BY DEF Safe
<1>1. c \in Client
  BY DEF ConnOK
<1>2. c \in Members(ready)
  BY <1>1 DEF QueueOK, RingMatches, Lists, Occupied
<1>3. c \notin Runnable
  BY <1>2 DEF HasRunnable, Members
<1> QED BY <1>1, <1>3 DEF Runnable, WaitersIdle

\* The client whose request is dispatched has none set aside.
LEMMA TurnHasNoWaiters ==
    ASSUME Calm, OrderInv, Draining, NEW i \in Turns(ready, Runnable), ready[i] \in clients,
           grab \in {NoClient, ready[i]}
    PROVE  waiting[ready[i]] = << >>
<1> DEFINE c == ready[i]
<1>1. c \in Client /\ c \in Runnable /\ c \in Occupied(queue)
  BY TurnFacts DEF OrderInv, StructInv
<1>2. c \notin failed /\ queue[c] # << >>
  BY <1>1 DEF Runnable, Occupied
<1>3. \/ ~BudgetExhausted /\ pc \in {"backlog", "drain"}
      \/ waiting = Empty
  BY DEF Draining, OrderInv, NoVtRelease, NoGrab, Calm
<1>0. WaitersIdle /\ WaitersSafe /\ c \in clients
  BY DEF OrderInv
<1> SUFFICES waiting[c] = << >>
  OBVIOUS
<1> HIDE DEF c
<1>4. CASE grab = c
  BY <1>0, <1>1, <1>4 DEF WaitersIdle
<1>5. CASE grab = NoClient /\ pc = "backlog"
  BY <1>0, <1>1, <1>5 DEF WaitersSafe, Empty
<1>6. CASE grab = NoClient /\ pc = "drain" /\ ~BudgetExhausted
  <2>1. Safe(c)
    BY <1>0, <1>6 DEF WaitersSafe
  <2> QED BY <1>2, <1>6, <2>1 DEF Safe
<1>7. CASE waiting = Empty
  BY <1>1, <1>7 DEF Empty
<1> QED BY <1>3, <1>4, <1>5, <1>6, <1>7 DEF c

\* The facts every dispatch step starts from.
LEMMA DispatchFacts ==
    ASSUME Calm, OrderInv, Dispatch
    PROVE  \E i \in Turns(ready, Runnable) :
              /\ ready[i] \in Client /\ ready[i] \in Runnable
              /\ ready[i] \in Occupied(queue)
              /\ ready[i] \in clients => waiting[ready[i]] = << >>
              /\ grab \in {NoClient, ready[i]}
              /\ ProcessRequest(ready[i])
              /\ ReleaseIfUngrabbed(PopFront(queue, ready[i]), RingAfterPop(queue, ready, i))
<1>1. PICK i \in Turns(ready, Runnable) :
         /\ grab \in {NoClient, ready[i]}
         /\ ProcessRequest(ready[i])
         /\ ReleaseIfUngrabbed(PopFront(queue, ready[i]), RingAfterPop(queue, ready, i))
  BY DEF Dispatch
<1>2. ready[i] \in Client /\ ready[i] \in Runnable /\ ready[i] \in Occupied(queue)
  BY TurnFacts DEF OrderInv, StructInv
<1>3. ready[i] \in clients => waiting[ready[i]] = << >>
  BY <1>1, TurnHasNoWaiters DEF Dispatch
<1> QED BY <1>1, <1>2, <1>3

\* Without VT switching there is never a VT release.
LEMMA NoVtStep ==
    ASSUME OrderInv, [Next]_vars PROVE NoVtRelease'
<1> SUFFICES ASSUME ~VtSwitching PROVE vt' = "idle" /\ pc' # "vt"
  BY DEF NoVtRelease
<1>0. vt = "idle" /\ pc # "vt"
  BY DEF OrderInv, NoVtRelease
<1>1. CASE CoreStep
  BY <1>0, <1>1 DEF CoreStep, PollWork, PollReturns, Dispatch, Divert, EndDrain, StartNotify,
     Receive, EndNotify, Settle, EndIteration, VtRelease, EndVtRelease, NoVtRelease, linkVars
<1>2. CASE Environment
  BY <1>0, <1>2 DEF Environment, PollIdle, PollReturns, Deadline, VtSignal, ReaderSend,
     ReaderEof, ReaderShutdown, WritableFails, WriteFails, CompletePending, Resume, VtReceive,
     VtCollect, NoVtRelease, linkVars, loopVars
<1>3. CASE UNCHANGED vars
  BY <1>0, <1>3 DEF vars, linkVars, loopVars, NoVtRelease
<1> QED BY <1>1, <1>2, <1>3 DEF Next

\* The batch is filled at the start of a NOTIFY and empty at its end.
LEMMA BatchStep ==
    ASSUME OrderInv, [Next]_vars PROVE BatchSpent'
<1>0. BatchSpent
  BY DEF OrderInv
<1>1. CASE CoreStep
  BY <1>0, <1>1 DEF CoreStep, PollWork, PollReturns, Dispatch, Divert, EndDrain, StartNotify,
     Receive, EndNotify, Settle, EndIteration, VtRelease, EndVtRelease, BatchSpent
<1>2. CASE Environment
  BY <1>0, <1>2 DEF Environment, PollIdle, PollReturns, Deadline, VtSignal, ReaderSend,
     ReaderEof, ReaderShutdown, WritableFails, WriteFails, CompletePending, Resume, VtReceive,
     VtCollect, BatchSpent, loopVars
<1>3. CASE UNCHANGED vars
  BY <1>0, <1>3 DEF vars, loopVars, BatchSpent
<1> QED BY <1>1, <1>2, <1>3 DEF Next

\* What one request can change of the connection state.
LEMMA RequestEffect ==
    ASSUME ConnOK, NEW c \in Client, ProcessRequest(c)
    PROVE  /\ clients' \subseteq clients
           /\ parked' \subseteq parked \cup {c}
           /\ held' \subseteq held \cup {c}
           /\ grab' \in {grab, c, NoClient}
           /\ "grab" \notin Effects => grab' \in {grab, NoClient}
           /\ c \notin clients => UNCHANGED <<outstanding, connVars, last>>
           /\ c \in clients => last' = [last EXCEPT ![c] = Head(queue[c])]
<1>1. CASE c \notin clients /\ UNCHANGED <<outstanding, connVars, last>>
  BY <1>1 DEF connVars
<1>2. CASE c \in clients /\ last' = [last EXCEPT ![c] = Head(queue[c])]
           /\ (HandlePlain(c) \/ HandleGrabServer(c) \/ HandleUngrabServer(c)
                 \/ HandleAwait(c) \/ HandleResume(c) \/ HandlePending(c))
  BY <1>2 DEF HandlePlain, HandleGrabServer, HandleUngrabServer, HandleAwait, HandleResume,
     HandlePending, connVars
<1>3. CASE c \in clients /\ last' = [last EXCEPT ![c] = Head(queue[c])] /\ HandleQuit(c)
  <2>1. ProcessDisconnect(c) /\ parked' = parked \ {c}
    BY <1>3 DEF HandleQuit, DisconnectWithPendingCleanup
  <2>2. held' \subseteq held
    BY <2>1, DisconnectKeepsConn
  <2> QED BY <1>3, <2>1, <2>2 DEF ProcessDisconnect
<1>4. CASE c \in clients /\ last' = [last EXCEPT ![c] = Head(queue[c])] /\ HandleKillClient(c)
  <2>1. PICK d \in clients : ProcessDisconnect(d)
    BY <1>4 DEF HandleKillClient
  <2>2. d \in Client /\ parked' = parked
    BY <1>4 DEF HandleKillClient, ConnOK
  <2>3. held' \subseteq held
    BY <2>1, <2>2, DisconnectKeepsConn
  <2> QED BY <1>4, <2>1, <2>2, <2>3 DEF ProcessDisconnect
<1> QED BY <1>1, <1>2, <1>3, <1>4 DEF ProcessRequest

\* Outside dispatching, suspensions and grabs only end, and waiters only go.
LEMMA OtherEffect ==
    ASSUME OrderInv, [Next]_vars, ~Dispatch, ~Divert
    PROVE  /\ parked' \subseteq parked /\ held' \subseteq held
           /\ grab' \in {grab, NoClient}
           /\ waiting' = waiting \/ waiting' = Empty
<1>0. ConnOK /\ queue \in [Client -> Seq(Nat)] /\ waiting \in [Client -> Seq(Nat)]
  BY DEF OrderInv, StructInv, QueueOK
<1>1. CASE UNCHANGED <<parked, held, grab, waiting>>
  BY <1>1
<1>2. ASSUME NEW c \in Client, DisconnectWithPendingCleanup(c)
      PROVE  parked' \subseteq parked /\ held' \subseteq held /\ grab' \in {grab, NoClient}
  <2>1. ProcessDisconnect(c) /\ parked' = parked \ {c}
    BY <1>2 DEF DisconnectWithPendingCleanup
  <2>2. held' \subseteq held
    BY <1>0, <2>1, DisconnectKeepsConn
  <2> QED BY <2>1, <2>2 DEF ProcessDisconnect
<1>3. ASSUME NEW q, NEW r, ReleaseIfUngrabbed(q, r)
      PROVE  waiting' = waiting \/ waiting' = Empty
  BY <1>3 DEF ReleaseIfUngrabbed, ReleaseServerGrabWaiters
<1>4. ASSUME SettleClientOutput
      PROVE  parked' \subseteq parked /\ held' \subseteq held /\ grab' \in {grab, NoClient}
  <2>1. held' \subseteq held
    BY <1>0, <1>4, SettleKeepsConn
  <2>2. parked' \subseteq parked /\ grab' \in {grab, NoClient}
    BY <1>4 DEF SettleClientOutput
  <2> QED BY <1>0, <2>1, <2>2
<1>5. ASSUME NEW c \in Client, Receive(c)
      PROVE  /\ parked' \subseteq parked /\ held' \subseteq held /\ grab' \in {grab, NoClient}
             /\ waiting' = waiting \/ waiting' = Empty
  BY <1>2, <1>3, <1>5 DEF Receive, connVars
<1>6. ASSUME NEW c \in Client, CompletePending(c)
      PROVE  /\ parked' \subseteq parked /\ held' \subseteq held /\ grab' \in {grab, NoClient}
             /\ waiting' = waiting \/ waiting' = Empty
  BY <1>2, <1>3, <1>6 DEF CompletePending, queueVars
<1>7. ASSUME NEW c \in Client, WritableFails(c) \/ WriteFails(c) \/ Resume(c)
      PROVE  /\ parked' \subseteq parked /\ held' \subseteq held /\ grab' \in {grab, NoClient}
             /\ waiting' = waiting
  BY <1>2, <1>7 DEF WritableFails, WriteFails, Resume, queueVars
<1>8. CASE Settle
  BY <1>4, <1>8 DEF Settle, queueVars
<1>9. CASE EndIteration
  BY <1>3, <1>4, <1>9 DEF EndIteration
<1>10. CASE EndVtRelease
  BY <1>3, <1>10 DEF EndVtRelease, connVars
<1>11. CASE PollWork \/ EndDrain \/ StartNotify \/ EndNotify \/ VtRelease \/ PollIdle
            \/ Deadline \/ VtSignal
  BY <1>1, <1>11 DEF PollWork, PollIdle, PollReturns, EndDrain, StartNotify, EndNotify,
     VtRelease, Deadline, VtSignal, connVars, queueVars
<1>12. ASSUME NEW c \in Client,
              ReaderSend(c) \/ ReaderEof(c) \/ ReaderShutdown(c) \/ VtReceive(c) \/ VtCollect(c)
       PROVE  UNCHANGED <<parked, held, grab, waiting>>
  BY <1>12 DEF ReaderSend, ReaderEof, ReaderShutdown, VtReceive, VtCollect, connVars, queueVars
<1>13. CASE UNCHANGED vars
  BY <1>1, <1>13 DEF vars, connVars, queueVars
<1> QED BY <1>1, <1>5, <1>6, <1>7, <1>8, <1>9, <1>10, <1>11, <1>12, <1>13
        DEF Next, CoreStep, Environment

\* A server nobody grabs stays so, and sets no request aside.
LEMMA NoGrabStep ==
    ASSUME Calm, OrderInv, [Next]_vars PROVE NoGrab'
<1> SUFFICES ASSUME "grab" \notin Effects PROVE grab' = NoClient /\ waiting' = Empty
  BY DEF NoGrab
<1>0. ConnOK /\ grab = NoClient /\ waiting = Empty
  BY DEF OrderInv, StructInv, NoGrab
<1>1. CASE Dispatch
  <2>1. PICK i \in Turns(ready, Runnable) :
              /\ ready[i] \in Client /\ ProcessRequest(ready[i])
              /\ ReleaseIfUngrabbed(PopFront(queue, ready[i]), RingAfterPop(queue, ready, i))
    BY <1>1, DispatchFacts
  <2>2. grab' = NoClient
    BY <1>0, <2>1, RequestEffect
  <2>3. waiting' = Empty
    BY <2>1, <2>2 DEF ReleaseIfUngrabbed, ReleaseServerGrabWaiters
  <2> QED BY <2>2, <2>3
<1>2. ~Divert
  BY <1>0 DEF Divert
<1>3. CASE ~Dispatch
  BY <1>0, <1>2, <1>3, OtherEffect
<1> QED BY <1>1, <1>3

\* A client with requests set aside stays idle.
LEMMA WaitersIdleStep ==
    ASSUME Calm, OrderInv, [Next]_vars PROVE WaitersIdle'
<1>0. /\ ConnOK /\ WaitersIdle /\ QueueOK
      /\ queue \in [Client -> Seq(Nat)] /\ waiting \in [Client -> Seq(Nat)]
  BY DEF OrderInv, StructInv, QueueOK
<1>1. NoClient \notin Client
  BY CoreLoopAssumption
<1> SUFFICES ASSUME NEW d \in Client, waiting'[d] # << >>
             PROVE  d \notin parked' \cup held' /\ grab' # d
  BY DEF WaitersIdle
<1>2. waiting' # Empty
  BY DEF Empty
<1>3. CASE Dispatch
  <2>1. PICK i \in Turns(ready, Runnable) :
              /\ ready[i] \in Client /\ ready[i] \in Occupied(queue)
              /\ ready[i] \in clients => waiting[ready[i]] = << >>
              /\ ProcessRequest(ready[i])
              /\ ReleaseIfUngrabbed(PopFront(queue, ready[i]), RingAfterPop(queue, ready, i))
    BY <1>3, DispatchFacts
  <2> DEFINE c == ready[i]
             q == PopFront(queue, c)
             r == RingAfterPop(queue, ready, i)
  <2>2. q \in [Client -> Seq(Nat)]
    BY <1>0, <2>1, PopFrontQueue
  <2>3. ReleaseIfUngrabbed(q, r)
    BY <2>1
  <2> HIDE DEF q, r
  <2>4. waiting' = waiting
    BY <1>0, <1>2, <2>2, <2>3, ReleaseCases
  <2>5. d \notin parked \cup held /\ grab # d /\ waiting[d] # << >>
    BY <1>0, <2>4 DEF WaitersIdle
  <2>6. /\ parked' \subseteq parked \cup {c} /\ held' \subseteq held \cup {c}
        /\ grab' \in {grab, c, NoClient}
        /\ c \notin clients => UNCHANGED connVars
    BY <1>0, <2>1, RequestEffect
  <2>7. CASE c \in clients
    <3>1. c # d
      BY <2>1, <2>5, <2>7
    <3> QED BY <1>1, <2>5, <2>6, <3>1
  <2>8. CASE c \notin clients
    BY <2>5, <2>6, <2>8 DEF connVars
  <2> QED BY <2>7, <2>8
<1>4. CASE Divert
  <2>1. PICK i \in Turns(ready, Runnable) :
           /\ grab \notin {NoClient, ready[i]}
           /\ waiting' = PushBack(waiting, ready[i], Head(queue[ready[i]]))
    BY <1>4 DEF Divert
  <2> DEFINE c == ready[i]
  <2>2. c \in Client /\ c \in Runnable /\ Head(queue[c]) \in Nat
    BY <1>0, TurnFacts
  <2>3. UNCHANGED connVars
    BY <1>4 DEF Divert
  <2>4. CASE d = c
    BY <2>1, <2>2, <2>3, <2>4 DEF Runnable, connVars
  <2>5. CASE d # c
    <3>1. waiting'[d] = waiting[d]
      <4> HIDE DEF c
      <4>1. \A e \in Client : e # c => PushBack(waiting, c, Head(queue[c]))[e] = waiting[e]
        BY <1>0, <2>2, PushBackQueue
      <4>2. waiting' = PushBack(waiting, c, Head(queue[c]))
        BY <2>1 DEF c
      <4> QED BY <2>5, <4>1, <4>2
    <3> QED BY <1>0, <2>3, <3>1 DEF WaitersIdle, connVars
  <2> QED BY <2>4, <2>5
<1>5. CASE ~Dispatch /\ ~Divert
  <2>1. /\ parked' \subseteq parked /\ held' \subseteq held
        /\ grab' \in {grab, NoClient}
        /\ waiting' = waiting
    BY <1>2, <1>5, OtherEffect
  <2> QED BY <1>0, <1>1, <2>1 DEF WaitersIdle
<1> QED BY <1>3, <1>4, <1>5

\* Safe clients stay safe while queues and waiters stay and the budget does
\* not come back.
LEMMA SafeKept ==
    ASSUME queue' = queue, waiting' = waiting, budget' = budget, clock' \in {clock, "late"},
           NEW c, Safe(c), c \in failed => c \in failed'
    PROVE  Safe(c)'
BY DEF Safe, BudgetExhausted

\* Requests set aside stay behind a grab, or out of reach of the dispatcher.
LEMMA WaitersSafeStep ==
    ASSUME Calm, OrderInv, [Next]_vars PROVE WaitersSafe'
<1>0. /\ ConnOK /\ WaitersIdle /\ WaitersSafe /\ QueueOK
      /\ queue \in [Client -> Seq(Nat)] /\ waiting \in [Client -> Seq(Nat)]
  BY DEF OrderInv, StructInv, QueueOK
<1>1. CASE waiting' = Empty /\ ConnOK'
  <2>1. \A c \in clients' : Safe(c)'
    <3> SUFFICES ASSUME NEW c \in clients' PROVE Safe(c)'
      OBVIOUS
    <3>1. c \in Client
      BY <1>1 DEF ConnOK
    <3>2. waiting'[c] = << >>
      BY <1>1, <3>1 DEF Empty
    <3> QED BY <3>2 DEF Safe
  <2> QED BY <1>1, <2>1 DEF WaitersSafe
<1>2. CASE grab' # NoClient /\ pc' \notin {"events", "tail"}
  BY <1>2 DEF WaitersSafe
<1>c. ConnOK'
  BY ConnStep DEF OrderInv
<1>3. ASSUME NEW q \in [Client -> Seq(Nat)], NEW r, ReleaseIfUngrabbed(q, r),
             pc' \notin {"events", "tail"}
      PROVE  WaitersSafe'
  <2>1. waiting' = Empty \/ grab' # NoClient
    BY <1>0, <1>3, ReleaseCases
  <2> QED BY <1>1, <1>2, <1>3, <1>c, <2>1
<1>4. CASE /\ \A c \in clients : Safe(c)
           /\ queue' = queue /\ waiting' = waiting /\ budget' = budget
           /\ clock' \in {clock, "late"}
           /\ clients' \subseteq clients
           /\ \A c \in clients' : c \in failed => c \in failed'
           /\ pc' \notin {"poll", "backlog"}
  <2>1. \A c \in clients' : Safe(c)'
    <3> SUFFICES ASSUME NEW c \in clients' PROVE Safe(c)'
      OBVIOUS
    <3>1. Safe(c) /\ (c \in failed => c \in failed')
      BY <1>4
    <3> QED BY <1>4, <3>1, SafeKept
  <2> QED BY <1>4, <2>1 DEF WaitersSafe
<1>5. CASE /\ queue' = queue /\ waiting' = waiting /\ budget' = budget
           /\ clock' \in {clock, "late"}
           /\ clients' = clients /\ failed \subseteq failed' /\ grab' = grab /\ pc' = pc
  <2>1. \A c \in clients' : Safe(c) => Safe(c)'
    <3> SUFFICES ASSUME NEW c \in clients', Safe(c) PROVE Safe(c)'
      OBVIOUS
    <3>1. c \in failed => c \in failed'
      BY <1>5
    <3> QED BY <1>5, <3>1, SafeKept
  <2> QED BY <1>0, <1>5, <2>1 DEF WaitersSafe
<1>6. CASE Dispatch
  <2>1. PICK i \in Turns(ready, Runnable) :
              /\ ready[i] \in Occupied(queue)
              /\ ReleaseIfUngrabbed(PopFront(queue, ready[i]), RingAfterPop(queue, ready, i))
    BY <1>6, DispatchFacts
  <2>2. PopFront(queue, ready[i]) \in [Client -> Seq(Nat)]
    BY <1>0, <2>1, PopFrontQueue
  <2>3. pc' \notin {"events", "tail"}
    BY <1>0, <1>6 DEF Dispatch, Draining
  <2> QED BY <1>3, <2>1, <2>2, <2>3
<1>7. CASE Divert
  <2>1. grab' # NoClient /\ pc' \notin {"events", "tail"}
    BY <1>0, <1>7 DEF Divert, Draining, connVars
  <2> QED BY <1>2, <2>1
<1>8. CASE PollWork \/ PollIdle
  <2>1. pc = "poll" /\ pc' = "backlog" /\ grab' = grab /\ waiting' = waiting
    BY <1>8 DEF PollWork, PollIdle, PollReturns, connVars, queueVars
  <2> QED BY <1>0, <2>1 DEF WaitersSafe
<1>9. CASE EndDrain
  <2>1. \A c \in clients : Safe(c)
    BY <1>0, <1>9, DrainedIsSafe DEF EndDrain
  <2> QED BY <1>4, <1>9, <2>1 DEF EndDrain, connVars, queueVars
<1>10. CASE StartNotify
  <2>1. \A c \in clients : Safe(c)
    BY <1>0, <1>10 DEF StartNotify, WaitersSafe
  <2> QED BY <1>4, <1>10, <2>1 DEF StartNotify, connVars, queueVars
<1>11. ASSUME NEW c \in Client, Receive(c) PROVE WaitersSafe'
  <2>1. c \in Occupied(batch) /\ batch \in [Client -> Seq(Nat)]
    BY <1>11 DEF Receive, Occupied, OrderInv, StructInv, LinkOK
  <2>2. Head(batch[c]) \in Nat
    BY <2>1, PopFrontQueue
  <2>3. PushBack(queue, c, Head(batch[c])) \in [Client -> Seq(Nat)]
    BY <1>0, <2>2, PushBackQueue
  <2>4. pc' \notin {"events", "tail"}
    BY <1>11 DEF Receive
  <2> QED BY <1>0, <1>3, <1>11, <2>3, <2>4 DEF Receive
<1>12. CASE EndNotify
  <2>1. /\ pc = "notify" /\ pc' = "drain" /\ queue' = queue /\ waiting' = waiting
        /\ budget' = budget /\ clock' = clock /\ clients' = clients /\ failed' = failed
        /\ grab' = grab
    BY <1>12 DEF EndNotify, connVars, queueVars
  <2>2. \A c \in clients' : Safe(c) => Safe(c)'
    BY <2>1, SafeKept
  <2> QED BY <1>0, <2>1, <2>2 DEF WaitersSafe
<1>13. ASSUME NEW c \in Client, CompletePending(c) PROVE WaitersSafe'
  <2>1. CASE pc = "notify"
    <3>1. ReleaseIfUngrabbed(queue, ready) /\ pc' = pc
      BY <1>13, <2>1 DEF CompletePending, loopVars
    <3> QED BY <1>0, <1>3, <2>1, <3>1
  <2>2. CASE pc = "tail"
    <3>1. \A d \in clients : Safe(d)
      BY <1>0, <2>2 DEF WaitersSafe
    <3>2. /\ queue' = queue /\ waiting' = waiting /\ budget' = budget /\ clock' = clock
          /\ pc' = pc
      BY <1>13, <2>2 DEF CompletePending, loopVars, queueVars
    <3>3. clients' \subseteq clients /\ \A d \in clients' : d \in failed => d \in failed'
      BY <1>13 DEF CompletePending, DisconnectWithPendingCleanup, ProcessDisconnect
    <3> QED BY <1>4, <2>2, <3>1, <3>2, <3>3
  <2>3. CASE pc = "vt"
    BY <1>13, <2>3 DEF CompletePending, loopVars, WaitersSafe
  <2> QED BY <1>13, <2>1, <2>2, <2>3 DEF CompletePending
<1>14. ASSUME NEW c \in Client, WritableFails(c) PROVE WaitersSafe'
  <2>1. \A d \in clients : Safe(d)
    BY <1>0, <1>14 DEF WritableFails, WaitersSafe
  <2>2. clients' \subseteq clients /\ \A d \in clients' : d \in failed => d \in failed'
    BY <1>14 DEF WritableFails, DisconnectWithPendingCleanup, ProcessDisconnect
  <2> QED BY <1>4, <1>14, <2>1, <2>2 DEF WritableFails, loopVars, queueVars
<1>15. CASE Settle
  <2>1. \A d \in clients : Safe(d)
    BY <1>0, <1>15 DEF Settle, WaitersSafe
  <2>2. clients' \subseteq clients /\ \A d \in clients' : d \in failed => d \in failed'
    BY <1>15 DEF Settle, SettleClientOutput
  <2> QED BY <1>4, <1>15, <2>1, <2>2 DEF Settle, queueVars
<1>16. CASE EndIteration
  BY <1>0, <1>3, <1>16 DEF EndIteration
<1>17. CASE Deadline
  BY <1>5, <1>17 DEF Deadline, connVars, queueVars
<1>18. ASSUME NEW c \in Client, WriteFails(c) \/ Resume(c) \/ ReaderSend(c) \/ ReaderEof(c)
                                  \/ ReaderShutdown(c)
       PROVE  WaitersSafe'
  BY <1>5, <1>18 DEF WriteFails, Resume, ReaderSend, ReaderEof, ReaderShutdown,
     connVars, queueVars, loopVars
<1>19. CASE UNCHANGED vars
  BY <1>5, <1>19 DEF vars, connVars, queueVars, loopVars
<1>20. CASE VtSignal
  BY <1>5, <1>20 DEF VtSignal, connVars, queueVars, loopVars
<1>21. CASE VtRelease \/ \E c \in Client : VtReceive(c) \/ VtCollect(c)
  <2>1. pc' = "vt"
    BY <1>21 DEF VtRelease, VtReceive, VtCollect
  <2> QED BY <2>1 DEF WaitersSafe
<1>22. CASE EndVtRelease
  BY <1>0, <1>3, <1>22 DEF EndVtRelease
<1> QED BY <1>6, <1>7, <1>8, <1>9, <1>10, <1>11, <1>12, <1>13, <1>14, <1>15, <1>16, <1>17,
           <1>18, <1>19, <1>20, <1>21, <1>22
        DEF Next, CoreStep, Environment
-------------------------------------------------------------------------------
(***************************************************************************)
(* Order                                                                   *)
(***************************************************************************)

\* RequestsInOrder for one client.
Tracks(w, q, b, h, l, rd, n) ==
    /\ Stream(w, q, b, h, l)
    /\ rd => n = Total(w, q, b, h, l)

TracksClient(c) ==
    Tracks(waiting[c], queue[c], batch[c], channel[c], last[c], reader[c], sent[c])

\* RequestsInOrder, one client at a time.
LEMMA RequestsInOrderDef == RequestsInOrder <=> \A c \in clients : TracksClient(c)
BY DEF RequestsInOrder, TracksClient, Tracks, Stream, Total

\* No step connects a client.
LEMMA ClientsShrink ==
    ASSUME Calm, OrderInv, [Next]_vars PROVE clients' \subseteq clients
<1>1. CASE Dispatch
  <2>1. PICK i \in Turns(ready, Runnable) : ready[i] \in Client /\ ProcessRequest(ready[i])
    BY <1>1, DispatchFacts
  <2> QED BY <2>1, RequestEffect DEF OrderInv, StructInv
<1>2. CASE CoreStep /\ ~Dispatch
  BY <1>2 DEF CoreStep, PollWork, PollReturns, Divert, EndDrain, StartNotify, Receive,
     EndNotify, Settle, EndIteration, VtRelease, EndVtRelease, DisconnectWithPendingCleanup,
     ProcessDisconnect, SettleClientOutput, connVars
<1>3. CASE Environment
  BY <1>3 DEF Environment, PollIdle, PollReturns, Deadline, VtSignal, ReaderSend, ReaderEof,
     ReaderShutdown, WritableFails, WriteFails, CompletePending, Resume, VtReceive, VtCollect,
     DisconnectWithPendingCleanup, ProcessDisconnect, connVars
<1>4. CASE UNCHANGED vars
  BY <1>4 DEF vars, connVars
<1> QED BY <1>1, <1>2, <1>3, <1>4 DEF Next

\* Freeing the waiters, or not, keeps the stream of a client.
LEMMA ReleaseTracks ==
    ASSUME NEW q \in [Client -> Seq(Nat)], NEW r, waiting \in [Client -> Seq(Nat)],
           ReleaseIfUngrabbed(q, r), NEW d \in Client,
           NEW b \in Seq(Nat), NEW h \in Seq(Nat), NEW l \in Nat, NEW rd, NEW n,
           Tracks(waiting[d], q[d], b, h, l, rd, n)
    PROVE  Tracks(waiting'[d], queue'[d], b, h, l, rd, n)
<1>1. CASE queue'[d] = waiting[d] \o q[d] /\ waiting'[d] = << >>
  <2>1. waiting[d] \in Seq(Nat) /\ q[d] \in Seq(Nat)
    OBVIOUS
  <2>2. /\ Stream(<< >>, waiting[d] \o q[d], b, h, l)
        /\ Total(<< >>, waiting[d] \o q[d], b, h, l) = Total(waiting[d], q[d], b, h, l)
    BY <2>1, StreamRelease DEF Tracks
  <2> QED BY <1>1, <2>2 DEF Tracks
<1>2. CASE queue' = q /\ waiting' = waiting
  BY <1>2
<1> QED BY <1>1, <1>2, ReleaseCases

\* Every step moves requests along their client's stream without a gap, a
\* repetition or an overtaking.
LEMMA OrderStep ==
    ASSUME Calm, OrderInv, [Next]_vars PROVE RequestsInOrder'
<1>1. /\ queue \in [Client -> Seq(Nat)] /\ waiting \in [Client -> Seq(Nat)]
      /\ batch \in [Client -> Seq(Nat)] /\ channel \in [Client -> Seq(Nat)]
  BY DEF OrderInv, StructInv, QueueOK, LinkOK
<1>2. /\ last \in [Client -> Nat] /\ sent \in [Client -> Nat] /\ reader \in [Client -> BOOLEAN]
      /\ QueueOK /\ ConnOK
  BY DEF OrderInv, StructInv, ReaderOK
<1>3. BatchSpent
  BY DEF OrderInv
<1> SUFFICES ASSUME NEW d \in clients' PROVE TracksClient(d)'
  BY DEF RequestsInOrder, TracksClient, Tracks, Stream, Total
<1>4. d \in clients /\ d \in Client
  BY <1>2, ClientsShrink DEF ConnOK
<1>5. TracksClient(d)
  BY <1>4, RequestsInOrderDef DEF OrderInv
<1>6. /\ waiting[d] \in Seq(Nat) /\ queue[d] \in Seq(Nat) /\ batch[d] \in Seq(Nat)
      /\ channel[d] \in Seq(Nat) /\ last[d] \in Nat /\ sent[d] \in Nat
  BY <1>1, <1>2, <1>4
<1>7. CASE UNCHANGED <<readerVars, channel, batch, last, queue, waiting>>
  BY <1>5, <1>7 DEF TracksClient, readerVars
<1>8. CASE Dispatch
  <2>1. PICK i \in Turns(ready, Runnable) :
              /\ ready[i] \in Client /\ ready[i] \in Occupied(queue)
              /\ ready[i] \in clients => waiting[ready[i]] = << >>
              /\ ProcessRequest(ready[i])
              /\ ReleaseIfUngrabbed(PopFront(queue, ready[i]), RingAfterPop(queue, ready, i))
    BY <1>8, DispatchFacts
  <2> DEFINE c == ready[i]
             q == PopFront(queue, c)
             r == RingAfterPop(queue, ready, i)
  <2>2. /\ c \in Client /\ ReleaseIfUngrabbed(q, r) /\ c \in Occupied(queue)
        /\ c \in clients => waiting[c] = << >>
    BY <2>1
  <2>3. /\ c \notin clients => last' = last
        /\ c \in clients => last' = [last EXCEPT ![c] = Head(queue[c])]
    BY <1>2, <2>1, RequestEffect
  <2>4. /\ reader' = reader /\ sent' = sent /\ channel' = channel /\ batch' = batch
    BY <1>8 DEF Dispatch, linkVars
  <2> HIDE DEF c, r
  <2>5. /\ q \in [Client -> Seq(Nat)] /\ q[c] = Tail(queue[c]) /\ queue[c] # << >>
        /\ \A e \in Client : e # c => q[e] = queue[e]
    BY <1>1, <2>2, PopFrontQueue
  <2> HIDE DEF q
  <2>6. last'[d] \in Nat
        /\ Tracks(waiting[d], q[d], batch[d], channel[d], last'[d], reader[d], sent[d])
    <3>1. CASE d = c
      <4>1. waiting[d] = << >> /\ last'[d] = Head(queue[d]) /\ queue[d] # << >>
            /\ q[d] = Tail(queue[d])
        BY <1>2, <1>4, <2>2, <2>3, <2>5, <3>1
      <4>2. Stream(<< >>, queue[d], batch[d], channel[d], last[d])
            /\ (reader[d] => sent[d] = Total(<< >>, queue[d], batch[d], channel[d], last[d]))
        BY <1>5, <4>1 DEF TracksClient, Tracks
      <4>3. /\ Head(queue[d]) = last[d] + 1
            /\ Stream(<< >>, Tail(queue[d]), batch[d], channel[d], last[d] + 1)
            /\ Total(<< >>, Tail(queue[d]), batch[d], channel[d], last[d] + 1)
                 = Total(<< >>, queue[d], batch[d], channel[d], last[d])
        BY <1>6, <4>1, <4>2, StreamDispatch
      <4>4. last'[d] = last[d] + 1 /\ last'[d] \in Nat
        BY <1>6, <4>1, <4>3
      <4> QED BY <4>1, <4>2, <4>3, <4>4 DEF Tracks
    <3>2. CASE d # c
      <4>1. last'[d] = last[d] /\ q[d] = queue[d]
        BY <1>2, <1>4, <2>3, <2>5, <3>2
      <4> QED BY <1>5, <1>6, <4>1 DEF TracksClient
    <3> QED BY <3>1, <3>2
  <2>7. Tracks(waiting'[d], queue'[d], batch[d], channel[d], last'[d], reader[d], sent[d])
    BY <1>1, <1>4, <1>6, <2>2, <2>5, <2>6, ReleaseTracks
  <2> QED BY <2>4, <2>7 DEF TracksClient
<1>9. CASE Divert
  <2>1. PICK i \in Turns(ready, Runnable) :
           /\ queue' = PopFront(queue, ready[i])
           /\ waiting' = PushBack(waiting, ready[i], Head(queue[ready[i]]))
    BY <1>9 DEF Divert
  <2> DEFINE c == ready[i]
  <2>2. c \in Client /\ c \in Occupied(queue) /\ Head(queue[c]) \in Nat
    BY <1>2, TurnFacts
  <2>3. queue' = PopFront(queue, c) /\ waiting' = PushBack(waiting, c, Head(queue[c]))
    BY <2>1
  <2>4. UNCHANGED <<readerVars, channel, batch, last>>
    BY <1>9 DEF Divert, linkVars
  <2> HIDE DEF c
  <2>5. /\ queue'[c] = Tail(queue[c]) /\ queue[c] # << >>
        /\ \A e \in Client : e # c => queue'[e] = queue[e]
    BY <1>1, <2>2, <2>3, PopFrontQueue
  <2>6. /\ waiting'[c] = Append(waiting[c], Head(queue[c]))
        /\ \A e \in Client : e # c => waiting'[e] = waiting[e]
    <3> DEFINE m == Head(queue[c])
    <3>1. m \in Nat /\ waiting \in [Client -> Seq(Nat)] /\ c \in Client
      BY <1>1, <2>2
    <3> HIDE DEF m
    <3>2. /\ PushBack(waiting, c, m)[c] = Append(waiting[c], m)
          /\ \A e \in Client : e # c => PushBack(waiting, c, m)[e] = waiting[e]
      BY <3>1, PushBackQueue
    <3> QED BY <2>3, <3>2 DEF m
  <2>7. CASE d = c
    <3>1. queue'[d] = Tail(queue[d]) /\ waiting'[d] = Append(waiting[d], Head(queue[d]))
          /\ queue[d] # << >>
      BY <2>5, <2>6, <2>7
    <3>2. Stream(waiting[d], queue[d], batch[d], channel[d], last[d])
      BY <1>5 DEF TracksClient, Tracks
    <3>3. /\ Stream(Append(waiting[d], Head(queue[d])), Tail(queue[d]), batch[d], channel[d],
                    last[d])
          /\ Total(Append(waiting[d], Head(queue[d])), Tail(queue[d]), batch[d], channel[d],
                   last[d])
               = Total(waiting[d], queue[d], batch[d], channel[d], last[d])
      BY <1>6, <3>1, <3>2, StreamDivert
    <3> QED BY <1>5, <2>4, <3>1, <3>3 DEF TracksClient, Tracks, readerVars
  <2>8. CASE d # c
    BY <1>4, <1>5, <2>4, <2>5, <2>6, <2>8 DEF TracksClient, readerVars
  <2> QED BY <2>7, <2>8
<1>10. ASSUME NEW c \in Client, Receive(c) PROVE TracksClient(d)'
  <2>1. UNCHANGED <<readerVars, channel, last>> /\ batch' = PopFront(batch, c)
    BY <1>10 DEF Receive, linkVars
  <2>2. c \in Occupied(batch)
    BY <1>10 DEF Receive, Occupied
  <2>3. /\ Head(batch[c]) \in Nat /\ batch[c] # << >> /\ batch'[c] = Tail(batch[c])
        /\ \A e \in Client : e # c => batch'[e] = batch[e]
        /\ batch' \in [Client -> Seq(Nat)]
    BY <1>1, <2>1, <2>2, PopFrontQueue
  <2>4. batch'[d] \in Seq(Nat)
    BY <1>4, <2>3
  <2>5. CASE Head(batch[c]) # Eof
    <3> DEFINE q == PushBack(queue, c, Head(batch[c]))
               r == RingAfterPush(queue, ready, c)
    <3>1. ReleaseIfUngrabbed(q, r)
      BY <1>10, <2>5 DEF Receive
    <3>2. /\ q \in [Client -> Seq(Nat)] /\ q[c] = Append(queue[c], Head(batch[c]))
          /\ \A e \in Client : e # c => q[e] = queue[e]
      BY <1>1, <2>3, PushBackQueue
    <3> HIDE DEF q, r
    <3>3. Tracks(waiting[d], q[d], batch'[d], channel[d], last[d], reader[d], sent[d])
      <4>1. CASE d = c
        <5>1. batch[d] # << >> /\ Head(batch[d]) # Eof /\ batch'[d] = Tail(batch[d])
              /\ q[d] = Append(queue[d], Head(batch[d]))
          BY <2>3, <2>5, <3>2, <4>1
        <5>2. Stream(waiting[d], queue[d], batch[d], channel[d], last[d])
          BY <1>5 DEF TracksClient, Tracks
        <5>3. /\ Stream(waiting[d], Append(queue[d], Head(batch[d])), Tail(batch[d]),
                        channel[d], last[d])
              /\ Total(waiting[d], Append(queue[d], Head(batch[d])), Tail(batch[d]),
                       channel[d], last[d])
                   = Total(waiting[d], queue[d], batch[d], channel[d], last[d])
          BY <1>6, <5>1, <5>2, StreamReceive
        <5> QED BY <1>5, <5>1, <5>3 DEF TracksClient, Tracks
      <4>2. CASE d # c
        BY <1>4, <1>5, <2>3, <3>2, <4>2 DEF TracksClient
      <4> QED BY <4>1, <4>2
    <3>4. Tracks(waiting'[d], queue'[d], batch'[d], channel[d], last[d], reader[d], sent[d])
      BY <1>1, <1>4, <1>6, <2>4, <3>1, <3>2, <3>3, ReleaseTracks
    <3> QED BY <2>1, <3>4 DEF TracksClient, readerVars
  <2>6. CASE Head(batch[c]) = Eof
    <3>1. ReleaseIfUngrabbed(queue, ready) /\ clients' = clients \ {c}
      BY <1>10, <2>6 DEF Receive, DisconnectWithPendingCleanup, ProcessDisconnect
    <3>2. batch'[d] = batch[d]
      BY <1>4, <2>3, <3>1
    <3>3. Tracks(waiting'[d], queue'[d], batch[d], channel[d], last[d], reader[d], sent[d])
      BY <1>1, <1>4, <1>5, <1>6, <3>1, ReleaseTracks DEF TracksClient
    <3> QED BY <2>1, <3>2, <3>3 DEF TracksClient, readerVars
  <2> QED BY <2>5, <2>6
<1>11. CASE ReleaseIfUngrabbed(queue, ready)
            /\ UNCHANGED <<reader, sent, channel, batch, last>>
  <2>1. Tracks(waiting'[d], queue'[d], batch[d], channel[d], last[d], reader[d], sent[d])
    BY <1>1, <1>4, <1>5, <1>6, <1>11, ReleaseTracks DEF TracksClient
  <2> QED BY <1>11, <2>1 DEF TracksClient
<1>12. CASE StartNotify
  <2>1. /\ batch = Empty /\ batch' = channel /\ channel' = Empty
        /\ UNCHANGED <<readerVars, last, queue, waiting>>
    BY <1>3, <1>12 DEF StartNotify, BatchSpent, queueVars
  <2>2. batch[d] = << >> /\ channel'[d] = << >> /\ batch'[d] = channel[d]
    BY <1>4, <2>1 DEF Empty
  <2>3. Stream(waiting[d], queue[d], << >>, channel[d], last[d])
    BY <1>5, <2>2 DEF TracksClient, Tracks
  <2>4. /\ Stream(waiting[d], queue[d], channel[d], << >>, last[d])
        /\ Total(waiting[d], queue[d], channel[d], << >>, last[d])
             = Total(waiting[d], queue[d], << >>, channel[d], last[d])
    BY <1>6, <2>3, StreamCollect
  <2> QED BY <1>5, <2>1, <2>2, <2>4 DEF TracksClient, Tracks, readerVars
<1>13. ASSUME NEW c \in Client, ReaderSend(c) PROVE TracksClient(d)'
  <2>1. /\ channel' = PushBack(channel, c, sent[c] + 1)
        /\ sent' = [sent EXCEPT ![c] = @ + 1] /\ reader[c]
        /\ UNCHANGED <<reader, batch, last, queue, waiting>>
    BY <1>13 DEF ReaderSend, PushBack, queueVars, loopVars
  <2>2. sent[c] + 1 \in Nat
    BY <1>2
  <2>3. /\ channel'[c] = Append(channel[c], sent[c] + 1)
        /\ \A e \in Client : e # c => channel'[e] = channel[e]
    BY <1>1, <2>1, <2>2, PushBackQueue
  <2>4. CASE d = c
    <3>1. /\ channel'[d] = Append(channel[d], sent[d] + 1) /\ sent'[d] = sent[d] + 1
          /\ reader[d]
      BY <1>2, <2>1, <2>3, <2>4
    <3>2. /\ Stream(waiting[d], queue[d], batch[d], channel[d], last[d])
          /\ sent[d] = Total(waiting[d], queue[d], batch[d], channel[d], last[d])
      BY <1>5, <3>1 DEF TracksClient, Tracks
    <3>3. /\ Stream(waiting[d], queue[d], batch[d], Append(channel[d], sent[d] + 1), last[d])
          /\ Total(waiting[d], queue[d], batch[d], Append(channel[d], sent[d] + 1), last[d])
               = sent[d] + 1
      BY <1>6, <3>2, StreamSend
    <3> QED BY <2>1, <3>1, <3>3 DEF TracksClient, Tracks
  <2>5. CASE d # c
    <3>1. channel'[d] = channel[d] /\ sent'[d] = sent[d]
      BY <1>2, <1>4, <2>1, <2>3, <2>5
    <3> QED BY <1>5, <2>1, <3>1 DEF TracksClient
  <2> QED BY <2>4, <2>5
<1>14. ASSUME NEW c \in Client, ReaderEof(c) PROVE TracksClient(d)'
  <2>1. /\ channel' = PushBack(channel, c, Eof)
        /\ reader' = [reader EXCEPT ![c] = FALSE]
        /\ UNCHANGED <<sent, batch, last, queue, waiting>>
    BY <1>14 DEF ReaderEof, PushBack, queueVars, loopVars
  <2>2. Eof \in Nat
    BY DEF Eof
  <2>3. /\ channel'[c] = Append(channel[c], Eof)
        /\ \A e \in Client : e # c => channel'[e] = channel[e]
    <3>1. /\ PushBack(channel, c, Eof)[c] = Append(channel[c], Eof)
          /\ \A e \in Client : e # c => PushBack(channel, c, Eof)[e] = channel[e]
      BY <1>1, <2>2, PushBackQueue
    <3> QED BY <2>1, <3>1
  <2>4. CASE d = c
    <3>1. channel'[d] = Append(channel[d], Eof) /\ ~reader'[d]
      BY <1>2, <2>1, <2>3, <2>4
    <3>2. Stream(waiting[d], queue[d], batch[d], channel[d], last[d])
      BY <1>5 DEF TracksClient, Tracks
    <3>3. Stream(waiting[d], queue[d], batch[d], Append(channel[d], Eof), last[d])
      BY <1>6, <3>2, StreamSend
    <3> QED BY <2>1, <3>1, <3>3 DEF TracksClient, Tracks
  <2>5. CASE d # c
    <3>1. channel'[d] = channel[d] /\ reader'[d] = reader[d]
      BY <1>2, <1>4, <2>1, <2>3, <2>5
    <3> QED BY <1>5, <2>1, <3>1 DEF TracksClient
  <2> QED BY <2>4, <2>5
<1>15. ASSUME NEW c \in Client, ReaderShutdown(c) PROVE TracksClient(d)'
  <2>1. /\ c # d /\ reader' = [reader EXCEPT ![c] = FALSE]
        /\ UNCHANGED <<sent, channel, batch, last, queue, waiting>>
    BY <1>4, <1>15 DEF ReaderShutdown, linkVars, queueVars, loopVars
  <2>2. reader'[d] = reader[d]
    BY <1>2, <1>4, <2>1
  <2> QED BY <1>5, <2>1, <2>2 DEF TracksClient
<1>16. ASSUME NEW c \in Client, CompletePending(c) PROVE TracksClient(d)'
  <2>1. UNCHANGED <<reader, sent, channel, batch, last>>
    BY <1>16 DEF CompletePending, linkVars, loopVars
  <2>2. CASE UNCHANGED queueVars
    BY <1>5, <2>1, <2>2 DEF TracksClient, queueVars
  <2> QED BY <1>11, <1>16, <2>1, <2>2 DEF CompletePending
<1>17. CASE EndIteration
  BY <1>11, <1>17 DEF EndIteration, readerVars, linkVars
<1>18. CASE PollWork \/ EndDrain \/ EndNotify \/ Settle \/ PollIdle \/ Deadline \/ VtSignal
            \/ VtRelease
  BY <1>7, <1>18 DEF PollWork, PollIdle, PollReturns, EndDrain, EndNotify, Settle, Deadline,
     VtSignal, VtRelease, queueVars, linkVars, loopVars
<1>19. ASSUME NEW c \in Client, WritableFails(c) \/ WriteFails(c) \/ Resume(c)
       PROVE  TracksClient(d)'
  BY <1>7, <1>19 DEF WritableFails, WriteFails, Resume, queueVars, linkVars, loopVars
<1>20. CASE UNCHANGED vars
  BY <1>7, <1>20 DEF vars, queueVars, linkVars, loopVars
<1>21. CASE EndVtRelease
  BY <1>11, <1>21 DEF EndVtRelease, readerVars, linkVars
<1>22. ASSUME NEW c \in Client, VtReceive(c) PROVE TracksClient(d)'
  <2>1. /\ UNCHANGED <<readerVars, channel, last, waiting>> /\ batch' = PopFront(batch, c)
        /\ queue' = PushBack(queue, c, Head(batch[c]))
        /\ Head(batch[c]) # Eof /\ c \in Occupied(batch)
    BY <1>22 DEF VtReceive, linkVars, Occupied
  <2>2. /\ Head(batch[c]) \in Nat /\ batch[c] # << >> /\ batch'[c] = Tail(batch[c])
        /\ \A e \in Client : e # c => batch'[e] = batch[e]
    BY <1>1, <2>1, PopFrontQueue
  <2>3. /\ queue'[c] = Append(queue[c], Head(batch[c]))
        /\ \A e \in Client : e # c => queue'[e] = queue[e]
    <3> DEFINE m == Head(batch[c])
    <3>1. m \in Nat /\ queue \in [Client -> Seq(Nat)] /\ c \in Client
      BY <1>1, <2>2
    <3> HIDE DEF m
    <3>2. /\ PushBack(queue, c, m)[c] = Append(queue[c], m)
          /\ \A e \in Client : e # c => PushBack(queue, c, m)[e] = queue[e]
      BY <3>1, PushBackQueue
    <3> QED BY <2>1, <3>2 DEF m
  <2>4. CASE d = c
    <3>1. Stream(waiting[d], queue[d], batch[d], channel[d], last[d])
      BY <1>5 DEF TracksClient, Tracks
    <3>2. /\ Stream(waiting[d], Append(queue[d], Head(batch[d])), Tail(batch[d]),
                    channel[d], last[d])
          /\ Total(waiting[d], Append(queue[d], Head(batch[d])), Tail(batch[d]),
                   channel[d], last[d])
               = Total(waiting[d], queue[d], batch[d], channel[d], last[d])
      BY <1>6, <2>1, <2>2, <2>4, <3>1, StreamReceive
    <3>3. queue'[d] = Append(queue[d], Head(batch[d])) /\ batch'[d] = Tail(batch[d])
      BY <2>2, <2>3, <2>4
    <3> QED BY <1>5, <2>1, <3>2, <3>3 DEF TracksClient, Tracks, readerVars
  <2>5. CASE d # c
    BY <1>4, <1>5, <2>1, <2>2, <2>3, <2>5 DEF TracksClient, readerVars
  <2> QED BY <2>4, <2>5
<1>23. ASSUME NEW c \in Client, VtCollect(c) PROVE TracksClient(d)'
  <2>1. /\ UNCHANGED <<readerVars, last, queue, waiting>> /\ channel' = PopFront(channel, c)
        /\ batch' = PushBack(batch, c, Head(channel[c])) /\ c \in Occupied(channel)
    BY <1>23 DEF VtCollect, queueVars, Occupied
  <2>2. /\ Head(channel[c]) \in Nat /\ channel[c] # << >> /\ channel'[c] = Tail(channel[c])
        /\ \A e \in Client : e # c => channel'[e] = channel[e]
    BY <1>1, <2>1, PopFrontQueue
  <2>3. /\ batch'[c] = Append(batch[c], Head(channel[c]))
        /\ \A e \in Client : e # c => batch'[e] = batch[e]
    <3> DEFINE m == Head(channel[c])
    <3>1. m \in Nat /\ batch \in [Client -> Seq(Nat)] /\ c \in Client
      BY <1>1, <2>2
    <3> HIDE DEF m
    <3>2. /\ PushBack(batch, c, m)[c] = Append(batch[c], m)
          /\ \A e \in Client : e # c => PushBack(batch, c, m)[e] = batch[e]
      BY <3>1, PushBackQueue
    <3> QED BY <2>1, <3>2 DEF m
  <2>4. CASE d = c
    <3>1. Stream(waiting[d], queue[d], batch[d], channel[d], last[d])
      BY <1>5 DEF TracksClient, Tracks
    <3>2. /\ Stream(waiting[d], queue[d], Append(batch[d], Head(channel[d])),
                    Tail(channel[d]), last[d])
          /\ Total(waiting[d], queue[d], Append(batch[d], Head(channel[d])),
                   Tail(channel[d]), last[d])
               = Total(waiting[d], queue[d], batch[d], channel[d], last[d])
      BY <1>6, <2>2, <2>4, <3>1, StreamCollectOne
    <3>3. batch'[d] = Append(batch[d], Head(channel[d])) /\ channel'[d] = Tail(channel[d])
      BY <2>2, <2>3, <2>4
    <3> QED BY <1>5, <2>1, <3>2, <3>3 DEF TracksClient, Tracks, readerVars
  <2>5. CASE d # c
    BY <1>4, <1>5, <2>1, <2>2, <2>3, <2>5 DEF TracksClient, readerVars
  <2> QED BY <2>4, <2>5
<1> QED BY <1>8, <1>9, <1>10, <1>12, <1>13, <1>14, <1>15, <1>16, <1>17, <1>18, <1>19, <1>20,
           <1>21, <1>22, <1>23
        DEF Next, CoreStep, Environment

\* A dispatched request is the one after the client's last.
LEMMA DispatchedIsNext ==
    ASSUME OrderInv, NEW c \in clients, waiting[c] = << >>, c \in Occupied(queue)
    PROVE  c \in Client /\ Head(queue[c]) = last[c] + 1
<1>1. c \in Client /\ queue[c] # << >>
  BY DEF OrderInv, StructInv, ConnOK, Occupied
<1>2. /\ queue[c] \in Seq(Nat) /\ batch[c] \in Seq(Nat) /\ channel[c] \in Seq(Nat)
      /\ last[c] \in Nat
  BY <1>1 DEF OrderInv, StructInv, QueueOK, LinkOK, ReaderOK
<1>3. Stream(<< >>, queue[c], batch[c], channel[c], last[c])
  BY RequestsInOrderDef DEF OrderInv, TracksClient, Tracks
<1> QED BY <1>1, <1>2, <1>3, StreamDispatch
-------------------------------------------------------------------------------
(***************************************************************************)
(* Credit                                                                  *)
(***************************************************************************)

\* A request gives its credit back at once, unless it parks its client.
LEMMA RequestCredit ==
    ASSUME ConnOK, outstanding \in [Client -> Int], NEW c \in clients, ProcessRequest(c)
    PROVE  /\ \A d \in clients' : d # c => outstanding'[d] = outstanding[d] /\ (d \in parked' <=> d \in parked)
           /\ c \in clients' =>
                \/ outstanding'[c] = outstanding[c] - 1 /\ (c \in parked' <=> c \in parked)
                \/ outstanding'[c] = outstanding[c] /\ c \in parked'
<1>1. c \in Client /\ \A d \in clients : d \in Client
  BY DEF ConnOK
<1>2. ASSUME GrantRequestCredit(c)
      PROVE  /\ outstanding'[c] = outstanding[c] - 1
             /\ \A d \in Client : d # c => outstanding'[d] = outstanding[d]
  BY <1>1, <1>2 DEF GrantRequestCredit
<1>3. CASE GrantRequestCredit(c) /\ parked' = parked /\ clients' \subseteq clients
  BY <1>1, <1>2, <1>3
<1>4. CASE HandlePlain(c) \/ HandleGrabServer(c) \/ HandleUngrabServer(c) \/ HandleAwait(c)
           \/ HandleResume(c)
  BY <1>3, <1>4 DEF HandlePlain, HandleGrabServer, HandleUngrabServer, HandleAwait,
     HandleResume, connVars
<1>5. CASE HandlePending(c)
  BY <1>5 DEF HandlePending
<1>6. CASE HandleQuit(c)
  BY <1>6 DEF HandleQuit, DisconnectWithPendingCleanup, ProcessDisconnect
<1>7. CASE HandleKillClient(c)
  BY <1>3, <1>7 DEF HandleKillClient, ProcessDisconnect
<1> QED BY <1>4, <1>5, <1>6, <1>7 DEF ProcessRequest

\* Every step keeps the credit of every connected client accounted for.
LEMMA CreditStep ==
    ASSUME Calm, OrderInv, [Next]_vars PROVE CreditConserved'
<1>1. /\ last \in [Client -> Nat] /\ sent \in [Client -> Nat]
      /\ outstanding \in [Client -> Int] /\ ConnOK
  BY DEF OrderInv, StructInv, ReaderOK
<1> SUFFICES ASSUME NEW d \in clients'
             PROVE  outstanding'[d] = (sent'[d] - last'[d]) + (IF d \in parked' THEN 1 ELSE 0)
  BY DEF CreditConserved
<1>3. d \in clients /\ d \in Client
  BY <1>1, ClientsShrink DEF ConnOK
<1>4. outstanding[d] = (sent[d] - last[d]) + (IF d \in parked THEN 1 ELSE 0)
  BY <1>3 DEF OrderInv, CreditConserved
<1>5. last[d] \in Nat /\ sent[d] \in Nat /\ outstanding[d] \in Int
  BY <1>1, <1>3
<1>6. CASE UNCHANGED <<sent, outstanding, last>> /\ (d \in parked' <=> d \in parked)
  BY <1>4, <1>6
<1>7. CASE Dispatch
  <2>1. PICK i \in Turns(ready, Runnable) :
              /\ ready[i] \in Client /\ ready[i] \in Occupied(queue)
              /\ ready[i] \in Runnable
              /\ ready[i] \in clients => waiting[ready[i]] = << >>
              /\ ProcessRequest(ready[i])
    BY <1>7, DispatchFacts
  <2> DEFINE c == ready[i]
  <2>2. /\ c \in Client /\ c \in Occupied(queue) /\ c \in Runnable
        /\ c \in clients => waiting[c] = << >>
        /\ ProcessRequest(c) /\ sent' = sent
    BY <1>7, <2>1 DEF Dispatch
  <2> HIDE DEF c
  <2>3. /\ c \notin clients => UNCHANGED <<outstanding, connVars, last>>
        /\ c \in clients => last' = [last EXCEPT ![c] = Head(queue[c])]
    BY <1>1, <2>2, RequestEffect
  <2>4. CASE c \notin clients
    BY <1>6, <2>2, <2>3, <2>4 DEF connVars
  <2>5. CASE c \in clients
    <3>1. /\ \A e \in clients' : e # c => outstanding'[e] = outstanding[e] /\ (e \in parked' <=> e \in parked)
          /\ c \in clients' =>
               \/ outstanding'[c] = outstanding[c] - 1 /\ (c \in parked' <=> c \in parked)
               \/ outstanding'[c] = outstanding[c] /\ c \in parked'
      BY <1>1, <2>2, <2>5, RequestCredit
    <3>2. Head(queue[c]) = last[c] + 1
      BY <2>2, <2>5, DispatchedIsNext
    <3>3. CASE d = c
      <4>1. last'[d] = last[d] + 1 /\ sent'[d] = sent[d] /\ d \notin parked
        BY <1>1, <1>3, <2>2, <2>3, <2>5, <3>2, <3>3 DEF Runnable
      <4>2. \/ outstanding'[d] = outstanding[d] - 1 /\ d \notin parked'
            \/ outstanding'[d] = outstanding[d] /\ d \in parked'
        BY <3>1, <3>3, <4>1
      <4> QED BY <1>4, <1>5, <4>1, <4>2
    <3>4. CASE d # c
      <4>1. last'[d] = last[d] /\ sent'[d] = sent[d]
        <5> DEFINE m == Head(queue[c])
        <5>1. last' = [last EXCEPT ![c] = m] /\ sent' = sent
          BY <2>2, <2>3, <2>5
        <5> HIDE DEF m
        <5> QED BY <1>1, <1>3, <3>4, <5>1
      <4>2. outstanding'[d] = outstanding[d] /\ (d \in parked' <=> d \in parked)
        BY <3>1, <3>4
      <4> QED BY <1>4, <4>1, <4>2
    <3> QED BY <3>3, <3>4
  <2> QED BY <2>4, <2>5
<1>8. ASSUME NEW c \in Client, ReaderSend(c)
      PROVE  outstanding'[d] = (sent'[d] - last'[d]) + (IF d \in parked' THEN 1 ELSE 0)
  <2>1. /\ sent' = [sent EXCEPT ![c] = @ + 1]
        /\ outstanding' = [outstanding EXCEPT ![c] = @ + 1]
        /\ last' = last /\ parked' = parked
    BY <1>8 DEF ReaderSend, connVars
  <2>2. CASE d = c
    <3>1. sent'[d] = sent[d] + 1 /\ outstanding'[d] = outstanding[d] + 1
      BY <1>1, <1>3, <2>1, <2>2
    <3> QED BY <1>4, <1>5, <2>1, <3>1
  <2>3. CASE d # c
    <3>1. sent'[d] = sent[d] /\ outstanding'[d] = outstanding[d]
      BY <1>1, <1>3, <2>1, <2>3
    <3> QED BY <1>4, <2>1, <3>1
  <2> QED BY <2>2, <2>3
<1>9. ASSUME NEW c \in Client, DisconnectWithPendingCleanup(c)
      PROVE  d \in parked' <=> d \in parked
  BY <1>9 DEF DisconnectWithPendingCleanup, ProcessDisconnect
<1>10. ASSUME NEW c \in Client, CompletePending(c)
       PROVE  outstanding'[d] = (sent'[d] - last'[d]) + (IF d \in parked' THEN 1 ELSE 0)
  <2>1. sent' = sent /\ last' = last /\ c \in parked
    BY <1>10 DEF CompletePending
  <2>2. CASE parked' = parked \ {c} /\ GrantRequestCredit(c)
    <3>1. CASE d = c
      <4>1. outstanding'[d] = outstanding[d] - 1 /\ d \in parked /\ d \notin parked'
        BY <1>1, <1>3, <2>1, <2>2, <3>1 DEF GrantRequestCredit
      <4> QED BY <1>4, <1>5, <2>1, <4>1
    <3>2. CASE d # c
      <4>1. outstanding'[d] = outstanding[d] /\ (d \in parked' <=> d \in parked)
        BY <1>1, <1>3, <2>2, <3>2 DEF GrantRequestCredit
      <4> QED BY <1>4, <2>1, <4>1
    <3> QED BY <3>1, <3>2
  <2>3. CASE DisconnectWithPendingCleanup(c) /\ UNCHANGED outstanding
    BY <1>6, <1>9, <2>1, <2>3
  <2> QED BY <1>10, <2>2, <2>3 DEF CompletePending
<1>11. ASSUME NEW c \in Client, Receive(c) \/ WritableFails(c)
       PROVE  outstanding'[d] = (sent'[d] - last'[d]) + (IF d \in parked' THEN 1 ELSE 0)
  <2>1. UNCHANGED <<sent, outstanding, last>>
    BY <1>11 DEF Receive, WritableFails, readerVars
  <2>2. d \in parked' <=> d \in parked
    BY <1>9, <1>11 DEF Receive, WritableFails, connVars
  <2> QED BY <1>6, <2>1, <2>2
<1>12. CASE Settle \/ EndIteration
  BY <1>6, <1>12 DEF Settle, EndIteration, SettleClientOutput, readerVars
<1>13. CASE PollWork \/ EndDrain \/ EndNotify \/ StartNotify \/ PollIdle \/ Deadline \/ Divert
            \/ VtSignal \/ VtRelease \/ EndVtRelease
  BY <1>6, <1>13 DEF PollWork, PollIdle, PollReturns, EndDrain, EndNotify, StartNotify,
     Deadline, Divert, VtSignal, VtRelease, EndVtRelease, readerVars, connVars
<1>14. ASSUME NEW c \in Client, ReaderEof(c) \/ ReaderShutdown(c) \/ WriteFails(c) \/ Resume(c)
                                  \/ VtReceive(c) \/ VtCollect(c)
       PROVE  outstanding'[d] = (sent'[d] - last'[d]) + (IF d \in parked' THEN 1 ELSE 0)
  BY <1>6, <1>14 DEF ReaderEof, ReaderShutdown, WriteFails, Resume, VtReceive, VtCollect,
     readerVars, connVars
<1>15. CASE UNCHANGED vars
  BY <1>6, <1>15 DEF vars, readerVars, connVars
<1> QED BY <1>7, <1>8, <1>10, <1>11, <1>12, <1>13, <1>14, <1>15 DEF Next, CoreStep, Environment
-------------------------------------------------------------------------------
(***************************************************************************)
(* Theorems                                                                *)
(***************************************************************************)

\* The empty streams of the initial state are in order.
LEMMA InitOrder == Init => OrderInv
<1> SUFFICES ASSUME Init PROVE OrderInv
  OBVIOUS
<1>1. StructInv
  BY InitStruct
<1>2. BatchSpent /\ NoVtRelease /\ NoGrab
  BY DEF Init, BatchSpent, NoVtRelease, NoGrab
<1>3. WaitersIdle /\ WaitersSafe
  BY DEF Init, WaitersIdle, WaitersSafe, Empty
<1>4. RequestsInOrder
  <2> SUFFICES ASSUME NEW c \in Client PROVE TracksClient(c)
    BY RequestsInOrderDef DEF Init
  <2>1. /\ waiting[c] = << >> /\ queue[c] = << >> /\ batch[c] = << >> /\ channel[c] = << >>
        /\ last[c] = 0 /\ sent[c] = 0
    BY DEF Init, Empty
  <2> QED BY <2>1 DEF TracksClient, Tracks, Stream, Total, Follows, FollowsToEof
<1>5. CreditConserved
  <2> SUFFICES ASSUME NEW c \in Client
               PROVE  outstanding[c] = (sent[c] - last[c]) + (IF c \in parked THEN 1 ELSE 0)
    BY DEF Init, CreditConserved
  <2>1. outstanding[c] = 0 /\ sent[c] = 0 /\ last[c] = 0 /\ c \notin parked
    BY DEF Init
  <2> QED BY <2>1
<1> QED BY <1>1, <1>2, <1>3, <1>4, <1>5 DEF OrderInv

\* OrderInv is inductive.
THEOREM OrderInvariant ==
    ASSUME Calm PROVE Spec => []OrderInv
<1>1. OrderInv /\ [Next]_vars => OrderInv'
  <2> SUFFICES ASSUME OrderInv, [Next]_vars PROVE OrderInv'
    OBVIOUS
  <2>1. StructInv'
    BY QueueStep, LinkStep, ConnStep, ReaderStep, LoopStep DEF StructInv, OrderInv
  <2>2. NoVtRelease' /\ NoGrab'
    BY NoVtStep, NoGrabStep
  <2>3. BatchSpent' /\ WaitersIdle' /\ WaitersSafe'
    BY <2>2, BatchStep, WaitersIdleStep, WaitersSafeStep
  <2>4. RequestsInOrder' /\ CreditConserved'
    BY OrderStep, CreditStep
  <2> QED BY <2>1, <2>2, <2>3, <2>4 DEF OrderInv
<1> QED BY <1>1, InitOrder, PTL DEF Spec

\* Whatever is set aside, restored, parked, killed or disconnected, the
\* requests of a connected client form one unbroken stream.
THEOREM OrderPreserved ==
    ASSUME Calm PROVE Spec => []RequestsInOrder
<1>1. OrderInv => RequestsInOrder
  BY DEF OrderInv
<1> QED BY <1>1, OrderInvariant, PTL

\* The window of a connected client's reader counts exactly its requests
\* that are under way.
THEOREM CreditPreserved ==
    ASSUME Calm PROVE Spec => []CreditConserved
<1>1. OrderInv => CreditConserved
  BY DEF OrderInv
<1> QED BY <1>1, OrderInvariant, PTL

\* When the loop may block in poll, requests are set aside only behind the
\* grab of a connected client that has none set aside itself.
THEOREM WaitersHaveOwner ==
    ASSUME Calm PROVE Spec => []NoOrphanWaiters
<1>1. OrderInv => NoOrphanWaiters
  <2> SUFFICES ASSUME OrderInv, pc = "poll", waitOrder # << >>
               PROVE  grab \in clients \ Members(waitOrder)
    BY DEF NoOrphanWaiters
  <2>1. waitOrder \in Seq(Client) /\ Members(waitOrder) = Occupied(waiting)
    BY DEF OrderInv, StructInv, QueueOK, RingMatches, Lists
  <2>2. Members(waitOrder) # {}
    BY <2>1 DEF Members
  <2>3. waiting # Empty
    BY <2>1, <2>2 DEF Occupied, Empty
  <2>4. grab # NoClient
    BY <2>3 DEF OrderInv, WaitersSafe
  <2>5. grab \in clients /\ grab \in Client
    BY <2>4 DEF OrderInv, StructInv, ConnOK
  <2>6. waiting[grab] = << >>
    BY <2>5 DEF OrderInv, WaitersIdle
  <2> QED BY <2>1, <2>5, <2>6 DEF Occupied
<1> QED BY <1>1, OrderInvariant, PTL

\* Every dispatch of a client is of the request after its last one.
THEOREM DispatchOrderPreserved ==
    ASSUME Calm PROVE Spec => DispatchedInOrder
<1> DEFINE Step == \A c \in Client : last'[c] # last[c] => last'[c] = last[c] + 1
<1>1. OrderInv /\ [Next]_vars => [Step]_vars
  <2> SUFFICES ASSUME OrderInv, Next, NEW d \in Client, last'[d] # last[d]
               PROVE  last'[d] = last[d] + 1
    OBVIOUS
  <2>1. CASE Dispatch
    <3>1. PICK i \in Turns(ready, Runnable) :
              /\ ready[i] \in Client /\ ready[i] \in Occupied(queue)
              /\ ready[i] \in clients => waiting[ready[i]] = << >>
              /\ ProcessRequest(ready[i])
      BY <2>1, DispatchFacts
    <3>2. /\ ready[i] \notin clients => last' = last
          /\ ready[i] \in clients => last' = [last EXCEPT ![ready[i]] = Head(queue[ready[i]])]
      BY <3>1, RequestEffect DEF OrderInv, StructInv
    <3>3. ready[i] \in clients
      BY <3>2
    <3>4. Head(queue[ready[i]]) = last[ready[i]] + 1
      BY <3>1, <3>3, DispatchedIsNext
    <3>5. last \in [Client -> Nat]
      BY DEF OrderInv, StructInv, ReaderOK
    <3> QED BY <3>2, <3>3, <3>4, <3>5
  <2>2. CASE ~Dispatch
    <3>1. last' = last
      BY <2>2 DEF Next, CoreStep, Environment, PollWork, PollIdle, PollReturns, Divert,
         EndDrain, StartNotify, Receive, EndNotify, Settle, EndIteration, VtRelease,
         EndVtRelease, Deadline, VtSignal, ReaderSend, ReaderEof, ReaderShutdown,
         WritableFails, WriteFails, CompletePending, Resume, VtReceive, VtCollect
    <3> QED BY <3>1
  <2> QED BY <2>1, <2>2
<1> QED BY <1>1, OrderInvariant, PTL DEF Spec, DispatchedInOrder

-------------------------------------------------------------------------------
(***************************************************************************)
(* The request path implements RequestService.  The invariant is OrderInv  *)
(* and that nothing lies on the way to its execution that was not sent.    *)
(***************************************************************************)

SentUpTo(c) == 0..sent[c]

AllSent ==
    \A c \in Client :
        /\ waiting[c] \in Seq(SentUpTo(c))
        /\ queue[c] \in Seq(SentUpTo(c))
        /\ batch[c] \in Seq(SentUpTo(c))
        /\ channel[c] \in Seq(SentUpTo(c))

ServiceInv == OrderInv /\ AllSent
-------------------------------------------------------------------------------
(***************************************************************************)
(* Requests under way were sent                                            *)
(***************************************************************************)

\* Moving the elements of a sequence keeps them in a set.
LEMMA MoveInSeq ==
    ASSUME NEW S, NEW s \in Seq(S), NEW t \in Seq(S), NEW m \in S
    PROVE  /\ << >> \in Seq(S) /\ s \o t \in Seq(S) /\ Append(s, m) \in Seq(S)
           /\ s # << >> => Head(s) \in S /\ Tail(s) \in Seq(S)
OBVIOUS

\* What was sent stays sent.
LEMMA SeqGrows ==
    ASSUME NEW n \in Nat, NEW s \in Seq(0..n) PROVE s \in Seq(0..(n + 1))
<1>1. 0..n \subseteq 0..(n + 1)
  OBVIOUS
<1> QED BY <1>1

\* Taking the first request of c's queue.
LEMMA PopSent ==
    ASSUME NEW q \in [Client -> Seq(Nat)], \A d \in Client : q[d] \in Seq(SentUpTo(d)),
           NEW c \in Client, q[c] # << >>
    PROVE  /\ PopFront(q, c) \in [Client -> Seq(Nat)]
           /\ \A d \in Client : PopFront(q, c)[d] \in Seq(SentUpTo(d))
           /\ Head(q[c]) \in SentUpTo(c) /\ Head(q[c]) \in Nat
<1>0. Tail(q[c]) \in Seq(Nat) /\ Head(q[c]) \in Nat
  OBVIOUS
<1>1. Head(q[c]) \in SentUpTo(c) /\ Tail(q[c]) \in Seq(SentUpTo(c))
  <2> DEFINE S == SentUpTo(c)
  <2>1. q[c] \in Seq(S)
    OBVIOUS
  <2> HIDE DEF S
  <2>2. Head(q[c]) \in S /\ Tail(q[c]) \in Seq(S)
    BY <2>1
  <2> QED BY <2>2 DEF S
<1>2. /\ PopFront(q, c) \in [Client -> Seq(Nat)]
      /\ \A d \in Client : PopFront(q, c)[d] = IF d = c THEN Tail(q[c]) ELSE q[d]
  BY <1>0 DEF PopFront
<1> QED BY <1>0, <1>1, <1>2

\* Adding a sent request to c's queue.
LEMMA PushSent ==
    ASSUME NEW q \in [Client -> Seq(Nat)], \A d \in Client : q[d] \in Seq(SentUpTo(d)),
           NEW c \in Client, NEW m \in Nat, m \in SentUpTo(c)
    PROVE  /\ PushBack(q, c, m) \in [Client -> Seq(Nat)]
           /\ \A d \in Client : PushBack(q, c, m)[d] \in Seq(SentUpTo(d))
<1>0. Append(q[c], m) \in Seq(Nat)
  OBVIOUS
<1>1. Append(q[c], m) \in Seq(SentUpTo(c))
  <2> DEFINE S == SentUpTo(c)
  <2>1. q[c] \in Seq(S) /\ m \in S
    OBVIOUS
  <2> HIDE DEF S
  <2>2. Append(q[c], m) \in Seq(S)
    BY <2>1
  <2> QED BY <2>2 DEF S
<1>2. /\ PushBack(q, c, m) \in [Client -> Seq(Nat)]
      /\ \A d \in Client : PushBack(q, c, m)[d] = IF d = c THEN Append(q[c], m) ELSE q[d]
  BY <1>0 DEF PushBack
<1> QED BY <1>1, <1>2

\* Freeing the waiters, or not, moves sent requests only.
LEMMA ReleaseSent ==
    ASSUME AllSent, waiting \in [Client -> Seq(Nat)], sent' = sent,
           NEW q \in [Client -> Seq(Nat)], \A d \in Client : q[d] \in Seq(SentUpTo(d)),
           NEW r, ReleaseIfUngrabbed(q, r)
    PROVE  \A d \in Client : waiting'[d] \in Seq(SentUpTo(d)) /\ queue'[d] \in Seq(SentUpTo(d))
<1>1. CASE \A c \in Client : queue'[c] = waiting[c] \o q[c] /\ waiting'[c] = << >>
  <2> SUFFICES ASSUME NEW d \in Client
               PROVE  waiting'[d] \in Seq(SentUpTo(d)) /\ queue'[d] \in Seq(SentUpTo(d))
    OBVIOUS
  <2> DEFINE S == SentUpTo(d)
  <2>1. waiting[d] \in Seq(S) /\ q[d] \in Seq(S)
    BY DEF AllSent
  <2> HIDE DEF S
  <2>2. << >> \in Seq(S) /\ waiting[d] \o q[d] \in Seq(S)
    BY <2>1
  <2> QED BY <1>1, <2>2 DEF S
<1>2. CASE waiting' = waiting /\ queue' = q
  BY <1>2 DEF AllSent
<1> QED BY <1>1, <1>2, ReleaseCases

\* AllSent speaks of the new values of the same sets, unless a request is
\* sent.
LEMMA SentUnchanged ==
    ASSUME sent' = sent,
           \A d \in Client : /\ waiting'[d] \in Seq(SentUpTo(d)) /\ queue'[d] \in Seq(SentUpTo(d))
                             /\ batch'[d] \in Seq(SentUpTo(d)) /\ channel'[d] \in Seq(SentUpTo(d))
    PROVE  AllSent'
BY DEF AllSent, SentUpTo

\* The reader's next request, and ClientDisconnected.
LEMMA SendSent ==
    ASSUME ServiceInv, NEW c \in Client, ReaderSend(c) \/ ReaderEof(c) PROVE AllSent'
<1>0. /\ sent \in [Client -> Nat] /\ channel \in [Client -> Seq(Nat)] /\ AllSent
      /\ waiting' = waiting /\ queue' = queue /\ batch' = batch
  BY DEF ServiceInv, OrderInv, StructInv, ReaderOK, LinkOK, ReaderSend, ReaderEof, queueVars,
     loopVars
<1>1. CASE ReaderEof(c)
  <2>1. sent' = sent /\ channel' = PushBack(channel, c, Eof)
    BY <1>1 DEF ReaderEof, PushBack
  <2>2. Eof \in Nat /\ Eof \in SentUpTo(c)
    BY <1>0 DEF Eof, SentUpTo
  <2>3. \A d \in Client : channel'[d] \in Seq(SentUpTo(d))
    BY <1>0, <2>1, <2>2, PushSent DEF AllSent
  <2> QED BY <1>0, <2>1, <2>3, SentUnchanged DEF AllSent
<1>2. CASE ReaderSend(c)
  <2>1. /\ sent' = [sent EXCEPT ![c] = @ + 1]
        /\ channel' = [channel EXCEPT ![c] = Append(@, sent[c] + 1)]
    BY <1>2 DEF ReaderSend
  <2> SUFFICES ASSUME NEW d \in Client
               PROVE  /\ waiting[d] \in Seq(0..sent'[d]) /\ queue[d] \in Seq(0..sent'[d])
                      /\ batch[d] \in Seq(0..sent'[d]) /\ channel'[d] \in Seq(0..sent'[d])
    BY <1>0 DEF AllSent, SentUpTo
  <2>2. /\ waiting[d] \in Seq(0..sent[d]) /\ queue[d] \in Seq(0..sent[d])
        /\ batch[d] \in Seq(0..sent[d]) /\ channel[d] \in Seq(0..sent[d])
    BY <1>0 DEF AllSent, SentUpTo
  <2>3. CASE d # c
    BY <1>0, <2>1, <2>2, <2>3
  <2>4. CASE d = c
    <3>1. sent'[d] = sent[d] + 1 /\ channel'[d] = Append(channel[d], sent[d] + 1) /\ sent[d] \in Nat
      BY <1>0, <2>1, <2>4
    <3> DEFINE n == sent[d]
               S == 0..(n + 1)
    <3>2. /\ waiting[d] \in Seq(S) /\ queue[d] \in Seq(S)
          /\ batch[d] \in Seq(S) /\ channel[d] \in Seq(S)
      BY <2>2, <3>1, SeqGrows
    <3>3. n + 1 \in S
      BY <3>1
    <3>4. Append(channel[d], n + 1) \in Seq(S)
      <4> HIDE DEF S
      <4> QED BY <3>2, <3>3, MoveInSeq
    <3> QED BY <3>1, <3>2, <3>4
  <2> QED BY <2>3, <2>4
<1> QED BY <1>1, <1>2

\* Every step keeps what lies on the way to its execution sent.
LEMMA AllSentStep ==
    ASSUME ServiceInv, [Next]_vars PROVE AllSent'
<1>0. /\ AllSent /\ QueueOK
      /\ queue \in [Client -> Seq(Nat)] /\ waiting \in [Client -> Seq(Nat)]
      /\ batch \in [Client -> Seq(Nat)] /\ channel \in [Client -> Seq(Nat)]
      /\ \A d \in Client : /\ waiting[d] \in Seq(SentUpTo(d)) /\ queue[d] \in Seq(SentUpTo(d))
                            /\ batch[d] \in Seq(SentUpTo(d)) /\ channel[d] \in Seq(SentUpTo(d))
  BY DEF ServiceInv, OrderInv, StructInv, QueueOK, LinkOK, AllSent
<1>1. CASE UNCHANGED <<sent, channel, batch, queue, waiting>>
  BY <1>0, <1>1, SentUnchanged
<1>2. ASSUME NEW q \in [Client -> Seq(Nat)], \A d \in Client : q[d] \in Seq(SentUpTo(d)),
             NEW r, ReleaseIfUngrabbed(q, r), UNCHANGED <<sent, channel>>,
             \A d \in Client : batch'[d] \in Seq(SentUpTo(d))
      PROVE  AllSent'
  <2>1. \A d \in Client : waiting'[d] \in Seq(SentUpTo(d)) /\ queue'[d] \in Seq(SentUpTo(d))
    BY <1>0, <1>2, ReleaseSent
  <2> QED BY <1>0, <1>2, <2>1, SentUnchanged
<1>3. CASE ReleaseIfUngrabbed(queue, ready) /\ UNCHANGED <<sent, channel, batch>>
  BY <1>0, <1>2, <1>3
<1>4. CASE Dispatch
  <2>1. PICK i \in Turns(ready, Runnable) :
           ReleaseIfUngrabbed(PopFront(queue, ready[i]), RingAfterPop(queue, ready, i))
    BY <1>4 DEF Dispatch
  <2>2. ready[i] \in Client /\ queue[ready[i]] # << >>
    BY <1>0, TurnFacts DEF Occupied
  <2>3. UNCHANGED <<sent, channel, batch>>
    BY <1>4 DEF Dispatch, linkVars
  <2> QED BY <1>0, <1>2, <2>1, <2>2, <2>3, PopSent
<1>5. CASE Divert
  <2>1. PICK i \in Turns(ready, Runnable) :
           /\ queue' = PopFront(queue, ready[i])
           /\ waiting' = PushBack(waiting, ready[i], Head(queue[ready[i]]))
    BY <1>5 DEF Divert
  <2>2. ready[i] \in Client /\ queue[ready[i]] # << >>
    BY <1>0, TurnFacts DEF Occupied
  <2>3. UNCHANGED <<sent, channel, batch>>
    BY <1>5 DEF Divert, linkVars, readerVars
  <2>4. \A d \in Client : waiting'[d] \in Seq(SentUpTo(d)) /\ queue'[d] \in Seq(SentUpTo(d))
    BY <1>0, <2>1, <2>2, PopSent, PushSent
  <2> QED BY <1>0, <2>3, <2>4, SentUnchanged
<1>6. ASSUME NEW c \in Client, Receive(c) PROVE AllSent'
  <2>1. /\ batch[c] # << >> /\ batch' = PopFront(batch, c)
        /\ UNCHANGED <<sent, channel>>
    BY <1>6 DEF Receive, linkVars, readerVars
  <2>2. /\ \A d \in Client : batch'[d] \in Seq(SentUpTo(d))
        /\ Head(batch[c]) \in Nat /\ Head(batch[c]) \in SentUpTo(c)
    BY <1>0, <2>1, PopSent
  <2>3. CASE ReleaseIfUngrabbed(queue, ready)
    BY <1>0, <1>2, <2>1, <2>2, <2>3
  <2>4. CASE ReleaseIfUngrabbed(PushBack(queue, c, Head(batch[c])), RingAfterPush(queue, ready, c))
    BY <1>0, <1>2, <2>1, <2>2, <2>4, PushSent
  <2> QED BY <1>6, <2>3, <2>4 DEF Receive
<1>7. CASE StartNotify
  <2>1. batch' = channel /\ channel' = Empty /\ UNCHANGED <<sent, queue, waiting>>
    BY <1>7 DEF StartNotify, readerVars, queueVars
  <2>2. \A d \in Client : channel'[d] \in Seq(SentUpTo(d))
    BY <2>1 DEF Empty
  <2> QED BY <1>0, <2>1, <2>2, SentUnchanged
<1>8. ASSUME NEW c \in Client, CompletePending(c) PROVE AllSent'
  BY <1>1, <1>3, <1>8 DEF CompletePending, linkVars, loopVars, queueVars
<1>9. CASE EndIteration \/ EndVtRelease
  BY <1>3, <1>9 DEF EndIteration, EndVtRelease, linkVars, readerVars
<1>10. CASE PollWork \/ EndDrain \/ EndNotify \/ Settle \/ PollIdle \/ Deadline \/ VtSignal
            \/ VtRelease
  BY <1>1, <1>10 DEF PollWork, PollIdle, PollReturns, EndDrain, EndNotify, Settle, Deadline,
     VtSignal, VtRelease, queueVars, linkVars, readerVars, loopVars
<1>11. ASSUME NEW c \in Client,
              ReaderShutdown(c) \/ WritableFails(c) \/ WriteFails(c) \/ Resume(c)
       PROVE  AllSent'
  BY <1>1, <1>11 DEF ReaderShutdown, WritableFails, WriteFails, Resume, queueVars, linkVars,
     readerVars, loopVars
<1>12. CASE UNCHANGED vars
  BY <1>1, <1>12 DEF vars, queueVars, linkVars, readerVars, loopVars
<1>13. ASSUME NEW c \in Client, ReaderSend(c) \/ ReaderEof(c) PROVE AllSent'
  BY <1>13, SendSent
<1>14. ASSUME NEW c \in Client, VtReceive(c) PROVE AllSent'
  <2>1. /\ batch[c] # << >> /\ batch' = PopFront(batch, c)
        /\ queue' = PushBack(queue, c, Head(batch[c]))
        /\ UNCHANGED <<sent, channel, waiting>>
    BY <1>14 DEF VtReceive, linkVars, readerVars
  <2>2. /\ \A d \in Client : batch'[d] \in Seq(SentUpTo(d))
        /\ Head(batch[c]) \in Nat /\ Head(batch[c]) \in SentUpTo(c)
    BY <1>0, <2>1, PopSent
  <2>3. \A d \in Client : queue'[d] \in Seq(SentUpTo(d))
    BY <1>0, <2>1, <2>2, PushSent
  <2> QED BY <1>0, <2>1, <2>2, <2>3, SentUnchanged
<1>15. ASSUME NEW c \in Client, VtCollect(c) PROVE AllSent'
  <2>1. /\ channel[c] # << >> /\ channel' = PopFront(channel, c)
        /\ batch' = PushBack(batch, c, Head(channel[c]))
        /\ UNCHANGED <<sent, queue, waiting>>
    BY <1>15 DEF VtCollect, queueVars, readerVars
  <2>2. /\ \A d \in Client : channel'[d] \in Seq(SentUpTo(d))
        /\ Head(channel[c]) \in Nat /\ Head(channel[c]) \in SentUpTo(c)
    BY <1>0, <2>1, PopSent
  <2>3. \A d \in Client : batch'[d] \in Seq(SentUpTo(d))
    BY <1>0, <2>1, <2>2, PushSent
  <2> QED BY <1>0, <2>1, <2>2, <2>3, SentUnchanged
<1> QED BY <1>4, <1>5, <1>6, <1>7, <1>8, <1>9, <1>10, <1>11, <1>12, <1>13, <1>14, <1>15
        DEF Next, CoreStep, Environment
-------------------------------------------------------------------------------
(***************************************************************************)
(* The simulation                                                          *)
(***************************************************************************)

\* A disconnect takes the client out of the service, and its grab with it.
LEMMA DisconnectDeparts ==
    ASSUME ConnOK, NEW c \in Client, ProcessDisconnect(c)
    PROVE  /\ clients' \ failed' \subseteq clients \ failed
           /\ grab' # grab => grab' = NoClient /\ grab = c
           /\ c \notin clients'
BY DEF ProcessDisconnect

\* What a request of a served client does to the service.
LEMMA RequestServes ==
    ASSUME ConnOK, NEW c \in clients \ failed, ProcessRequest(c), grab \in {NoClient, c}
    PROVE  /\ clients' \ failed' \subseteq clients \ failed
           /\ grab' \in {NoClient} \cup ({c} \cap (clients' \ failed'))
<1>0. c \in Client /\ c # NoClient
  BY CoreLoopAssumption DEF ConnOK
<1>1. CASE HandlePlain(c) \/ HandleGrabServer(c) \/ HandleUngrabServer(c)
           \/ HandleAwait(c) \/ HandleResume(c) \/ HandlePending(c)
  <2>1. clients' = clients /\ failed' = failed /\ grab' \in {grab, c, NoClient}
    BY <1>1 DEF HandlePlain, HandleGrabServer, HandleUngrabServer, HandleAwait, HandleResume,
       HandlePending, connVars
  <2> QED BY <2>1
<1>2. CASE HandleQuit(c)
  <2>1. ProcessDisconnect(c)
    BY <1>2 DEF HandleQuit, DisconnectWithPendingCleanup
  <2>2. grab' = NoClient
    BY <2>1 DEF ProcessDisconnect
  <2> QED BY <1>0, <2>1, <2>2, DisconnectDeparts
<1>3. CASE HandleKillClient(c)
  <2>1. PICK d \in clients \ {c} : ProcessDisconnect(d)
    BY <1>3 DEF HandleKillClient
  <2>2. d \in Client /\ clients' = clients \ {d} /\ failed' = failed \ {d}
    BY <2>1 DEF ProcessDisconnect, ConnOK
  <2>3. grab' \in {grab, NoClient}
    BY <2>1 DEF ProcessDisconnect
  <2> QED BY <2>1, <2>2, <2>3
<1> QED BY <1>1, <1>2, <1>3 DEF ProcessRequest

\* Outside dispatching, clients only leave, and a grab ends with its owner.
LEMMA OtherDeparts ==
    ASSUME OrderInv, [Next]_vars, ~Dispatch, ~Divert
    PROVE  /\ clients' \ failed' \subseteq clients \ failed
           /\ grab' # grab => grab' = NoClient /\ grab \notin clients' \ failed'
           /\ last' = last
<1>0. ConnOK
  BY DEF OrderInv, StructInv
<1>1. CASE UNCHANGED <<clients, failed, grab, last>>
  BY <1>1
<1>2. ASSUME NEW c \in Client, DisconnectWithPendingCleanup(c), last' = last
      PROVE  /\ clients' \ failed' \subseteq clients \ failed
             /\ grab' # grab => grab' = NoClient /\ grab \notin clients' \ failed'
             /\ last' = last
  BY <1>0, <1>2, DisconnectDeparts DEF DisconnectWithPendingCleanup
<1>3. ASSUME SettleClientOutput
      PROVE  /\ clients' \ failed' \subseteq clients \ failed
             /\ grab' # grab => grab' = NoClient /\ grab \notin clients' \ failed'
  BY <1>3 DEF SettleClientOutput
<1>4. ASSUME NEW c \in Client, Receive(c) \/ CompletePending(c) \/ WritableFails(c)
      PROVE  /\ clients' \ failed' \subseteq clients \ failed
             /\ grab' # grab => grab' = NoClient /\ grab \notin clients' \ failed'
             /\ last' = last
  BY <1>2, <1>4 DEF Receive, CompletePending, WritableFails, connVars
<1>5. CASE Settle \/ EndIteration
  BY <1>3, <1>5 DEF Settle, EndIteration
<1>6. ASSUME NEW c \in Client, WriteFails(c)
      PROVE  /\ clients' \ failed' \subseteq clients \ failed
             /\ UNCHANGED <<grab, last>>
  BY <1>6 DEF WriteFails
<1>7. CASE PollWork \/ EndDrain \/ StartNotify \/ EndNotify \/ VtRelease \/ EndVtRelease
           \/ PollIdle \/ Deadline \/ VtSignal
  BY <1>1, <1>7 DEF PollWork, PollIdle, PollReturns, EndDrain, StartNotify, EndNotify,
     VtRelease, EndVtRelease, Deadline, VtSignal, connVars
<1>8. ASSUME NEW c \in Client,
             ReaderSend(c) \/ ReaderEof(c) \/ ReaderShutdown(c) \/ Resume(c)
               \/ VtReceive(c) \/ VtCollect(c)
      PROVE  UNCHANGED <<clients, failed, grab, last>>
  BY <1>8 DEF ReaderSend, ReaderEof, ReaderShutdown, Resume, VtReceive, VtCollect, connVars
<1>9. CASE UNCHANGED vars
  BY <1>1, <1>9 DEF vars, connVars
<1> QED BY <1>4, <1>5, <1>6, <1>7, <1>8, <1>9 DEF Next, CoreStep, Environment

\* Dispatching a connected client's request is executing its next one.
LEMMA DispatchExecutes ==
    ASSUME Calm, ServiceInv, Dispatch PROVE Service!Next \/ UNCHANGED Service!vars
<1>0. ConnOK /\ last \in [Client -> Nat] /\ sent \in [Client -> Nat] /\ OrderInv
      /\ queue \in [Client -> Seq(Nat)]
  BY DEF ServiceInv, OrderInv, StructInv, ReaderOK, QueueOK
<1>1. PICK i \in Turns(ready, Runnable) :
          /\ ready[i] \in Client /\ ready[i] \in Runnable
          /\ ready[i] \in Occupied(queue)
          /\ ready[i] \in clients => waiting[ready[i]] = << >>
          /\ grab \in {NoClient, ready[i]}
          /\ ProcessRequest(ready[i])
  BY <1>0, DispatchFacts
<1> DEFINE c == ready[i]
<1>2. sent' = sent
  BY DEF Dispatch
<1>3. CASE c \notin clients
  <2>1. UNCHANGED <<connVars, last>>
    BY <1>0, <1>1, <1>3, RequestEffect
  <2> QED BY <1>2, <2>1 DEF connVars, Service!vars
<1>4. CASE c \in clients
  <2>1. c \in clients \ failed /\ c \notin parked \cup held
    BY <1>1, <1>4 DEF Runnable
  <2>2. Head(queue[c]) = last[c] + 1
    BY <1>0, <1>1, <1>4, DispatchedIsNext
  <2>3. Head(queue[c]) \in 0..sent[c]
    BY <1>0, <1>1, PopSent DEF ServiceInv, AllSent, Occupied, SentUpTo
  <2>4. last[c] < sent[c]
    BY <1>0, <1>1, <2>2, <2>3
  <2>5. last' = [last EXCEPT ![c] = @ + 1]
    BY <1>0, <1>1, <1>4, <2>2, RequestEffect
  <2>6. /\ clients' \ failed' \subseteq clients \ failed
        /\ grab' \in {NoClient} \cup ({c} \cap (clients' \ failed'))
    BY <1>0, <1>1, <2>1, RequestServes
  <2>7. parked' \subseteq parked \cup {c} /\ held' \subseteq held \cup {c}
    BY <1>0, <1>1, RequestEffect
  <2>8. (clients' \ failed') \cap (parked' \cup held')
           \subseteq ((clients \ failed) \cap (parked \cup held)) \cup {c}
    BY <2>6, <2>7
  <2>9. Service!Execute(c)
    BY <1>1, <1>2, <2>1, <2>4, <2>5, <2>6, <2>8 DEF Service!Execute, Service!Served
  <2> QED BY <1>1, <2>9 DEF Service!Next
<1> QED BY <1>3, <1>4

\* Every step of the request path is a step of the service, or none.
LEMMA ServiceStep ==
    ASSUME Calm, ServiceInv, [Next]_vars PROVE [Service!Next]_(Service!vars)
<1>0. OrderInv
  BY DEF ServiceInv
<1>1. CASE Dispatch
  BY <1>1, DispatchExecutes
<1>2. CASE Divert
  BY <1>2 DEF Divert, Service!vars, readerVars, connVars
<1>3. CASE ~Dispatch /\ ~Divert
  <2>1. /\ clients' \ failed' \subseteq clients \ failed
        /\ grab' # grab => grab' = NoClient /\ grab \notin clients' \ failed'
        /\ last' = last
    BY <1>0, <1>3, OtherDeparts
  <2>2. parked' \subseteq parked /\ held' \subseteq held
    BY <1>0, <1>3, OtherEffect
  <2>3. CASE sent' = sent
    <3>1. (clients' \ failed') \cap (parked' \cup held')
             \subseteq (clients \ failed) \cap (parked \cup held)
      BY <2>1, <2>2
    <3>2. Service!Depart
      BY <2>1, <2>3, <3>1 DEF Service!Depart
    <3> QED BY <3>2 DEF Service!Next
  <2>4. ASSUME NEW c \in Client, ReaderSend(c)
        PROVE  Service!Issue(c)
    BY <2>4 DEF ReaderSend, Service!Issue, connVars
  <2>5. sent' = sent \/ \E c \in Client : ReaderSend(c)
    BY <1>3 DEF Next, CoreStep, Environment, PollWork, PollIdle, PollReturns, EndDrain,
       StartNotify, Receive, EndNotify, Settle, EndIteration, VtRelease, EndVtRelease, Deadline,
       VtSignal, ReaderEof, ReaderShutdown, WritableFails, WriteFails, CompletePending, Resume,
       VtReceive, VtCollect, readerVars, vars
  <2> QED BY <2>3, <2>4, <2>5 DEF Service!Next
<1> QED BY <1>1, <1>2, <1>3

\* Seen from its clients, the request path with its channel, rings, grab
\* waiters, batches and budgets is the abstract service.
THEOREM ServiceImplemented ==
    ASSUME Calm PROVE Spec => ImplementsService
<1>1. Init => AllSent
  <2> SUFFICES ASSUME Init, NEW c \in Client
               PROVE  /\ waiting[c] \in Seq(SentUpTo(c)) /\ queue[c] \in Seq(SentUpTo(c))
                      /\ batch[c] \in Seq(SentUpTo(c)) /\ channel[c] \in Seq(SentUpTo(c))
    BY DEF AllSent
  <2>1. waiting[c] = << >> /\ queue[c] = << >> /\ batch[c] = << >> /\ channel[c] = << >>
    BY DEF Init, Empty
  <2> QED BY <2>1
<1>2. Init => Service!Init
  BY DEF Init, Service!Init
<1>3. OrderInv /\ AllSent /\ [Next]_vars => AllSent'
  BY AllSentStep DEF ServiceInv
<1>4. OrderInv /\ AllSent /\ [Next]_vars => [Service!Next]_(Service!vars)
  BY ServiceStep DEF ServiceInv
<1> QED BY <1>1, <1>2, <1>3, <1>4, OrderInvariant, PTL
        DEF Spec, ImplementsService, Service!Spec
===============================================================================
