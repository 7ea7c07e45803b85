----------------------------- MODULE XdmcpProofs -----------------------------
(***************************************************************************)
(* Proofs about Xdmcp: whatever the manager answers, and in whatever order *)
(* its answers arrive, the machine, the cookie, the clients and the timer  *)
(* stay together.                                                          *)
(*                                                                         *)
(* The argument follows the code's division of labour.  Sound(x) is what   *)
(* the machine keeps true of a display x by itself, at any event; a step   *)
(* from x to y may end the session only by an outcome (Kept).  The         *)
(* invariant adds what the loop makes of it: an outcome never survives the *)
(* tail, so between two iterations the display stands as Standing says.    *)
(***************************************************************************)
EXTENDS Xdmcp, TLAPS

Sending == {"Query", "Broadcast", "Indirect", "StartConnection", "Manage", "KeepAlive"}

Waiting == Collecting \cup
    {"AwaitRequestResponse", "AwaitManageResponse", "RunSession", "AwaitAliveResponse"}

Packets == [kind : {"Query", "StartConnection", "Manage", "KeepAlive"}, sid : 0 .. MaxOffer]

Answers ==
    [kind : {"Willing", "Unwilling", "Accept", "AcceptAuthenticated", "Decline", "Refuse",
             "Failed", "Alive"},
     sid : 0 .. MaxOffer, running : BOOLEAN, configured : BOOLEAN]

Outcomes == {"none", "reset", "terminate"}

Display ==
    [state : Sending \cup Waiting \cup {"Off"}, sid : 0 .. MaxOffer, rtx : 0 .. RtxLimit,
     client : Client \cup {None}, armed : BOOLEAN, outcome : Outcomes,
     cookie : 0 .. MaxOffer, out : SUBSET Packets, keepAlives : Nat, carried : Nat,
     lost : [n : Nat, carried : Nat]]

Counted(lost) == lost.n = IF lost.carried < KaRtxLimit THEN KaRtxLimit - lost.carried ELSE 1

\* The retry count of a session is what it started with and its unanswered
\* KeepAlives.
KeepAliveCount(x) ==
    /\ x.state # "KeepAlive"
    /\ x.state = "RunSession" => x.keepAlives = 0 /\ x.rtx = x.carried
    /\ x.state = "AwaitAliveResponse" =>
          /\ x.keepAlives > 0
          /\ x.rtx + 1 = x.carried + x.keepAlives
          /\ IF x.carried < KaRtxLimit THEN x.rtx < KaRtxLimit ELSE x.keepAlives = 1

\* A display no outcome is pending for.
Standing(x) ==
    /\ x.state \in Waiting
    /\ x.cookie = IF Live(x.state) \/ x.state = "AwaitManageResponse" THEN x.sid ELSE None

Sound(x) ==
    /\ x \in Display
    /\ x.state = "Off" <=> x.outcome = "terminate"
    /\ x.state # "Off" => x.rtx < RtxLimit
    /\ KeepAliveCount(x)
    /\ Counted(x.lost)
    /\ x.outcome = "none" => Standing(x)

\* Unless the loop has to act at once, the timer will make it.
Timed(x) == x.outcome = "none" => x.armed

\* A step from x to y ends no session without an outcome, and forgets none.
Kept(x, y) == y.outcome = "none" => x.outcome = "none" /\ (Live(x.state) => Live(y.state))

Goes(x, y) == Sound(y) /\ (Timed(x) => Timed(y)) /\ Kept(x, y)

Inv ==
    /\ mode \in Modes /\ once \in BOOLEAN
    /\ at \in {"poll", "dispatch", "exit"}
    /\ trigger \in {"idle", "armed", "drained"}
    /\ clients \subseteq Client
    /\ setup \in [Client -> {"none", "checking", "authorized", "over"}]
    /\ admitted \in [Client -> 0 .. MaxOffer]
    /\ sent \subseteq Packets /\ net \subseteq Answers
    /\ d \in Display /\ d.out = {}
    /\ d.state # "Off" => d.rtx < RtxLimit
    /\ Counted(d.lost)
    /\ at # "exit" => Sound(d) /\ Timed(d)
    /\ at # "exit" /\ d.outcome = "none" /\ clients \cap Remote # {} => Live(d.state)
    /\ at = "poll" => d.outcome = "none"
    /\ SessionHasClient

-----------------------------------------------------------------------------
(* The machine's tables.                                                   *)

\* The states that are about to send.
LEMMA OutstandingDomain == DOMAIN Outstanding = Sending
BY DEF Outstanding, Sending

\* What each of them turns into.
LEMMA OutstandingValues ==
    /\ Outstanding["Query"] = "CollectQuery"
    /\ Outstanding["Broadcast"] = "CollectBroadcastQuery"
    /\ Outstanding["Indirect"] = "CollectIndirectQuery"
    /\ Outstanding["StartConnection"] = "AwaitRequestResponse"
    /\ Outstanding["Manage"] = "AwaitManageResponse"
    /\ Outstanding["KeepAlive"] = "AwaitAliveResponse"
BY DEF Outstanding

\* A retransmission finds the state that sent (timeout).
LEMMA ResentValues ==
    /\ Resent("CollectQuery") = "Query"
    /\ Resent("CollectBroadcastQuery") = "Broadcast"
    /\ Resent("CollectIndirectQuery") = "Indirect"
    /\ Resent("AwaitRequestResponse") = "StartConnection"
    /\ Resent("AwaitManageResponse") = "Manage"
    /\ Resent("AwaitAliveResponse") = "KeepAlive"
    /\ \A s \in Sending : Resent(s) = s
BY OutstandingDomain, OutstandingValues DEF Resent, Sending

\* Every state of a display is one the type invariant allows.
LEMMA StatesListed == Sending \cup Waiting \cup {"Off"} \subseteq States
<1>1. \A s \in Sending : Outstanding[s] \in States BY OutstandingDomain DEF States
<1>2. Waiting \ {"RunSession"} \subseteq {Outstanding[s] : s \in Sending}
  BY OutstandingValues DEF Waiting, Collecting, Sending
<1> QED BY <1>1, <1>2, OutstandingDomain DEF States

\* The query modes are states that send.
LEMMA ModeSends == ASSUME mode \in Modes PROVE mode \in {"Query", "Broadcast", "Indirect"}
BY XdmcpAssumption

-----------------------------------------------------------------------------
(* Sending.                                                                *)

\* send_packet arms the timer, moves a sending state on, and changes nothing
\* else but what goes out.
LEMMA SendPacketFields ==
    ASSUME NEW x \in Display
    PROVE  LET y == SendPacket(x) IN
           /\ y \in Display
           /\ y.armed
           /\ y.state = IF x.state \in Sending THEN Outstanding[x.state] ELSE x.state
           /\ y.keepAlives = IF x.state = "KeepAlive" THEN x.keepAlives + 1 ELSE x.keepAlives
           /\ y.sid = x.sid /\ y.rtx = x.rtx /\ y.client = x.client
           /\ y.outcome = x.outcome /\ y.cookie = x.cookie
           /\ y.carried = x.carried /\ y.lost = x.lost
<1>1. Outstanding[x.state] \in Waiting \/ x.state \notin Sending
  BY OutstandingValues DEF Waiting, Collecting, Sending
<1>2. Packet(x.state, x.sid) \in Packets \/ x.state \notin Sending
  BY XdmcpAssumption DEF Packet, Packets, Sending, None, Display
<1>3. CASE x.state \in Sending
  <2>1. SendPacket(x) = [x EXCEPT !.out = @ \cup {Packet(x.state, x.sid)},
                   !.keepAlives = IF x.state = "KeepAlive" THEN @ + 1 ELSE @,
                   !.state = Outstanding[@],
                   !.armed = TRUE]
    BY <1>3, OutstandingDomain DEF SendPacket
  <2>2. x.out \cup {Packet(x.state, x.sid)} \in SUBSET Packets BY <1>2, <1>3 DEF Display
  <2>3. Outstanding[x.state] \in Sending \cup Waiting \cup {"Off"} BY <1>1, <1>3
  <2>4. (IF x.state = "KeepAlive" THEN x.keepAlives + 1 ELSE x.keepAlives) \in Nat BY DEF Display
  <2>5. SendPacket(x) \in Display BY <2>1, <2>2, <2>3, <2>4 DEF Display
  <2> QED BY <1>3, <2>1, <2>5 DEF Display
<1>4. CASE x.state \notin Sending
  <2>1. SendPacket(x) = [x EXCEPT !.armed = TRUE] BY <1>4, OutstandingDomain DEF SendPacket
  <2>2. x.state # "KeepAlive" BY <1>4 DEF Sending
  <2> QED BY <1>4, <2>1, <2>2 DEF Display
<1> QED BY <1>3, <1>4

\* A packet sent with the right cookie and count leaves a sound display.
LEMMA SentSound ==
    ASSUME NEW x \in Display, x.state \in Sending, x.outcome # "terminate",
           x.rtx < RtxLimit, Counted(x.lost),
           x.state = "KeepAlive" =>
               /\ x.rtx = x.carried + x.keepAlives
               /\ IF x.carried < KaRtxLimit THEN x.rtx < KaRtxLimit ELSE x.keepAlives = 0,
           x.outcome = "none" =>
               x.cookie = IF x.state \in {"Manage", "KeepAlive"} THEN x.sid ELSE None
    PROVE  LET y == SendPacket(x) IN
           Sound(y) /\ y.armed /\ y.outcome = x.outcome /\ y.state \in Waiting
<1> DEFINE y == SendPacket(x)
<1>1. /\ y \in Display
      /\ y.armed
      /\ y.state = Outstanding[x.state]
      /\ y.keepAlives = IF x.state = "KeepAlive" THEN x.keepAlives + 1 ELSE x.keepAlives
      /\ y.sid = x.sid /\ y.rtx = x.rtx
      /\ y.outcome = x.outcome /\ y.cookie = x.cookie
      /\ y.carried = x.carried /\ y.lost = x.lost
  BY SendPacketFields
<1> HIDE DEF y
<1>2. /\ y.state \in Waiting \ {"RunSession"}
      /\ y.state = "AwaitAliveResponse" <=> x.state = "KeepAlive"
      /\ (Live(y.state) \/ y.state = "AwaitManageResponse") <=> x.state \in {"Manage", "KeepAlive"}
  BY <1>1, OutstandingValues DEF Sending, Waiting, Collecting, Live
<1>3. KeepAliveCount(y)
  <2>1. CASE x.state = "KeepAlive"
    <3>1. y.keepAlives = x.keepAlives + 1 /\ x.keepAlives \in Nat /\ x.carried \in Nat /\ x.rtx \in Nat
      BY <1>1, <2>1 DEF Display
    <3> QED BY <1>1, <1>2, <2>1, <3>1, XdmcpAssumption DEF KeepAliveCount
  <2>2. CASE x.state # "KeepAlive"
    BY <1>2, <2>2 DEF KeepAliveCount, Waiting, Collecting
  <2> QED BY <2>1, <2>2
<1>4. y.outcome = "none" => Standing(y) BY <1>1, <1>2 DEF Standing
<1>5. y.state # "Off" BY <1>2 DEF Waiting, Collecting
<1>6. Sound(y) BY <1>1, <1>3, <1>4, <1>5 DEF Sound
<1> QED BY <1>1, <1>2, <1>6 DEF y

-----------------------------------------------------------------------------
(* The ends of a session.                                                  *)

\* A display that terminates is off (fatal).
LEMMA TerminateSound ==
    ASSUME NEW x \in Display, Counted(x.lost)
    PROVE  Sound(Terminate(x)) /\ Terminate(x).outcome = "terminate"
<1>1. Terminate(x) = [x EXCEPT !.state = "Off", !.outcome = "terminate"] BY DEF Terminate
<1>2. Terminate(x) \in Display BY <1>1 DEF Display, Outcomes
<1>3. /\ Terminate(x).state = "Off" /\ Terminate(x).outcome = "terminate"
      /\ Terminate(x).lost = x.lost
  BY <1>1 DEF Display
<1> QED BY <1>2, <1>3 DEF Sound, KeepAliveCount

\* A dead session ends with an outcome (dead_session).
LEMMA DeadSessionSound ==
    ASSUME NEW x \in Display, Counted(x.lost), mode \in Modes
    PROVE  Sound(DeadSession(x)) /\ DeadSession(x).outcome # "none"
<1> DEFINE over == [x EXCEPT !.state = mode, !.rtx = 0, !.client = None, !.armed = FALSE]
           z == [over EXCEPT !.outcome = "reset"]
<1>1. mode \in Sending /\ mode \notin {"Manage", "KeepAlive"} BY ModeSends DEF Sending
<1>2. over \in Display
  <2>1. 0 \in 0 .. RtxLimit BY XdmcpAssumption
  <2> QED BY <1>1, <2>1 DEF Display
<1>3. over.lost = x.lost BY DEF Display
<1>4. CASE once BY <1>2, <1>3, <1>4, TerminateSound DEF DeadSession
<1>5. CASE ~once
  <2>1. DeadSession(x) = SendPacket(z) BY <1>5 DEF DeadSession
  <2>2. z \in Display BY <1>2 DEF Display, Outcomes
  <2>3. z.state = mode /\ z.rtx = 0 /\ z.outcome = "reset" /\ z.lost = x.lost
    BY DEF Display
  <2>4. z.rtx < RtxLimit BY <2>3, XdmcpAssumption
  <2> HIDE DEF z
  <2> QED BY <1>1, <2>1, <2>2, <2>3, <2>4, SentSound
<1> QED BY <1>4, <1>5

\* The departure of the session client ends a live session (close_display).
LEMMA CloseDisplaySound ==
    ASSUME NEW x \in Display, Sound(x), mode \in Modes, Live(x.state)
    PROVE  Sound(CloseDisplay(x, x.client)) /\ CloseDisplay(x, x.client).outcome # "none"
<1> DEFINE z == [x EXCEPT !.client = None]
           y == [x EXCEPT !.client = None, !.state = mode, !.outcome = "reset"]
<1>1. mode \in Sending /\ mode \notin {"Manage", "KeepAlive"} BY ModeSends DEF Sending
<1>2. CASE once
  <2>1. z \in Display BY DEF Display
  <2>2. z.lost = x.lost BY DEF Display
  <2> QED BY <1>2, <2>1, <2>2, TerminateSound DEF CloseDisplay, Sound
<1>3. CASE ~once
  <2>1. CloseDisplay(x, x.client) = y BY <1>3 DEF CloseDisplay
  <2>2. y \in Display BY <1>1 DEF Display, Outcomes
  <2>3. /\ y.state = mode /\ y.outcome = "reset" /\ y.lost = x.lost /\ y.rtx = x.rtx
    BY DEF Display
  <2>4. mode \notin {"Off", "RunSession", "AwaitAliveResponse", "KeepAlive"} BY <1>1 DEF Sending
  <2>5. x.rtx < RtxLimit BY DEF Sound, Live
  <2> HIDE DEF y
  <2>6. Sound(y) BY <2>2, <2>3, <2>4, <2>5 DEF Sound, KeepAliveCount
  <2> QED BY <2>1, <2>3, <2>6
<1> QED BY <1>2, <1>3

\* What the tail finds out about the session client.
LEMMA DepartureSound ==
    ASSUME NEW x, Sound(x), mode \in Modes
    PROVE  LET y == Departure(x) IN
           /\ Goes(x, y)
           /\ y.outcome = "none" => y = x /\ (Live(y.state) => y.client \in clients)
<1>1. x \in Display BY DEF Sound
<1>2. CASE Live(x.state) /\ x.client \notin clients
  <2>1. Departure(x) = CloseDisplay(x, x.client) BY <1>2 DEF Departure
  <2>2. Sound(Departure(x)) /\ Departure(x).outcome # "none"
    BY <1>1, <1>2, <2>1, CloseDisplaySound
  <2> QED BY <2>2 DEF Goes, Timed, Kept
<1>3. CASE ~(Live(x.state) /\ x.client \notin clients)
  <2>1. Departure(x) = x BY <1>3 DEF Departure
  <2> QED BY <1>3, <2>1 DEF Goes, Timed, Kept
<1> QED BY <1>2, <1>3

-----------------------------------------------------------------------------
(* Clients and timers.                                                     *)

\* The first client after an accepted offer becomes the session's
\* (open_display).
LEMMA OpenDisplaySound ==
    ASSUME NEW x, Sound(x), NEW c \in Client
    PROVE  Goes(x, OpenDisplay(x, c)) /\ OpenDisplay(x, c).out = x.out
<1>1. x \in Display BY DEF Sound
<1>2. CASE x.state # "AwaitManageResponse"
  <2>1. OpenDisplay(x, c) = x BY <1>2 DEF OpenDisplay
  <2> QED BY <2>1 DEF Goes, Kept
<1>3. CASE x.state = "AwaitManageResponse"
  <2> DEFINE y == [x EXCEPT !.state = "RunSession", !.client = c, !.armed = TRUE,
                            !.keepAlives = 0, !.carried = x.rtx]
  <2>1. OpenDisplay(x, c) = y BY <1>3 DEF OpenDisplay
  <2>2. x.rtx \in Nat BY <1>1, XdmcpAssumption DEF Display
  <2>3. y \in Display BY <1>1, <2>2 DEF Display, Waiting
  <2>4. /\ y.state = "RunSession" /\ y.armed /\ y.keepAlives = 0 /\ y.carried = x.rtx
        /\ y.rtx = x.rtx /\ y.sid = x.sid /\ y.cookie = x.cookie /\ y.outcome = x.outcome
        /\ y.lost = x.lost /\ y.out = x.out
    BY <1>1 DEF Display
  <2> HIDE DEF y
  <2>5. x.rtx < RtxLimit /\ x.outcome # "terminate" /\ Counted(x.lost) BY <1>3 DEF Sound
  <2>6. x.outcome = "none" => x.cookie = x.sid BY <1>3 DEF Sound, Standing
  <2>7. y.outcome = "none" => Standing(y) BY <2>4, <2>6 DEF Standing, Waiting, Live
  <2>8. KeepAliveCount(y) BY <2>4 DEF KeepAliveCount
  <2>9. Sound(y) BY <2>3, <2>4, <2>5, <2>7, <2>8 DEF Sound
  <2> QED BY <2>1, <2>4, <2>9 DEF Goes, Timed, Kept, Live
<1> QED BY <1>2, <1>3

\* A retransmission timer that comes due (timeout).
LEMMA TimeoutSound ==
    ASSUME NEW x, Sound(x), mode \in Modes, x.state \notin {"Off", "RunSession"}
    PROVE  Sound(Timeout(x)) /\ Timed(Timeout(x)) /\ Kept(x, Timeout(x))
<1> DEFINE y == [x EXCEPT !.rtx = @ + 1]
           lostNow == [n |-> y.keepAlives, carried |-> y.carried]
           dead == [y EXCEPT !.lost = lostNow]
           z == [y EXCEPT !.state = Resent(@)]
<1>1. x \in Display /\ Counted(x.lost) /\ x.rtx < RtxLimit /\ x.outcome # "terminate"
  BY DEF Sound
<1>2. x.rtx + 1 \in 0 .. RtxLimit BY <1>1, XdmcpAssumption DEF Display
<1>3. y \in Display BY <1>1, <1>2 DEF Display
<1>4. /\ y.state = x.state /\ y.rtx = x.rtx + 1 /\ y.keepAlives = x.keepAlives
      /\ y.carried = x.carried /\ y.lost = x.lost /\ y.outcome = x.outcome
      /\ y.sid = x.sid /\ y.cookie = x.cookie
  BY <1>1 DEF Display
<1>5. CASE y.state = "AwaitAliveResponse" /\ y.rtx >= KaRtxLimit
  <2>1. Timeout(x) = DeadSession(dead) BY <1>5 DEF Timeout
  <2>2. lostNow \in [n : Nat, carried : Nat] BY <1>3 DEF Display
  <2>3. dead \in Display /\ dead.lost = lostNow BY <1>3, <2>2 DEF Display
  <2>4. Counted(lostNow)
    <3>1. /\ x.keepAlives > 0
          /\ x.rtx + 1 = x.carried + x.keepAlives
          /\ IF x.carried < KaRtxLimit THEN x.rtx < KaRtxLimit ELSE x.keepAlives = 1
      BY <1>4, <1>5 DEF Sound, KeepAliveCount
    <3>2. x.rtx \in Nat /\ x.carried \in Nat /\ x.keepAlives \in Nat /\ KaRtxLimit \in Nat
      BY <1>1, XdmcpAssumption DEF Display
    <3>3. x.keepAlives = IF x.carried < KaRtxLimit THEN KaRtxLimit - x.carried ELSE 1
      BY <1>4, <1>5, <3>1, <3>2
    <3> QED BY <1>4, <3>3 DEF Counted
  <2> HIDE DEF dead
  <2>5. Sound(Timeout(x)) /\ Timeout(x).outcome # "none"
    BY <2>1, <2>3, <2>4, DeadSessionSound
  <2> QED BY <2>5 DEF Timed, Kept
<1>6. CASE ~(y.state = "AwaitAliveResponse" /\ y.rtx >= KaRtxLimit) /\ y.rtx >= RtxLimit
  <2>1. Timeout(x) = IF once THEN Terminate(y) ELSE DeadSession(y) BY <1>6 DEF Timeout
  <2>2. Sound(Terminate(y)) /\ Terminate(y).outcome # "none"
    BY <1>1, <1>3, <1>4, TerminateSound
  <2>3. Sound(DeadSession(y)) /\ DeadSession(y).outcome # "none"
    BY <1>1, <1>3, <1>4, DeadSessionSound
  <2> QED BY <2>1, <2>2, <2>3 DEF Timed, Kept
<1>7. CASE ~(y.state = "AwaitAliveResponse" /\ y.rtx >= KaRtxLimit) /\ ~(y.rtx >= RtxLimit)
  <2>1. Timeout(x) = SendPacket(z) BY <1>7 DEF Timeout
  <2>2. x.state \in Sending \cup (Waiting \ {"RunSession"}) BY <1>1 DEF Display
  <2>3. /\ Resent(x.state) \in Sending
        /\ Resent(x.state) = "KeepAlive" <=> x.state \in {"AwaitAliveResponse", "KeepAlive"}
        /\ Resent(x.state) = "Manage" <=> x.state \in {"AwaitManageResponse", "Manage"}
    BY <2>2, ResentValues DEF Waiting, Collecting, Sending
  <2>4. z \in Display BY <1>3, <1>4, <2>3 DEF Display
  <2>5. /\ z.state = Resent(x.state) /\ z.rtx = x.rtx + 1 /\ z.keepAlives = x.keepAlives
        /\ z.carried = x.carried /\ z.lost = x.lost /\ z.outcome = x.outcome
        /\ z.sid = x.sid /\ z.cookie = x.cookie
    BY <1>3, <1>4 DEF Display
  <2> HIDE DEF z
  <2>6. x.state # "KeepAlive" BY DEF Sound, KeepAliveCount
  <2>7. z.state = "KeepAlive" =>
            /\ z.rtx = z.carried + z.keepAlives
            /\ IF z.carried < KaRtxLimit THEN z.rtx < KaRtxLimit ELSE z.keepAlives = 0
    <3>1. SUFFICES ASSUME x.state = "AwaitAliveResponse"
                   PROVE  /\ z.rtx = z.carried + z.keepAlives
                          /\ IF z.carried < KaRtxLimit THEN z.rtx < KaRtxLimit ELSE z.keepAlives = 0
      BY <2>3, <2>5, <2>6
    <3>2. /\ x.keepAlives > 0
          /\ x.rtx + 1 = x.carried + x.keepAlives
          /\ IF x.carried < KaRtxLimit THEN x.rtx < KaRtxLimit ELSE x.keepAlives = 1
      BY <3>1 DEF Sound, KeepAliveCount
    <3>3. x.rtx \in Nat /\ x.carried \in Nat /\ x.keepAlives \in Nat /\ KaRtxLimit \in Nat
      BY <1>1, XdmcpAssumption DEF Display
    <3>4. ~(x.rtx + 1 >= KaRtxLimit) BY <1>4, <1>7, <3>1
    <3> QED BY <2>5, <3>2, <3>3, <3>4
  <2>8. z.outcome = "none" =>
            z.cookie = IF z.state \in {"Manage", "KeepAlive"} THEN z.sid ELSE None
    <3>1. x.outcome = "none" => x.state \in Waiting /\ Standing(x) BY DEF Sound, Standing
    <3> QED BY <2>3, <2>5, <3>1 DEF Standing, Live, Waiting, Collecting
  <2>9. z.rtx < RtxLimit BY <1>2, <1>4, <1>7, <2>5, XdmcpAssumption
  <2>10. Sound(SendPacket(z)) /\ SendPacket(z).armed /\ SendPacket(z).outcome = x.outcome
    BY <1>1, <2>3, <2>4, <2>5, <2>7, <2>8, <2>9, SentSound
  <2>11. Live(x.state) => Live(SendPacket(z).state)
    <3>1. SUFFICES ASSUME x.state = "AwaitAliveResponse" PROVE Live(SendPacket(z).state)
      BY DEF Live
    <3>2. z.state = "KeepAlive" BY <2>3, <2>5, <2>6, <3>1, ResentValues
    <3> QED BY <2>4, <3>2, SendPacketFields, OutstandingValues DEF Live, Sending
  <2> QED BY <2>1, <2>10, <2>11 DEF Timed, Kept
<1> QED BY <1>5, <1>6, <1>7

\* The timer comes due: a KeepAlive in a running session, a retransmission
\* otherwise (timer_expired).  It is armed again, or the loop has to act.
LEMMA TimerExpiredSound ==
    ASSUME NEW x, Sound(x), mode \in Modes
    PROVE  Sound(TimerExpired(x)) /\ Timed(TimerExpired(x)) /\ Kept(x, TimerExpired(x))
<1>1. CASE x.state = "Off"
  <2>1. TimerExpired(x) = x /\ x.outcome = "terminate" BY <1>1 DEF TimerExpired, Sound
  <2> QED BY <2>1 DEF Timed, Kept
<1>2. CASE x.state = "RunSession"
  <2> DEFINE z == [x EXCEPT !.state = "KeepAlive"]
  <2>1. TimerExpired(x) = SendPacket(z) BY <1>2 DEF TimerExpired
  <2>2. x \in Display /\ Counted(x.lost) /\ x.rtx < RtxLimit /\ x.outcome # "terminate"
    BY <1>2 DEF Sound
  <2>3. z \in Display BY <2>2 DEF Display, Sending
  <2>4. /\ z.state = "KeepAlive" /\ z.rtx = x.rtx /\ z.keepAlives = x.keepAlives
        /\ z.carried = x.carried /\ z.lost = x.lost /\ z.outcome = x.outcome
        /\ z.sid = x.sid /\ z.cookie = x.cookie
    BY <2>2 DEF Display
  <2> HIDE DEF z
  <2>5. z.keepAlives = 0 /\ z.rtx = z.carried /\ z.carried \in Nat
    BY <1>2, <2>2, <2>4 DEF Sound, KeepAliveCount, Display
  <2>6. z.outcome = "none" => z.cookie = z.sid
    BY <1>2, <2>4 DEF Sound, Standing, Live
  <2>7. Sound(SendPacket(z)) /\ SendPacket(z).armed /\ SendPacket(z).outcome = x.outcome
    BY <2>2, <2>3, <2>4, <2>5, <2>6, XdmcpAssumption, SentSound DEF Sending
  <2>8. Live(SendPacket(z).state)
    BY <2>3, <2>4, SendPacketFields, OutstandingValues DEF Live, Sending
  <2> QED BY <2>1, <2>7, <2>8 DEF Timed, Kept
<1>3. CASE x.state \notin {"Off", "RunSession"}
  <2>1. TimerExpired(x) = Timeout(x) BY <1>3 DEF TimerExpired
  <2> QED BY <1>3, <2>1, TimeoutSound
<1> QED BY <1>1, <1>2, <1>3

\* A new generation begins with a query and nothing of the old one (start).
LEMMA StartSound ==
    ASSUME NEW x \in Display, x.state # "Off", x.outcome = "none", x.cookie = None,
           Counted(x.lost), mode \in Modes
    PROVE  LET y == Start(x) IN Sound(y) /\ Timed(y) /\ y.outcome = "none" /\ ~Live(y.state)
<1> DEFINE z == [x EXCEPT !.state = mode, !.rtx = 0]
<1>1. Start(x) = SendPacket(z) BY DEF Start
<1>2. mode \in Sending /\ mode \notin {"Manage", "KeepAlive"} BY ModeSends DEF Sending
<1>3. 0 \in 0 .. RtxLimit /\ 0 < RtxLimit BY XdmcpAssumption
<1>4. z \in Display BY <1>2, <1>3 DEF Display
<1>5. z.state = mode /\ z.rtx = 0 /\ z.lost = x.lost /\ z.outcome = "none" /\ z.cookie = None
  BY DEF Display
<1> HIDE DEF z
<1>6. Sound(SendPacket(z)) /\ SendPacket(z).armed /\ SendPacket(z).outcome = "none"
  BY <1>2, <1>3, <1>4, <1>5, SentSound
<1>7. ~Live(SendPacket(z).state)
  BY <1>4, <1>5, ModeSends, SendPacketFields, OutstandingValues DEF Live, Sending
<1> QED BY <1>1, <1>6, <1>7 DEF Timed

-----------------------------------------------------------------------------
(* Answers of the manager.                                                 *)

\* What is ignored changes nothing.
LEMMA IgnoredGoes == ASSUME NEW x, Sound(x) PROVE Goes(x, x)
BY DEF Goes, Kept

\* A fatal answer.
LEMMA TerminateGoes == ASSUME NEW x, Sound(x) PROVE Goes(x, Terminate(x))
<1>1. Sound(Terminate(x)) /\ Terminate(x).outcome = "terminate" BY TerminateSound DEF Sound
<1> QED BY <1>1 DEF Goes, Timed, Kept

\* Sending after an answer to something other than a KeepAlive.
LEMMA SentGoes ==
    ASSUME NEW x, Sound(x), ~Live(x.state), x.state # "Off",
           NEW z \in Display, z.state \in {"StartConnection", "Manage"},
           z.rtx = 0, z.lost = x.lost, z.outcome = x.outcome,
           z.outcome = "none" => z.cookie = IF z.state = "Manage" THEN z.sid ELSE None
    PROVE  Goes(x, SendPacket(z))
<1>1. Counted(z.lost) /\ z.outcome # "terminate" BY DEF Sound
<1>2. z.rtx < RtxLimit BY XdmcpAssumption
<1>3. z.state \in Sending /\ z.state # "KeepAlive" BY DEF Sending
<1>4. Sound(SendPacket(z)) /\ SendPacket(z).armed /\ SendPacket(z).outcome = x.outcome
  BY <1>1, <1>2, <1>3, SentSound
<1> QED BY <1>4 DEF Goes, Timed, Kept

\* A Willing is answered with a Request (recv_willing).
LEMMA RecvWillingGoes == ASSUME NEW x, Sound(x) PROVE Goes(x, RecvWilling(x))
<1> DEFINE z == [[x EXCEPT !.rtx = 0] EXCEPT !.state = "StartConnection"]
<1>1. CASE x.state \in Collecting
  <2>1. RecvWilling(x) = SendPacket(z) BY <1>1 DEF RecvWilling, Accepted
  <2>2. x \in Display /\ 0 \in 0 .. RtxLimit BY XdmcpAssumption DEF Sound
  <2>3. z \in Display BY <2>2 DEF Display, Sending
  <2>4. /\ z.state = "StartConnection" /\ z.rtx = 0 /\ z.lost = x.lost
        /\ z.outcome = x.outcome /\ z.cookie = x.cookie
    BY <2>2 DEF Display
  <2> HIDE DEF z
  <2>5. /\ ~Live(x.state) /\ x.state # "Off"
        /\ x.outcome = "none" => x.cookie = None
    BY <1>1 DEF Sound, Standing, Live, Collecting
  <2> QED BY <2>1, <2>3, <2>4, <2>5, SentGoes
<1>2. CASE x.state \notin Collecting BY <1>2, IgnoredGoes DEF RecvWilling
<1> QED BY <1>1, <1>2

\* An Accept installs its cookie with its session id (recv_accept).
LEMMA RecvAcceptGoes ==
    ASSUME NEW x, Sound(x), NEW a \in Answers PROVE Goes(x, RecvAccept(x, a))
<1> DEFINE z == [[x EXCEPT !.rtx = 0] EXCEPT !.sid = a.sid, !.cookie = a.sid, !.state = "Manage"]
<1>1. CASE x.state = "AwaitRequestResponse"
  <2>1. RecvAccept(x, a) = SendPacket(z) BY <1>1 DEF RecvAccept, Accepted
  <2>2. x \in Display /\ 0 \in 0 .. RtxLimit /\ a.sid \in 0 .. MaxOffer
    BY XdmcpAssumption DEF Sound, Answers
  <2>3. z \in Display BY <2>2 DEF Display, Sending
  <2>4. /\ z.state = "Manage" /\ z.rtx = 0 /\ z.lost = x.lost
        /\ z.outcome = x.outcome /\ z.cookie = z.sid
    BY <2>2 DEF Display
  <2> HIDE DEF z
  <2>5. ~Live(x.state) /\ x.state # "Off" BY <1>1 DEF Live
  <2> QED BY <2>1, <2>3, <2>4, <2>5, SentGoes
<1>2. CASE x.state # "AwaitRequestResponse" BY <1>2, IgnoredGoes DEF RecvAccept
<1> QED BY <1>1, <1>2

\* A refused offer takes its cookie along (recv_refuse).
LEMMA RecvRefuseGoes ==
    ASSUME NEW x, Sound(x), NEW a \in Answers PROVE Goes(x, RecvRefuse(x, a))
<1> DEFINE z == [[x EXCEPT !.rtx = 0] EXCEPT !.state = "StartConnection", !.cookie = None]
<1>1. CASE Answered(x, a)
  <2>1. RecvRefuse(x, a) = SendPacket(z) BY <1>1 DEF RecvRefuse, Accepted
  <2>2. x \in Display /\ 0 \in 0 .. RtxLimit /\ None \in 0 .. MaxOffer
    BY XdmcpAssumption DEF Sound, None
  <2>3. z \in Display BY <2>2 DEF Display, Sending
  <2>4. /\ z.state = "StartConnection" /\ z.rtx = 0 /\ z.lost = x.lost
        /\ z.outcome = x.outcome /\ z.cookie = None
    BY <2>2 DEF Display
  <2> HIDE DEF z
  <2>5. ~Live(x.state) /\ x.state # "Off" BY <1>1 DEF Live, Answered
  <2> QED BY <2>1, <2>3, <2>4, <2>5, SentGoes
<1>2. CASE ~Answered(x, a) BY <1>2, IgnoredGoes DEF RecvRefuse
<1> QED BY <1>1, <1>2

\* An Alive continues its session or ends it (recv_alive).
LEMMA RecvAliveGoes ==
    ASSUME NEW x, Sound(x), NEW a \in Answers, mode \in Modes PROVE Goes(x, RecvAlive(x, a))
<1> DEFINE y == [[x EXCEPT !.rtx = 0] EXCEPT !.state = "RunSession", !.armed = TRUE,
                                             !.keepAlives = 0, !.carried = 0]
<1>1. CASE x.state # "AwaitAliveResponse" BY <1>1, IgnoredGoes DEF RecvAlive
<1>2. CASE x.state = "AwaitAliveResponse" /\ a.running /\ a.sid = x.sid
  <2>1. RecvAlive(x, a) = y BY <1>2 DEF RecvAlive, Accepted
  <2>2. x \in Display /\ 0 \in 0 .. RtxLimit /\ 0 < RtxLimit BY XdmcpAssumption DEF Sound
  <2>3. y \in Display BY <2>2 DEF Display, Waiting
  <2>4. /\ y.state = "RunSession" /\ y.armed /\ y.keepAlives = 0 /\ y.carried = 0 /\ y.rtx = 0
        /\ y.sid = x.sid /\ y.cookie = x.cookie /\ y.outcome = x.outcome /\ y.lost = x.lost
    BY <2>2 DEF Display
  <2> HIDE DEF y
  <2>5. /\ Counted(x.lost) /\ x.outcome # "terminate"
        /\ x.outcome = "none" => x.cookie = x.sid
    BY <1>2 DEF Sound, Standing, Live
  <2>6. KeepAliveCount(y) BY <2>4 DEF KeepAliveCount
  <2>7. y.outcome = "none" => Standing(y) BY <2>4, <2>5 DEF Standing, Waiting, Live
  <2>8. Sound(y) BY <2>2, <2>3, <2>4, <2>5, <2>6, <2>7 DEF Sound
  <2> QED BY <2>1, <2>4, <2>8 DEF Goes, Timed, Kept, Live
<1>3. CASE x.state = "AwaitAliveResponse" /\ ~(a.running /\ a.sid = x.sid)
  <2>1. RecvAlive(x, a) = DeadSession(x) BY <1>3 DEF RecvAlive
  <2>2. Sound(DeadSession(x)) /\ DeadSession(x).outcome # "none" BY DeadSessionSound DEF Sound
  <2> QED BY <2>1, <2>2 DEF Goes, Timed, Kept
<1> QED BY <1>1, <1>2, <1>3

\* Any answer, in any state (receive).
LEMMA ReceivedGoes ==
    ASSUME NEW x, Sound(x), NEW a \in Answers, mode \in Modes PROVE Goes(x, Received(x, a))
<1>1. Goes(x, RecvUnwilling(x, a)) BY IgnoredGoes, TerminateGoes DEF RecvUnwilling
<1>2. Goes(x, RecvAcceptAuthenticated(x)) BY IgnoredGoes, TerminateGoes DEF RecvAcceptAuthenticated
<1>3. Goes(x, RecvDecline(x)) BY IgnoredGoes, TerminateGoes DEF RecvDecline
<1>4. Goes(x, RecvFailed(x, a)) BY IgnoredGoes, TerminateGoes DEF RecvFailed
<1> QED
  BY <1>1, <1>2, <1>3, <1>4, RecvWillingGoes, RecvAcceptGoes, RecvRefuseGoes, RecvAliveGoes
  DEF Received

\* An Accept that cannot be used (recv_accept).
LEMMA RecvUnusableAcceptGoes == ASSUME NEW x, Sound(x) PROVE Goes(x, RecvUnusableAccept(x))
<1> DEFINE y == [x EXCEPT !.cookie = None]
<1>1. CASE x.state = "AwaitRequestResponse"
  <2>1. RecvUnusableAccept(x) = y BY <1>1 DEF RecvUnusableAccept
  <2>2. x \in Display /\ None \in 0 .. MaxOffer BY XdmcpAssumption DEF Sound, None
  <2>3. y \in Display BY <2>2 DEF Display
  <2>4. /\ y.state = x.state /\ y.armed = x.armed /\ y.rtx = x.rtx
        /\ y.outcome = x.outcome /\ y.lost = x.lost /\ y.cookie = None
    BY <2>2 DEF Display
  <2> HIDE DEF y
  <2>5. Sound(y) BY <1>1, <2>3, <2>4 DEF Sound, KeepAliveCount, Standing, Live, Waiting
  <2> QED BY <1>1, <2>1, <2>4, <2>5 DEF Goes, Timed, Kept, Live
<1>2. CASE x.state # "AwaitRequestResponse" BY <1>2, IgnoredGoes DEF RecvUnusableAccept
<1> QED BY <1>1, <1>2

-----------------------------------------------------------------------------
(* The invariant of the loop.                                              *)

\* What the service makes of a display: its packets leave (send).
LEMMA FedFields ==
    ASSUME NEW x \in Display
    PROVE  LET e == [x EXCEPT !.out = {}] IN
           /\ e \in Display /\ e.out = {} /\ x.out \subseteq Packets
           /\ e.state = x.state /\ e.rtx = x.rtx /\ e.outcome = x.outcome /\ e.client = x.client
           /\ e.lost = x.lost
           /\ Sound(x) => Sound(e)
           /\ Timed(x) => Timed(e)
<1> DEFINE e == [x EXCEPT !.out = {}]
<1>1. e \in Display /\ x.out \subseteq Packets BY DEF Display
<1>2. /\ e.state = x.state /\ e.rtx = x.rtx /\ e.outcome = x.outcome /\ e.client = x.client
      /\ e.lost = x.lost /\ e.out = {} /\ e.armed = x.armed /\ e.sid = x.sid
      /\ e.cookie = x.cookie /\ e.keepAlives = x.keepAlives /\ e.carried = x.carried
  BY DEF Display
<1> HIDE DEF e
<1>3. Sound(x) => Sound(e) BY <1>1, <1>2 DEF Sound, KeepAliveCount, Standing
<1>4. Timed(x) => Timed(e) BY <1>2 DEF Timed
<1> QED BY <1>1, <1>2, <1>3, <1>4 DEF e

\* The loop starts with a query on its way.
LEMMA InvInit == Init => Inv
<1> SUFFICES ASSUME Init PROVE Inv
  OBVIOUS
<1>1. mode \in {"Query", "Broadcast", "Indirect"} BY XdmcpAssumption DEF Init
<1>2. Outstanding[mode] \in Collecting BY <1>1, OutstandingValues DEF Collecting
<1>3. [n |-> KaRtxLimit, carried |-> 0] \in [n : Nat, carried : Nat] BY XdmcpAssumption
<1>4. 0 \in 0 .. MaxOffer /\ 0 \in 0 .. RtxLimit /\ 0 < RtxLimit BY XdmcpAssumption
<1>5. d \in Display
  BY <1>2, <1>3, <1>4 DEF Init, Display, Waiting, Outcomes, None
<1>6. /\ d.state = Outstanding[mode] /\ d.rtx = 0 /\ d.outcome = "none" /\ d.armed
      /\ d.cookie = None /\ d.out = {} /\ d.lost = [n |-> KaRtxLimit, carried |-> 0]
  BY DEF Init
<1>7. Counted(d.lost) BY <1>6, XdmcpAssumption DEF Counted
<1>8. /\ d.state \in Waiting
      /\ d.state \notin {"Off", "KeepAlive", "RunSession", "AwaitAliveResponse", "AwaitManageResponse"}
  BY <1>2, <1>6 DEF Waiting, Collecting
<1>9. Sound(d) /\ Timed(d)
  BY <1>4, <1>5, <1>6, <1>7, <1>8 DEF Sound, KeepAliveCount, Standing, Live, Timed
<1>10. sent \subseteq Packets
  BY <1>1, <1>4 DEF Init, Packets, Packet, None
<1>11. SessionHasClient BY <1>8 DEF SessionHasClient, Live
<1>12. clients = {} /\ net = {} /\ at = "poll" /\ trigger = "idle" /\ mode \in Modes /\ once \in BOOLEAN
  BY DEF Init
<1>13. /\ setup \in [Client -> {"none", "checking", "authorized", "over"}]
       /\ admitted \in [Client -> 0 .. MaxOffer]
  BY <1>4 DEF Init, None
<1>14. d.rtx < RtxLimit BY <1>4, <1>6
<1> QED
  BY <1>5, <1>6, <1>7, <1>9, <1>10, <1>11, <1>12, <1>13, <1>14 DEF Inv

\* An event of the machine that leaves the clients alone.
LEMMA EventKeepsInv ==
    ASSUME Inv, Running, NEW x, Goes(d, x), Fed(x), at' = "dispatch", net' \subseteq Answers,
           UNCHANGED <<mode, once, trigger, clients, setup, admitted>>
    PROVE  Inv'
<1>1. Sound(d) /\ Timed(d) BY DEF Inv, Running
<1>2. x \in Display /\ Sound(x) /\ Timed(x) /\ Kept(d, x) BY <1>1 DEF Goes, Sound
<1>3. /\ d' \in Display /\ d'.out = {} /\ sent' \subseteq Packets
      /\ d'.state = x.state /\ d'.outcome = x.outcome
      /\ Sound(d') /\ Timed(d')
  BY <1>2, FedFields DEF Fed, Inv
<1>4. d'.outcome = "none" /\ clients \cap Remote # {} => Live(d'.state)
  BY <1>2, <1>3 DEF Inv, Kept, Running
<1>5. Counted(d'.lost) /\ (d'.state # "Off" => d'.rtx < RtxLimit) BY <1>3 DEF Sound
<1>6. SessionHasClient' BY DEF SessionHasClient
<1> QED BY <1>3, <1>4, <1>5, <1>6 DEF Inv

\* Establishing a client (note_client_established).
LEMMA ClientSetupCompleteKeepsInv ==
    ASSUME Inv, NEW c \in Client, ClientSetupComplete(c) PROVE Inv'
<1> DEFINE x == OpenDisplay(d, c)
<1>1. Running /\ Fed(x) /\ at' = "dispatch" /\ UNCHANGED <<mode, once, net, admitted>>
  BY DEF ClientSetupComplete
<1>2. Sound(d) /\ Timed(d) BY <1>1 DEF Inv, Running
<1>3. x \in Display /\ Sound(x) /\ Timed(x) /\ Kept(d, x)
  BY <1>2, OpenDisplaySound DEF Goes, Sound
<1>4. \/ Orphaned(x, c) /\ clients' = clients
      \/ ~Orphaned(x, c) /\ clients' = clients \cup {c}
  BY DEF ClientSetupComplete
<1> HIDE DEF x
<1>5. /\ d' \in Display /\ d'.out = {} /\ sent' \subseteq Packets
      /\ d'.state = x.state /\ d'.outcome = x.outcome
      /\ Sound(d') /\ Timed(d')
  BY <1>1, <1>3, FedFields DEF Fed, Inv
<1>6. clients' \subseteq Client BY <1>4 DEF Inv
<1>7. d'.outcome = "none" /\ clients' \cap Remote # {} => Live(d'.state)
  <2>1. SUFFICES ASSUME d'.outcome = "none", clients' \cap Remote # {} PROVE Live(x.state)
    BY <1>5
  <2>2. CASE clients \cap Remote # {} BY <1>1, <1>3, <1>5, <2>1, <2>2 DEF Inv, Kept, Running
  <2>3. CASE clients \cap Remote = {} BY <1>4, <2>1, <2>3 DEF Orphaned
  <2> QED BY <2>2, <2>3
<1>8. trigger' \in {"idle", "armed", "drained"}
  BY DEF ClientSetupComplete, Drained, Inv
<1>9. setup' \in [Client -> {"none", "checking", "authorized", "over"}]
  BY DEF ClientSetupComplete, Inv
<1>10. Counted(d'.lost) /\ (d'.state # "Off" => d'.rtx < RtxLimit) BY <1>5 DEF Sound
<1>11. SessionHasClient' BY <1>1 DEF SessionHasClient
<1> QED BY <1>1, <1>5, <1>6, <1>7, <1>8, <1>9, <1>10, <1>11 DEF Inv

\* A client leaves; the machine learns of it in the tail.
LEMMA DisconnectKeepsInv == ASSUME Inv, NEW c \in Client, Disconnect(c) PROVE Inv'
<1>1. /\ Running /\ at' = "dispatch" /\ clients' = clients \ {c}
      /\ UNCHANGED <<mode, once, d, setup, sent, net, admitted>>
  BY DEF Disconnect
<1>2. trigger' \in {"idle", "armed", "drained"} BY DEF Disconnect, Drained, Inv
<1>3. clients' \cap Remote # {} => clients \cap Remote # {} BY <1>1
<1>4. SessionHasClient' BY <1>1 DEF SessionHasClient
<1>5. Sound(d)' /\ Timed(d)' <=> Sound(d) /\ Timed(d)
  BY <1>1 DEF Sound, Timed, KeepAliveCount, Standing
<1> QED BY <1>1, <1>2, <1>3, <1>4, <1>5 DEF Inv, Running

\* The tail: timer, departure, outcome, boundary.
LEMMA TailKeepsInv == ASSUME Inv, NEW due \in BOOLEAN, Tail(due) PROVE Inv'
<1> DEFINE u == IF due THEN TimerExpired([d EXCEPT !.armed = FALSE]) ELSE d
           y == Departure(u)
           x == [y EXCEPT !.outcome = "none"]
<1>1. Running /\ UNCHANGED <<mode, once, net, admitted>> /\ mode \in Modes /\ Sound(d) /\ Timed(d)
  BY DEF Tail, Inv, Running
<1>2. Sound(u) /\ Timed(u) /\ Kept(d, u)
  <2>1. CASE due
    <3> DEFINE e == [d EXCEPT !.armed = FALSE]
    <3>1. d \in Display BY <1>1 DEF Sound
    <3>2. e \in Display BY <3>1 DEF Display
    <3>3. /\ e.state = d.state /\ e.rtx = d.rtx /\ e.outcome = d.outcome /\ e.lost = d.lost
          /\ e.sid = d.sid /\ e.cookie = d.cookie /\ e.keepAlives = d.keepAlives
          /\ e.carried = d.carried
      BY <3>1 DEF Display
    <3>4. u = TimerExpired(e) BY <2>1
    <3> HIDE DEF e
    <3>5. Sound(e) BY <1>1, <3>2, <3>3 DEF Sound, KeepAliveCount, Standing
    <3>6. Sound(TimerExpired(e)) /\ Timed(TimerExpired(e)) /\ Kept(e, TimerExpired(e))
      BY <1>1, <3>5, TimerExpiredSound
    <3> QED BY <3>3, <3>4, <3>6 DEF Kept
  <2>2. CASE ~due BY <1>1, <2>2 DEF Kept
  <2> QED BY <2>1, <2>2
<1> HIDE DEF u
<1>3. /\ Sound(y) /\ Timed(y) /\ Kept(u, y)
      /\ y.outcome = "none" => (Live(y.state) => y.client \in clients)
  BY <1>1, <1>2, DepartureSound DEF Goes
<1>4. \/ y.outcome = "terminate" /\ at' = "exit" /\ Fed(x) /\ UNCHANGED <<trigger, clients, setup>>
      \/ y.outcome # "terminate" /\ at' = "exit" /\ Fed(x) /\ UNCHANGED <<trigger, clients, setup>>
      \/ y.outcome # "terminate" /\ Boundary(x)
      \/ y.outcome = "none" /\ at' = "poll" /\ Fed(x) /\ UNCHANGED <<trigger, clients, setup>>
  <2>1. y.outcome \in Outcomes BY <1>3 DEF Sound, Display
  <2> QED BY <2>1 DEF Tail, u, Outcomes
<1> HIDE DEF y
<1>5. y \in Display BY <1>3 DEF Sound
<1>6. x \in Display BY <1>5 DEF Display, Outcomes
<1>7. /\ x.state = y.state /\ x.rtx = y.rtx /\ x.outcome = "none" /\ x.lost = y.lost
      /\ x.sid = y.sid /\ x.cookie = y.cookie /\ x.keepAlives = y.keepAlives
      /\ x.carried = y.carried /\ x.client = y.client /\ x.armed = y.armed
  BY <1>5 DEF Display
<1> HIDE DEF x
<1>8. Counted(x.lost) /\ (x.state # "Off" => x.rtx < RtxLimit) BY <1>3, <1>7 DEF Sound
<1>9. CASE at' = "exit" /\ Fed(x) /\ UNCHANGED <<trigger, clients, setup>>
  <2>1. /\ d' \in Display /\ d'.out = {} /\ sent' \subseteq Packets
        /\ d'.state = x.state /\ d'.rtx = x.rtx /\ d'.lost = x.lost
    BY <1>6, <1>9, FedFields DEF Fed, Inv
  <2>2. SessionHasClient' BY <1>9 DEF SessionHasClient
  <2> QED BY <1>1, <1>8, <1>9, <2>1, <2>2 DEF Inv
<1>10. CASE y.outcome # "terminate" /\ Boundary(x)
  <2> DEFINE z == [x EXCEPT !.cookie = None]
  <2>1. None \in 0 .. MaxOffer BY XdmcpAssumption DEF None
  <2>2. z \in Display BY <1>6, <2>1 DEF Display
  <2>3. z.state = x.state /\ z.outcome = "none" /\ z.lost = x.lost /\ z.cookie = None
    BY <1>6, <1>7 DEF Display
  <2>4. Fed(Start(z)) /\ clients' = {} /\ trigger' = "idle" /\ at' = "poll"
    BY <1>10 DEF Boundary
  <2> HIDE DEF z
  <2>5. z.state # "Off" BY <1>3, <1>7, <1>10, <2>3 DEF Sound
  <2>6. /\ Sound(Start(z)) /\ Timed(Start(z)) /\ Start(z).outcome = "none"
        /\ ~Live(Start(z).state) /\ Start(z) \in Display
    BY <1>1, <1>8, <2>2, <2>3, <2>5, StartSound DEF Sound
  <2>7. /\ d' \in Display /\ d'.out = {} /\ sent' \subseteq Packets
        /\ d'.state = Start(z).state /\ d'.outcome = "none" /\ Sound(d') /\ Timed(d')
    BY <2>4, <2>6, FedFields DEF Fed, Inv
  <2>8. SessionHasClient' BY <2>6, <2>7 DEF SessionHasClient
  <2>9. Counted(d'.lost) /\ (d'.state # "Off" => d'.rtx < RtxLimit) BY <2>7 DEF Sound
  <2>10. setup' \in [Client -> {"none", "checking", "authorized", "over"}]
    BY <1>10 DEF Boundary, Inv
  <2> QED BY <1>1, <2>4, <2>7, <2>8, <2>9, <2>10 DEF Inv
<1>11. CASE y.outcome = "none" /\ at' = "poll" /\ Fed(x) /\ UNCHANGED <<trigger, clients, setup>>
  <2>1. Sound(x) /\ Timed(x)
    BY <1>3, <1>6, <1>7, <1>11 DEF Sound, KeepAliveCount, Standing, Timed
  <2>2. /\ d' \in Display /\ d'.out = {} /\ sent' \subseteq Packets
        /\ d'.state = y.state /\ d'.outcome = "none" /\ d'.client = y.client
        /\ Sound(d') /\ Timed(d')
    BY <1>6, <1>7, <1>11, <2>1, FedFields DEF Fed, Inv
  <2>3. SessionHasClient' BY <1>3, <1>11, <2>2 DEF SessionHasClient
  <2>4. clients \cap Remote # {} => Live(d'.state)
    <3>1. u.outcome = "none" /\ d.outcome = "none" BY <1>2, <1>3, <1>11 DEF Kept
    <3> QED BY <1>1, <1>2, <1>3, <1>11, <2>2, <3>1 DEF Kept, Inv, Running
  <2>5. Counted(d'.lost) /\ (d'.state # "Off" => d'.rtx < RtxLimit) BY <2>2 DEF Sound
  <2> QED BY <1>1, <1>11, <2>2, <2>3, <2>4, <2>5 DEF Inv
<1> QED BY <1>4, <1>9, <1>10, <1>11

\* What does not touch the machine or the clients.
LEMMA OutsideKeepsInv ==
    ASSUME Inv, net' \subseteq Answers,
           setup' \in [Client -> {"none", "checking", "authorized", "over"}],
           admitted' \in [Client -> 0 .. MaxOffer],
           UNCHANGED <<mode, once, d, at, trigger, clients, sent>>
    PROVE  Inv'
<1>1. Sound(d)' /\ Timed(d)' <=> Sound(d) /\ Timed(d)
  BY DEF Sound, Timed, KeepAliveCount, Standing
<1>2. SessionHasClient' BY DEF Inv, SessionHasClient
<1> QED BY <1>1, <1>2 DEF Inv

\* The manager answers what it was sent.
LEMMA AnswersTyped == ASSUME NEW p \in Packets, NEW a \in AnswersTo(p) PROVE a \in Answers
<1>1. 0 \in 0 .. MaxOffer /\ 1 .. MaxOffer \subseteq 0 .. MaxOffer /\ p.sid \in 0 .. MaxOffer
  BY XdmcpAssumption DEF Packets
<1> DEFINE Kinds == {"Willing", "Unwilling", "Accept", "AcceptAuthenticated", "Decline",
                     "Refuse", "Failed", "Alive"}
<1>2. \A k \in Kinds, s \in 0 .. MaxOffer, f \in BOOLEAN : Answer(k, s, f) \in Answers
  BY DEF Answer, Answers
<1>3. \E k \in Kinds, s \in 0 .. MaxOffer, f \in BOOLEAN : a = Answer(k, s, f)
  <2>1. CASE p.kind = "Query"
    <3>1. a = Answer("Willing", 0, TRUE) \/ \E f \in BOOLEAN : a = Answer("Unwilling", 0, f)
      BY <2>1 DEF AnswersTo, None
    <3> QED BY <1>1, <3>1
  <2>2. CASE p.kind = "StartConnection"
    <3>1. \/ \E s \in 1 .. MaxOffer : a = Answer("Accept", s, TRUE)
          \/ \E k \in {"AcceptAuthenticated", "Decline"} : a = Answer(k, 0, TRUE)
      BY <2>2 DEF AnswersTo, None
    <3> QED BY <1>1, <3>1
  <2>3. CASE p.kind = "Manage"
    <3>1. \E k \in {"Refuse", "Failed"} : a = Answer(k, p.sid, TRUE) BY <2>3 DEF AnswersTo
    <3> QED BY <1>1, <3>1
  <2>4. CASE p.kind \notin {"Query", "StartConnection", "Manage"}
    <3>1. \E f \in BOOLEAN : a = Answer("Alive", p.sid, f) BY <2>4 DEF AnswersTo
    <3> QED BY <1>1, <3>1
  <2> QED BY <2>1, <2>2, <2>3, <2>4
<1> QED BY <1>2, <1>3

\* Every step keeps the invariant.
LEMMA InvNext == Inv /\ [Next]_vars => Inv'
<1> SUFFICES ASSUME Inv, [Next]_vars PROVE Inv'
  OBVIOUS
<1>1. ASSUME NEW a \in net, Receive(a) PROVE Inv'
  <2>1. Running /\ Sound(d) /\ mode \in Modes /\ a \in Answers BY <1>1 DEF Receive, Inv, Running
  <2>2. Goes(d, Received(d, a)) BY <2>1, ReceivedGoes
  <2>3. net' \subseteq Answers BY <1>1 DEF Receive, Inv
  <2>4. /\ Fed(Received(d, a)) /\ at' = "dispatch"
        /\ UNCHANGED <<mode, once, trigger, clients, setup, admitted>>
    BY <1>1 DEF Receive
  <2> QED BY <2>1, <2>2, <2>3, <2>4, EventKeepsInv
<1>2. CASE ReceiveUnusableAccept
  <2>1. Running /\ Sound(d) BY <1>2 DEF ReceiveUnusableAccept, Inv, Running
  <2>2. Goes(d, RecvUnusableAccept(d)) BY <2>1, RecvUnusableAcceptGoes
  <2>3. /\ Fed(RecvUnusableAccept(d)) /\ at' = "dispatch" /\ net' \subseteq Answers
        /\ UNCHANGED <<mode, once, trigger, clients, setup, admitted>>
    BY <1>2 DEF ReceiveUnusableAccept, Inv
  <2> QED BY <2>1, <2>2, <2>3, EventKeepsInv
<1>3. ASSUME NEW c \in Client, ClientSetupComplete(c) PROVE Inv'
  BY <1>3, ClientSetupCompleteKeepsInv
<1>4. ASSUME NEW c \in Client, Disconnect(c) PROVE Inv'
  BY <1>4, DisconnectKeepsInv
<1>5. ASSUME NEW c \in Client, Connect(c) PROVE Inv'
  <2>1. /\ setup' \in [Client -> {"none", "checking", "authorized", "over"}]
        /\ net' \subseteq Answers /\ admitted' \in [Client -> 0 .. MaxOffer]
        /\ UNCHANGED <<mode, once, d, at, trigger, clients, sent>>
    BY <1>5 DEF Connect, Inv
  <2> QED BY <2>1, OutsideKeepsInv
<1>6. ASSUME NEW c \in Client, Check(c) PROVE Inv'
  <2>1. /\ setup' \in [Client -> {"none", "checking", "authorized", "over"}]
        /\ net' \subseteq Answers /\ admitted' \in [Client -> 0 .. MaxOffer]
        /\ UNCHANGED <<mode, once, d, at, trigger, clients, sent>>
    BY <1>6 DEF Check, Inv, Display
  <2> QED BY <2>1, OutsideKeepsInv
<1>7. ASSUME NEW due \in BOOLEAN, Tail(due) PROVE Inv'
  BY <1>7, TailKeepsInv
<1>8. CASE ManagerAnswers
  <2>1. PICK p \in sent : \E a \in AnswersTo(p) : net' = net \cup {a} BY <1>8 DEF ManagerAnswers
  <2>2. net' \subseteq Answers BY <2>1, AnswersTyped DEF Inv
  <2>3. /\ setup' \in [Client -> {"none", "checking", "authorized", "over"}]
        /\ admitted' \in [Client -> 0 .. MaxOffer]
        /\ UNCHANGED <<mode, once, d, at, trigger, clients, sent>>
    BY <1>8 DEF ManagerAnswers, Inv
  <2> QED BY <2>2, <2>3, OutsideKeepsInv
<1>9. CASE UNCHANGED vars
  <2>1. /\ setup' \in [Client -> {"none", "checking", "authorized", "over"}]
        /\ net' \subseteq Answers /\ admitted' \in [Client -> 0 .. MaxOffer]
        /\ UNCHANGED <<mode, once, d, at, trigger, clients, sent>>
    BY <1>9 DEF vars, Inv
  <2> QED BY <2>1, OutsideKeepsInv
<1> QED BY <1>1, <1>2, <1>3, <1>4, <1>5, <1>6, <1>7, <1>8, <1>9 DEF Next

-----------------------------------------------------------------------------
(* What follows.                                                           *)

\* The invariant holds in every reachable state: a display no outcome is
\* pending for stands, and no session ends without one.
THEOREM SessionInvariant == Spec => []Inv
BY InvInit, InvNext, PTL DEF Spec

\* State of the machine, the service and the loop stays well typed; in
\* particular the retry count never passes its limit (timeout).
THEOREM TypeCorrect == Spec => []TypeOK
<1>1. Inv => TypeOK
  BY StatesListed DEF Inv, TypeOK, Display, Outcomes
<1> QED BY <1>1, SessionInvariant, PTL

\* The installed cookie is that of the standing offer, and of no other
\* (recv_accept, recv_refuse).
THEOREM CookieIsOfOffer == Spec => []CookieOfOffer
<1>1. Inv => CookieOfOffer
  BY DEF Inv, CookieOfOffer, Sound, Standing
<1> QED BY <1>1, SessionInvariant, PTL

\* Remote clients are connected only during a session
\* (note_client_established).
THEOREM RemoteClientsInSession == Spec => []RemoteInSession
<1>1. Inv => RemoteInSession
  BY DEF Inv, RemoteInSession
<1> QED BY <1>1, SessionInvariant, PTL

\* A live session has its client (live_session_client).
THEOREM SessionClientConnected == Spec => []SessionHasClient
<1>1. Inv => SessionHasClient
  BY DEF Inv
<1> QED BY <1>1, SessionInvariant, PTL

\* The loop never polls without an armed timer (send_packet).
THEOREM TimerAlwaysArmed == Spec => []TimerArmed
<1>1. Inv => TimerArmed
  BY DEF Inv, TimerArmed, Sound, Standing, Timed, Waiting
<1> QED BY <1>1, SessionInvariant, PTL

\* A session that started with a fresh retry count, or has had an Alive, is
\* given up after exactly XDM_KA_RTX_LIMIT KeepAlives, and none after more
\* (open_display, timeout).
THEOREM KeepAlivesAreCounted == Spec => []KeepAlivesCounted
<1>1. Inv => KeepAlivesCounted
  <2> SUFFICES ASSUME Inv PROVE KeepAlivesCounted
    OBVIOUS
  <2>1. d.lost.n = IF d.lost.carried < KaRtxLimit THEN KaRtxLimit - d.lost.carried ELSE 1
    BY DEF Inv, Counted
  <2>2. d.lost.carried \in Nat /\ KaRtxLimit \in Nat \ {0} BY XdmcpAssumption DEF Inv, Display
  <2> QED BY <2>1, <2>2 DEF KeepAlivesCounted
<1> QED BY <1>1, SessionInvariant, PTL
=============================================================================
