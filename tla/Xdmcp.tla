-------------------------------- MODULE Xdmcp --------------------------------
(***************************************************************************)
(* The display side of XDMCP: the protocol machine (xdmcp/state.rs), the   *)
(* service the core loop feeds it through (core_loop/xdmcp.rs) and the     *)
(* points of run.rs where datagrams, timer, clients and the generation     *)
(* boundary meet it.                                                       *)
(*                                                                         *)
(* The machine is a function of its state and an event, and so it is here: *)
(* `d` is the display, and every operator on it returns the display after  *)
(* the event and the actions the service applied.  Datagrams are lost,     *)
(* duplicated, delayed and reordered; the timer may fire whenever it is    *)
(* armed, so delays are not modelled.  An offer is named by its session    *)
(* id, and its cookie by the same name.  A credential of an earlier        *)
(* generation authorizes nobody, and is modelled as none.  Resets for      *)
(* other reasons than XDMCP's are those of the last client's departure.    *)
(***************************************************************************)
EXTENDS Naturals

CONSTANTS
    Remote, Local,  \* clients that come over TCP, and the others
    Modes,          \* the query modes checked, of Query, Broadcast, Indirect
    RtxLimit,       \* XDM_RTX_LIMIT
    KaRtxLimit,     \* XDM_KA_RTX_LIMIT
    MaxOffer,       \* bound: session ids the manager gives
    MaxAnswers      \* bound: answers of the manager

Client == Remote \cup Local

None == 0

ASSUME XdmcpAssumption ==
    /\ Remote \cap Local = {}
    /\ None \notin Client
    /\ Modes # {} /\ Modes \subseteq {"Query", "Broadcast", "Indirect"}
    /\ RtxLimit \in Nat \ {0} /\ KaRtxLimit \in Nat \ {0}
    /\ MaxOffer \in Nat /\ MaxAnswers \in Nat

VARIABLES
    mode, once,     \* XdmcpConfig
    d,              \* the machine, the service's timer and outcome, the session cookie
    at,             \* "poll", "dispatch" inside an iteration, or "exit"
    trigger,        \* ResetTrigger: "idle", "armed", "drained"
    clients,        \* ServerState::clients
    setup,          \* [c]: the setup thread of c
    sent,           \* packets the display has sent to its manager
    net,            \* answers on their way
    answers,
    admitted        \* history: [c]: the offer whose cookie admitted c

vars == <<mode, once, d, at, trigger, clients, setup, sent, net, answers, admitted>>

-----------------------------------------------------------------------------
(* The machine.                                                            *)

\* What a state that is about to send turns into, and what a retransmission
\* turns it back into.
Outstanding ==
    [Query |-> "CollectQuery", Broadcast |-> "CollectBroadcastQuery",
     Indirect |-> "CollectIndirectQuery", StartConnection |-> "AwaitRequestResponse",
     Manage |-> "AwaitManageResponse", KeepAlive |-> "AwaitAliveResponse"]

Collecting == {"CollectQuery", "CollectBroadcastQuery", "CollectIndirectQuery"}

Packet(s, sid) ==
    [kind |-> IF s \in {"Query", "Broadcast", "Indirect"} THEN "Query" ELSE s,
     sid |-> IF s \in {"Manage", "KeepAlive"} THEN sid ELSE None]

Resent(s) ==
    IF \E t \in DOMAIN Outstanding : Outstanding[t] = s
    THEN CHOOSE t \in DOMAIN Outstanding : Outstanding[t] = s ELSE s

\* session_is_live
Live(s) == s \in {"RunSession", "AwaitAliveResponse"}

\* send_packet: the timer is armed whether or not the state sends anything.
SendPacket(x) ==
    IF x.state \in DOMAIN Outstanding
    THEN [x EXCEPT !.out = @ \cup {Packet(x.state, x.sid)},
                   !.keepAlives = IF x.state = "KeepAlive" THEN @ + 1 ELSE @,
                   !.state = Outstanding[@],
                   !.armed = TRUE]
    ELSE [x EXCEPT !.armed = TRUE]

Start(x) == IF x.state = "Off" THEN x ELSE SendPacket([x EXCEPT !.state = mode, !.rtx = 0])

\* fatal, and the end of a session under -once.
Terminate(x) == [x EXCEPT !.state = "Off", !.outcome = "terminate"]

\* dead_session
DeadSession(x) ==
    LET over == [x EXCEPT !.state = mode, !.rtx = 0, !.client = None, !.armed = FALSE]
    IN  IF once THEN Terminate(over)
        ELSE SendPacket([over EXCEPT !.outcome = "reset"])

\* XdmcpOpenDisplay: only while a Manage is outstanding.
OpenDisplay(x, c) ==
    IF x.state = "AwaitManageResponse"
    THEN [x EXCEPT !.state = "RunSession", !.client = c, !.armed = TRUE, !.keepAlives = 0,
                   !.carried = x.rtx]
    ELSE x

\* XdmcpCloseDisplay: only for the session client of a live session.
CloseDisplay(x, c) ==
    IF Live(x.state) /\ x.client = c
    THEN IF once THEN Terminate([x EXCEPT !.client = None])
         ELSE [x EXCEPT !.client = None, !.state = mode, !.outcome = "reset"]
    ELSE x

\* Mutant: the retry limit is reached one retransmission late.
TimeoutLate(x) ==
    LET y == [x EXCEPT !.rtx = @ + 1]
    IN  IF y.state = "AwaitAliveResponse" /\ y.rtx >= KaRtxLimit
        THEN DeadSession([y EXCEPT !.lost = [n |-> y.keepAlives, carried |-> y.carried]])
        ELSE IF y.rtx > RtxLimit
        THEN IF once THEN Terminate(y) ELSE DeadSession(y)
        ELSE SendPacket([y EXCEPT !.state = Resent(@)])

\* timeout
Timeout(x) ==
    LET y == [x EXCEPT !.rtx = @ + 1]
    IN  IF y.state = "AwaitAliveResponse" /\ y.rtx >= KaRtxLimit
        THEN DeadSession([y EXCEPT !.lost = [n |-> y.keepAlives, carried |-> y.carried]])
        ELSE IF y.rtx >= RtxLimit
        THEN IF once THEN Terminate(y) ELSE DeadSession(y)
        ELSE SendPacket([y EXCEPT !.state = Resent(@)])

\* Mutant: the dormancy timer is spent without a KeepAlive.
TimerExpiredSilently(x) ==
    IF x.state = "Off" \/ x.state = "RunSession" THEN x ELSE Timeout(x)

\* timer_expired: in a running session, time for a KeepAlive.
TimerExpired(x) ==
    IF x.state = "Off" THEN x
    ELSE IF x.state = "RunSession" THEN SendPacket([x EXCEPT !.state = "KeepAlive"])
    ELSE Timeout(x)

-----------------------------------------------------------------------------
(* Answers of the manager.  Each handler ignores what its state does not   *)
(* wait for; only an answer that is acted on renews the retry budget.      *)

Accepted(x) == [x EXCEPT !.rtx = 0]

RecvWilling(x) ==
    IF x.state \in Collecting
    THEN SendPacket([Accepted(x) EXCEPT !.state = "StartConnection"]) ELSE x

\* Fatal only under -query, and only from the configured manager.
RecvUnwilling(x, a) ==
    IF x.state = "CollectQuery" /\ a.configured THEN Terminate(x) ELSE x

\* Mutant: an offer that cannot be used renews the retry budget.
RecvUnusableAcceptRenewing(x) ==
    IF x.state = "AwaitRequestResponse" THEN [Accepted(x) EXCEPT !.cookie = None] ELSE x

\* An Accept whose authorization cannot be used fails the offer.
RecvUnusableAccept(x) ==
    IF x.state = "AwaitRequestResponse" THEN [x EXCEPT !.cookie = None] ELSE x

\* An Accept that passes: the cookie is installed for the running generation.
RecvAccept(x, a) ==
    IF x.state # "AwaitRequestResponse" THEN x
    ELSE SendPacket([Accepted(x) EXCEPT !.sid = a.sid, !.cookie = a.sid, !.state = "Manage"])

\* An Accept that selects an authentication nobody registered.
RecvAcceptAuthenticated(x) == IF x.state = "AwaitRequestResponse" THEN Terminate(x) ELSE x

\* No state guard: a Decline ends the server wherever it arrives.
RecvDecline(x) == IF x.state = "Off" THEN x ELSE Terminate(x)

Answered(x, a) == x.state = "AwaitManageResponse" /\ a.sid = x.sid

\* Mutant: the cookie of a refused offer stays installed.
RecvRefuseKeepingCookie(x, a) ==
    IF Answered(x, a)
    THEN SendPacket([Accepted(x) EXCEPT !.state = "StartConnection"]) ELSE x

\* A refused offer takes its cookie with it.
RecvRefuse(x, a) ==
    IF Answered(x, a)
    THEN SendPacket([Accepted(x) EXCEPT !.state = "StartConnection", !.cookie = None]) ELSE x

RecvFailed(x, a) == IF Answered(x, a) THEN Terminate(x) ELSE x

\* Mutant: an Alive leaves the retry count as it is.
RecvAliveUnrenewed(x, a) ==
    IF x.state # "AwaitAliveResponse" THEN x
    ELSE IF a.running /\ a.sid = x.sid
    THEN [x EXCEPT !.state = "RunSession", !.armed = TRUE, !.keepAlives = 0, !.carried = 0]
    ELSE DeadSession(x)

\* An Alive of another session, however late, ends this one.
RecvAlive(x, a) ==
    IF x.state # "AwaitAliveResponse" THEN x
    ELSE IF a.running /\ a.sid = x.sid
    THEN [Accepted(x) EXCEPT !.state = "RunSession", !.armed = TRUE, !.keepAlives = 0,
                             !.carried = 0]
    ELSE DeadSession(x)

\* receive
Received(x, a) ==
    IF a.kind = "Willing" THEN RecvWilling(x)
    ELSE IF a.kind = "Unwilling" THEN RecvUnwilling(x, a)
    ELSE IF a.kind = "Accept" THEN RecvAccept(x, a)
    ELSE IF a.kind = "AcceptAuthenticated" THEN RecvAcceptAuthenticated(x)
    ELSE IF a.kind = "Decline" THEN RecvDecline(x)
    ELSE IF a.kind = "Refuse" THEN RecvRefuse(x, a)
    ELSE IF a.kind = "Failed" THEN RecvFailed(x, a)
    ELSE RecvAlive(x, a)

-----------------------------------------------------------------------------
Init ==
    /\ mode \in Modes /\ once \in BOOLEAN
    \* XdmcpService::start, before the first poll.  History: keepAlives, the
    \* KeepAlives sent since the manager was last heard of; carried, the retry
    \* count the session started with; lost, both of them when a session was
    \* last given up for want of an Alive.
    /\ d = [state |-> Outstanding[mode], sid |-> None, rtx |-> 0, client |-> None,
            armed |-> TRUE, outcome |-> "none", cookie |-> None, out |-> {},
            keepAlives |-> 0, carried |-> 0, lost |-> [n |-> KaRtxLimit, carried |-> 0]]
    /\ at = "poll"
    /\ trigger = "idle"
    /\ clients = {}
    /\ setup = [c \in Client |-> "none"]
    /\ sent = {Packet(mode, None)}
    /\ net = {} /\ answers = 0
    /\ admitted = [c \in Client |-> None]

-----------------------------------------------------------------------------
(* One iteration of the core loop: dispatch, then the tail.                *)

\* The display becomes x and its packets leave; nothing else of the core.
Fed(x) ==
    /\ d' = [x EXCEPT !.out = {}]
    /\ sent' = sent \cup x.out

Running == at # "exit"

\* handle_readable: one datagram.
Receive(a) ==
    /\ Running /\ a \in net
    /\ net' = net \ {a}
    /\ Fed(Received(d, a))
    /\ at' = "dispatch"
    /\ UNCHANGED <<mode, once, trigger, clients, setup, answers, admitted>>

\* A datagram that is no usable offer; there may be any number of them.
ReceiveUnusableAccept ==
    /\ Running
    /\ Fed(RecvUnusableAccept(d))
    /\ at' = "dispatch"
    /\ UNCHANGED <<mode, once, trigger, clients, setup, net, answers, admitted>>

Drained(cs) == IF trigger = "armed" /\ cs = {} THEN "drained" ELSE trigger

\* Mutant: a client admitted by an abandoned offer stays.
OrphanedNever(x, c) == FALSE

\* A remote client that no session can own.
Orphaned(x, c) == c \in Remote /\ ~Live(x.state)

\* ClientSetupComplete, then note_client_established.
ClientSetupComplete(c) ==
    /\ Running /\ setup[c] = "authorized"
    /\ setup' = [setup EXCEPT ![c] = "over"]
    /\ LET x == OpenDisplay(d, c) IN
       /\ Fed(x)
       /\ IF Orphaned(x, c)
          THEN /\ trigger' = Drained(clients)
               /\ UNCHANGED clients
          ELSE /\ clients' = clients \cup {c}
               /\ trigger' = "armed"
    /\ at' = "dispatch"
    /\ UNCHANGED <<mode, once, net, answers, admitted>>

\* disconnect_with_pending_cleanup
Disconnect(c) ==
    /\ Running /\ c \in clients
    /\ clients' = clients \ {c}
    /\ trigger' = Drained(clients \ {c})
    /\ at' = "dispatch"
    /\ UNCHANGED <<mode, once, d, setup, sent, net, answers, admitted>>

\* The generation boundary: clients, handshakes and the credential of the old
\* session are no more, and the machine starts over.
Boundary(x) ==
    /\ Fed(Start([x EXCEPT !.cookie = None]))
    /\ clients' = {}
    /\ setup' = [c \in Client |-> IF setup[c] = "none" THEN "none" ELSE "over"]
    /\ trigger' = "idle"
    /\ at' = "poll"

\* Mutant: the tail does not look for the session client.
DepartureUnnoticed(x) == x

\* The recorded session client has left the table of clients.
Departure(x) ==
    IF Live(x.state) /\ x.client \notin clients THEN CloseDisplay(x, x.client) ELSE x

\* The tail: a due timer, the departure of the session client, the outcome,
\* and the reset trigger.
Tail(due) ==
    /\ Running
    /\ due => d.armed
    /\ UNCHANGED <<mode, once, net, answers, admitted>>
    /\ LET y == Departure(IF due THEN TimerExpired([d EXCEPT !.armed = FALSE]) ELSE d)
           x == [y EXCEPT !.outcome = "none"]
       IN  IF y.outcome = "terminate" \/ (trigger = "drained" /\ once /\ y.outcome # "reset")
           THEN /\ Fed(x)
                /\ at' = "exit"
                /\ UNCHANGED <<trigger, clients, setup>>
           ELSE IF y.outcome = "reset" \/ trigger = "drained"
           THEN Boundary(x)
           ELSE /\ Fed(x)
                /\ at' = "poll"
                /\ UNCHANGED <<trigger, clients, setup>>

-----------------------------------------------------------------------------
(* The manager and the setup threads.                                      *)

Answer(kind, sid, flag) == [kind |-> kind, sid |-> sid, running |-> flag, configured |-> flag]

\* What a manager may answer to packet p.
AnswersTo(p) ==
    IF p.kind = "Query"
    THEN {Answer("Willing", None, TRUE)} \cup {Answer("Unwilling", None, f) : f \in BOOLEAN}
    ELSE IF p.kind = "StartConnection"
    THEN {Answer("Accept", s, TRUE) : s \in 1 .. MaxOffer}
            \cup {Answer(k, None, TRUE) : k \in {"AcceptAuthenticated", "Decline"}}
    ELSE IF p.kind = "Manage"
    THEN {Answer(k, p.sid, TRUE) : k \in {"Refuse", "Failed"}}
    ELSE {Answer("Alive", p.sid, f) : f \in BOOLEAN}

ManagerAnswers ==
    /\ Running /\ answers < MaxAnswers
    /\ \E p \in sent : \E a \in AnswersTo(p) : net' = net \cup {a}
    /\ answers' = answers + 1
    /\ UNCHANGED <<mode, once, d, at, trigger, clients, setup, sent, admitted>>

\* A connection is accepted, its handshake bound to this generation; a local
\* one is admitted without the session cookie.
Connect(c) ==
    /\ Running /\ setup[c] = "none"
    /\ setup' = [setup EXCEPT ![c] = IF c \in Local THEN "authorized" ELSE "checking"]
    /\ UNCHANGED <<mode, once, d, at, trigger, clients, sent, net, answers, admitted>>

\* AuthState::check: over TCP only the session cookie admits.
Check(c) ==
    /\ Running /\ setup[c] = "checking"
    /\ setup' = [setup EXCEPT ![c] = IF d.cookie # None THEN "authorized" ELSE "over"]
    /\ admitted' = [admitted EXCEPT ![c] = d.cookie]
    /\ UNCHANGED <<mode, once, d, at, trigger, clients, sent, net, answers>>

-----------------------------------------------------------------------------
Next ==
    \/ \E a \in net : Receive(a)
    \/ ReceiveUnusableAccept
    \/ \E c \in Client : ClientSetupComplete(c) \/ Disconnect(c) \/ Connect(c) \/ Check(c)
    \/ \E due \in BOOLEAN : Tail(due)
    \/ ManagerAnswers

Spec == Init /\ [][Next]_vars

\* An armed timer comes due, and the loop gets to its tail.
Fairness == WF_vars(Tail(TRUE)) /\ WF_vars(Tail(FALSE))

FairSpec == Spec /\ Fairness

-----------------------------------------------------------------------------
(* Properties.                                                             *)

States ==
    DOMAIN Outstanding \cup {Outstanding[s] : s \in DOMAIN Outstanding} \cup {"RunSession", "Off"}

\* Type invariant of the machine and the service.
TypeOK ==
    /\ mode \in Modes /\ once \in BOOLEAN
    /\ d.state \in States
    /\ d.sid \in 0 .. MaxOffer /\ d.cookie \in 0 .. MaxOffer
    /\ d.rtx \in 0 .. RtxLimit /\ (d.state # "Off" => d.rtx < RtxLimit)
    /\ d.client \in Client \cup {None}
    /\ d.armed \in BOOLEAN /\ d.out = {}
    /\ d.outcome \in {"none", "reset", "terminate"}
    /\ at \in {"poll", "dispatch", "exit"}
    /\ trigger \in {"idle", "armed", "drained"}
    /\ clients \subseteq Client
    /\ setup \in [Client -> {"none", "checking", "authorized", "over"}]
    /\ admitted \in [Client -> 0 .. MaxOffer]

\* Between two iterations the session cookie is installed exactly while the
\* accepted offer stands, and is the cookie of that offer: a refused offer, a
\* session that died and a new generation leave none behind, and no late
\* answer takes it from a running session (recv_accept, recv_refuse,
\* install_session_cookie, clear_session_cookie).
CookieOfOffer ==
    at = "poll" =>
        d.cookie = IF Live(d.state) \/ d.state = "AwaitManageResponse" THEN d.sid ELSE None

\* Between two iterations a remote client is connected only while a session
\* is live: a client whose offer was abandoned while its setup went on is
\* dropped, unless another offer is standing by then, and a session that ends
\* takes its clients along (note_client_established).  That the session is the
\* one whose cookie admitted the client is more, and not so: OwnOfferOnly.
RemoteInSession == at = "poll" /\ clients \cap Remote # {} => Live(d.state)

\* What the design promises, "a session's cookie authorizes only that session":
\* the remote clients of a session were admitted by its own offer's cookie
\* (recv_refuse, open_display, note_client_established).
OwnOfferOnly == at = "poll" => \A c \in clients \cap Remote : admitted[c] = d.sid

\* Between two iterations a live session has its session client connected:
\* its departure is never missed, whatever else the iteration did
\* (live_session_client, close_display).
SessionHasClient == at = "poll" /\ Live(d.state) => d.client \in clients

\* The loop never polls without an armed timer, so that a lost packet, an
\* unusable answer or a spent timer cannot leave the display waiting for ever.
TimerArmed == at = "poll" => d.armed /\ d.state \in Collecting \cup
    {"AwaitRequestResponse", "AwaitManageResponse", "RunSession", "AwaitAliveResponse"}

\* Under -once the server ends, whatever the manager does not answer or
\* answers uselessly for ever (timeout, accept_for_state).
OnceEnds == once ~> at = "exit"

\* A session that began without a retransmission of Manage, or has had an
\* Alive, is given up for want of the next Alive after exactly XDM_KA_RTX_LIMIT
\* KeepAlives, and no session after more: late and repeated answers, and the
\* dormancy timers in between, neither shorten nor lengthen the count (timeout,
\* recv_alive, open_display).
KeepAlivesCounted ==
    /\ d.lost.n <= KaRtxLimit
    /\ d.lost.carried = 0 => d.lost.n = KaRtxLimit

\* What RenewCause::KeepAliveTimedOut is said to mean: XDM_KA_RTX_LIMIT
\* KeepAlives went unanswered.  The retransmissions of Manage that open_display
\* leaves in the retry count are none (open_display, timeout).
KeepAlivesUnanswered == d.lost.n >= KaRtxLimit
=============================================================================
