----------------------------- MODULE XiConfigLane -----------------------------
(***************************************************************************)
(* Device configuration writes of clients (run.rs, XiConfigLane) and the   *)
(* input thread that applies them (input_thread.rs).                       *)
(*                                                                         *)
(* A recognised property write blocks its client, waits its turn in one    *)
(* global lane and is submitted to the input thread, which owns the device *)
(* handle; its result comes back through the core channel.  A client may   *)
(* leave, the session may be reset, the device may be suspended, or a VT   *)
(* release may give up waiting, all while the write is somewhere on its    *)
(* way.  A VT release pauses the input thread and waits for the            *)
(* acknowledgement for a bounded time; a write it gives up on is cancelled *)
(* and remembered, for it may have been applied all the same.              *)
(*                                                                         *)
(* One input source, one setting.  A client's numbering is never reused,   *)
(* so a client belongs to one generation.  There may be clients that ask   *)
(* for no configuration; of them only that they kill others is modelled.   *)
(***************************************************************************)
EXTENDS Naturals, Sequences, FiniteSetsExt

CONSTANTS
    Client,         \* clients, each connecting at most once
    Value,          \* values of the setting
    Bad,            \* a value that validate_xi_change refuses
    NoClient,       \* in_flight.protocol = None
    MaxAsked,       \* bound: requests of all clients
    MaxRelease,     \* bound: VT releases
    MaxReset        \* bound: session resets

ASSUME LaneAssumption ==
    /\ Value # {} /\ Bad \notin Value /\ NoClient \notin Client
    /\ MaxAsked \in Nat /\ MaxRelease \in Nat /\ MaxReset \in Nat

VARIABLES
    \* the core
    clients,        \* connected clients
    left,           \* clients that are no more
    killed,         \* those of them a KillClient removed, not yet reported by their readers
    blocked,        \* PendingBackendRequests::xi_config_clients
    queued,         \* XiConfigLane::queued
    inFlight,       \* XiConfigLane::in_flight, at most one, as a set
    timedOut,       \* XiConfigLane::timed_out
    rejecting,      \* reject_unsubmitted_for_vt_release
    config,         \* the confirmed value: InputInventory and the XI registry
    enabled,        \* the source has an enabled facet
    phase,          \* "run", or "barrier" inside a VT release
    vt,             \* "here" or "away"
    releases, resets, nextToken,
    \* the core channel
    channel,        \* messages of the input thread to the core
    deferred,       \* messages the VT barrier put aside
    \* InputThreadControl
    commands, configs, efd, cancelled,
    \* the input thread
    thread,         \* where its loop is
    wakeCommands,   \* the commands of this wake-up
    wakeConfigs,    \* the writes of this wake-up
    paused,         \* it has been paused
    bound,          \* the device handle is live
    device,         \* the value libinput holds for the device
    \* history
    asked, answered,\* [c]: requests dispatched, requests that got an outcome
    putAside        \* a VT barrier has put a resumption of the device aside

lane == <<blocked, queued, inFlight, timedOut, rejecting>>
core == <<clients, left, killed, config, enabled>>
switch == <<phase, vt, releases, resets, deferred>>
control == <<commands, configs, efd, cancelled, nextToken>>
input == <<thread, wakeCommands, wakeConfigs, paused, bound, device>>
history == <<asked, answered, putAside>>
vars == <<lane, core, switch, control, channel, input, history>>

-----------------------------------------------------------------------------
Init ==
    /\ clients = {} /\ left = {} /\ killed = {}
    /\ blocked = {} /\ queued = <<>> /\ inFlight = {} /\ timedOut = {}
    /\ rejecting = FALSE
    /\ device \in Value
    /\ config = device
    /\ enabled = TRUE
    /\ phase = "run" /\ vt = "here"
    /\ releases = 0 /\ resets = 0 /\ nextToken = 1
    /\ channel = <<>> /\ deferred = <<>>
    /\ commands = <<>> /\ configs = <<>> /\ efd = FALSE /\ cancelled = {}
    /\ thread = "wait" /\ wakeCommands = <<>> /\ wakeConfigs = <<>>
    /\ paused = FALSE /\ bound = TRUE
    /\ asked = [c \in Client |-> 0]
    /\ answered = [c \in Client |-> 0]
    /\ putAside = FALSE

-----------------------------------------------------------------------------
(* The lane.                                                               *)

Asking(c, v) == [client |-> c, value |-> v]

ClientsOf(q) == {q[i].client : i \in DOMAIN q}

\* One outcome more for each of the clients in C.
Outcome(C) == [c \in Client |-> answered[c] + (IF c \in C THEN 1 ELSE 0)]

\* Mutant: requests are submitted without validation.
DriveUnvalidated(q, done) ==
    /\ queued' = IF q = <<>> THEN <<>> ELSE Tail(q)
    /\ answered' = Outcome(done \cap clients)
    /\ blocked' = (blocked \cup ClientsOf(q)) \ done
    /\ IF q = <<>>
       THEN inFlight' = {} /\ UNCHANGED control
       ELSE /\ inFlight' = {[token |-> nextToken, value |-> Head(q).value,
                             protocol |-> Head(q).client]}
            /\ configs' = Append(configs, [token |-> nextToken, value |-> Head(q).value])
            /\ efd' = TRUE
            /\ nextToken' = nextToken + 1
            /\ UNCHANGED <<commands, cancelled>>

\* The client is connected, and validate_xi_change accepts the request.
Submittable(request) == request.client \in clients /\ request.value # Bad

\* drive_xi_config_lane over the queue q while nothing is in flight: requests
\* of clients that are gone are dropped, requests that validation refuses are
\* answered, the first good one, the k-th, is submitted.  `done` are the
\* clients whose request has just been answered.
Drive(q, done) ==
    \E k \in 1 .. Len(q) + 1 :
        /\ \A i \in 1 .. (k - 1) : ~Submittable(q[i])
        /\ k <= Len(q) => Submittable(q[k])
        /\ LET refused == ClientsOf(SubSeq(q, 1, k - 1))
           IN  /\ queued' = SubSeq(q, k + 1, Len(q))
               /\ answered' = Outcome((done \cup refused) \cap clients)
               /\ blocked' = (blocked \cup ClientsOf(q)) \ (done \cup refused)
        /\ IF k > Len(q)
           THEN inFlight' = {} /\ UNCHANGED control
           ELSE /\ inFlight' = {[token |-> nextToken, value |-> q[k].value,
                                 protocol |-> q[k].client]}
                /\ configs' = Append(configs, [token |-> nextToken, value |-> q[k].value])
                /\ efd' = TRUE
                /\ nextToken' = nextToken + 1
                /\ UNCHANGED <<commands, cancelled>>

\* route_pending_xi_config for a request of a client that is not blocked.
RoutePendingXiConfig(c, v) ==
    /\ c \in clients /\ c \notin blocked
    /\ MapThenSumSet(LAMBDA d : asked[d], Client) < MaxAsked
    /\ asked' = [asked EXCEPT ![c] = @ + 1]
    /\ IF rejecting \/ ~enabled
       THEN /\ answered' = Outcome({c})
            /\ UNCHANGED <<blocked, queued, inFlight, control>>
       ELSE IF inFlight # {}
       THEN /\ queued' = Append(queued, Asking(c, v))
            /\ blocked' = blocked \cup {c}
            /\ UNCHANGED <<inFlight, control, answered>>
       ELSE Drive(Append(queued, Asking(c, v)), {})
    /\ UNCHANGED <<timedOut, rejecting, core, switch, channel, input, putAside>>

Protocols(F) == {f.protocol : f \in F} \ {NoClient}

\* Mutant: a late result of a cancelled write is not applied.
FinishIgnoringLate(m) ==
    LET mine == {f \in inFlight : f.token = m.token}
        late == {t \in timedOut : t.token = m.token}
    IN  /\ IF m.ok /\ mine # {}
           THEN config' = (CHOOSE f \in mine : TRUE).value
           ELSE UNCHANGED config
        /\ timedOut' = timedOut \ late
        /\ IF mine # {} \/ (late # {} /\ inFlight = {})
           THEN Drive(queued, Protocols(mine) \cap clients)
           ELSE UNCHANGED <<blocked, queued, inFlight, control, answered>>
        /\ UNCHANGED <<rejecting, clients, left, killed, enabled, asked, putAside>>

\* Mutant: the lane does not move on after a result.
FinishWithoutDriving(m) ==
    LET mine == {f \in inFlight : f.token = m.token}
        late == {t \in timedOut : t.token = m.token}
    IN  /\ IF m.ok /\ mine \cup late # {}
           THEN config' = (CHOOSE f \in mine \cup late : TRUE).value
           ELSE UNCHANGED config
        /\ timedOut' = IF mine = {} THEN timedOut \ late ELSE timedOut
        /\ inFlight' = inFlight \ mine
        /\ answered' = Outcome(Protocols(mine) \cap clients)
        /\ blocked' = blocked \ (Protocols(mine) \cap clients)
        /\ UNCHANGED <<queued, control, rejecting, clients, left, killed, enabled, asked, putAside>>

\* finish_xi_config_result: the result of the submitted write, or a late one
\* of a write a VT release gave up on; any other is discarded.  Only a client
\* that is connected is answered and unblocked.
FinishXiConfigResult(m) ==
    LET mine == {f \in inFlight : f.token = m.token}
        late == {t \in timedOut : t.token = m.token}
    IN  /\ IF m.ok /\ mine \cup late # {}
           THEN config' = (CHOOSE f \in mine \cup late : TRUE).value
           ELSE UNCHANGED config
        /\ timedOut' = IF mine = {} THEN timedOut \ late ELSE timedOut
        /\ IF mine # {} \/ (late # {} /\ inFlight = {})
           THEN Drive(queued, Protocols(mine) \cap clients)
           ELSE UNCHANGED <<blocked, queued, inFlight, control, answered>>
        /\ UNCHANGED <<rejecting, clients, left, killed, enabled, asked, putAside>>

-----------------------------------------------------------------------------
(* Messages of the input thread, outside and inside the VT barrier.        *)

\* cancel_queued_xi_configs_for_source, and the failing of unsubmitted
\* requests when a VT release starts.
FailQueued ==
    /\ answered' = Outcome(ClientsOf(queued) \cap clients)
    /\ blocked' = blocked \ ClientsOf(queued)
    /\ queued' = <<>>

\* Message::DeviceConfigResult
DeviceConfigResult ==
    /\ channel # <<>> /\ Head(channel).kind = "result"
    /\ FinishXiConfigResult(Head(channel))
    /\ channel' = Tail(channel)
    /\ UNCHANGED <<switch, input>>

\* HostInput(DeviceSuspended)
DeviceSuspended ==
    /\ phase = "run"
    /\ channel # <<>> /\ Head(channel).kind = "suspended"
    /\ enabled' = FALSE
    /\ FailQueued
    /\ channel' = Tail(channel)
    /\ UNCHANGED <<inFlight, timedOut, rejecting, clients, left, killed, config, switch, control,
                   input, asked, putAside>>

\* HostInput(DeviceResumed), with the settings libinput restored
DeviceResumed ==
    /\ phase = "run"
    /\ channel # <<>> /\ Head(channel).kind = "resumed"
    /\ enabled' = TRUE
    /\ config' = Head(channel).value
    /\ channel' = Tail(channel)
    /\ UNCHANGED <<lane, clients, left, killed, switch, control, input, history>>

\* An acknowledgement nobody waits for any more.
StaleInputPaused ==
    /\ phase = "run"
    /\ channel # <<>> /\ Head(channel).kind = "paused"
    /\ channel' = Tail(channel)
    /\ UNCHANGED <<lane, core, switch, control, input, history>>

-----------------------------------------------------------------------------
(* VT release: the barrier, and acquire.                                   *)

VtRelease ==
    /\ phase = "run" /\ vt = "here" /\ releases < MaxRelease
    /\ FailQueued
    /\ rejecting' = TRUE
    /\ commands' = Append(commands, "pause")
    /\ efd' = TRUE
    /\ phase' = "barrier"
    /\ releases' = releases + 1
    /\ UNCHANGED <<inFlight, timedOut, core, vt, resets, deferred, configs, cancelled,
                   nextToken, channel, input, asked, putAside>>

\* The barrier puts aside whatever is neither a result nor the acknowledgement.
BarrierDefers ==
    /\ phase = "barrier"
    /\ channel # <<>> /\ Head(channel).kind \in {"suspended", "resumed"}
    /\ deferred' = Append(deferred, Head(channel))
    /\ putAside' = (putAside \/ Head(channel).kind = "resumed")
    /\ channel' = Tail(channel)
    /\ UNCHANGED <<lane, core, phase, vt, releases, resets, control, input, asked, answered>>

\* Mutant: the cancelled write is forgotten.
FailInFlightForgetting ==
    /\ cancelled' = cancelled \cup {f.token : f \in inFlight}
    /\ answered' = Outcome(Protocols(inFlight) \cap clients)
    /\ blocked' = blocked \ Protocols(inFlight)
    /\ inFlight' = {}
    /\ UNCHANGED timedOut

\* fail_in_flight_xi_config_for_vt_release
FailInFlight ==
    /\ cancelled' = cancelled \cup {f.token : f \in inFlight}
    /\ timedOut' = timedOut \cup {[token |-> f.token, value |-> f.value] : f \in inFlight}
    /\ answered' = Outcome(Protocols(inFlight) \cap clients)
    /\ blocked' = blocked \ Protocols(inFlight)
    /\ inFlight' = {}

\* The messages put aside follow what is left of the batch that was being
\* dispatched, some prefix of the channel.
EndBarrier(rest) ==
    /\ phase' = "run"
    /\ vt' = "away"
    /\ \E j \in 0 .. Len(rest) :
          channel' = SubSeq(rest, 1, j) \o deferred \o SubSeq(rest, j + 1, Len(rest))
    /\ deferred' = <<>>
    /\ FailInFlight
    /\ rejecting' = FALSE
    /\ enabled' = FALSE
    /\ UNCHANGED <<queued, clients, left, killed, config, releases, resets, commands, configs, efd,
                   nextToken, input, asked, putAside>>

BarrierAcknowledged ==
    /\ phase = "barrier"
    /\ channel # <<>> /\ Head(channel).kind = "paused"
    /\ EndBarrier(Tail(channel))

BarrierTimesOut ==
    /\ phase = "barrier"
    /\ EndBarrier(channel)

VtAcquire ==
    /\ phase = "run" /\ vt = "away"
    /\ vt' = "here"
    /\ commands' = Append(commands, "resume")
    /\ efd' = TRUE
    /\ UNCHANGED <<lane, core, phase, releases, resets, deferred, configs, cancelled,
                   nextToken, channel, input, history>>

-----------------------------------------------------------------------------
(* Clients and sessions.                                                   *)

Connect(c) ==
    /\ phase = "run"
    /\ c \notin clients \cup left
    /\ clients' = clients \cup {c}
    /\ UNCHANGED <<lane, left, killed, config, enabled, switch, control, channel, input, history>>

\* What retain leaves of q without the requests of c: the n-th of them has n
\* kept ones up to itself.
Without(q, c) ==
    LET kept == {i \in DOMAIN q : q[i].client # c}
    IN  [n \in 1 .. Cardinality(kept) |->
            q[CHOOSE i \in kept : Cardinality({j \in kept : j <= i}) = n]]

WithoutProtocol(F) == {[f EXCEPT !.protocol = NoClient] : f \in F}

\* Mutant: the submitted write of a client that left is still its own.
DisconnectKeepingProtocol(c) ==
    /\ c \in clients
    /\ clients' = clients \ {c}
    /\ left' = left \cup {c}
    /\ queued' = Without(queued, c)
    /\ blocked' = blocked \ {c}
    /\ UNCHANGED <<inFlight, timedOut, rejecting, killed, config, enabled, switch, control,
                   channel, input, history>>

\* The cleanup of disconnect_with_pending_cleanup.
PendingCleanup(c) ==
    /\ queued' = Without(queued, c)
    /\ inFlight' = IF c \in Protocols(inFlight) THEN WithoutProtocol(inFlight) ELSE inFlight
    /\ blocked' = blocked \ {c}
    /\ UNCHANGED <<timedOut, rejecting>>

\* disconnect_with_pending_cleanup of a connected client, on whichever path.
Disconnect(c) ==
    /\ c \in clients
    /\ clients' = clients \ {c}
    /\ left' = left \cup {c}
    /\ PendingCleanup(c)
    /\ UNCHANGED <<killed, config, enabled, switch, control, channel, input, history>>

\* KillClient by another client calls process_disconnect and nothing else:
\* the request of c keeps its place in the lane, and c stays blocked.
KillClient(c) ==
    /\ c \in clients
    /\ clients' = clients \ {c}
    /\ left' = left \cup {c}
    /\ killed' = killed \cup {c}
    /\ UNCHANGED <<lane, config, enabled, switch, control, channel, input, history>>

\* ... until the reader thread of c reports the end of its connection.  It need
\* not: a reader that finds Shutdown among its controls ends without a word.
ClientDisconnected(c) ==
    /\ phase = "run"
    /\ c \in killed
    /\ killed' = killed \ {c}
    /\ PendingCleanup(c)
    /\ UNCHANGED <<clients, left, config, enabled, switch, control, channel, input, history>>

\* cancel_unsubmitted_xi_configs and the generation boundary: the submitted
\* write keeps its place in the lane, and no reader of the old generation is
\* heard any more.
Reset ==
    /\ phase = "run" /\ resets < MaxReset
    /\ resets' = resets + 1
    /\ left' = left \cup clients
    /\ clients' = {} /\ killed' = {}
    /\ queued' = <<>>
    /\ blocked' = {}
    /\ inFlight' = WithoutProtocol(inFlight)
    /\ UNCHANGED <<timedOut, rejecting, config, enabled, phase, vt, releases, deferred, control,
                   channel, input, history>>

-----------------------------------------------------------------------------
(* The input thread: one wake-up.                                          *)

\* InputThreadControl::drain
ThreadDrain ==
    /\ thread = "wait" /\ efd
    /\ efd' = FALSE
    /\ wakeCommands' = commands
    /\ commands' = <<>>
    /\ thread' = "take"
    /\ UNCHANGED <<lane, core, switch, configs, cancelled, nextToken, channel, wakeConfigs,
                   paused, bound, device, history>>

\* InputThreadControl::take_configs
ThreadTake ==
    /\ thread = "take"
    /\ wakeConfigs' = configs
    /\ configs' = <<>>
    /\ thread' = "check"
    /\ UNCHANGED <<lane, core, switch, commands, efd, cancelled, nextToken, channel,
                   wakeCommands, paused, bound, device, history>>

SendResult(ok) ==
    channel' = Append(channel, [kind |-> "result", token |-> Head(wakeConfigs).token, ok |-> ok])

\* process_config_commands: the cancellation check
ThreadCheck ==
    /\ thread = "check" /\ wakeConfigs # <<>>
    /\ IF Head(wakeConfigs).token \in cancelled
       THEN SendResult(FALSE) /\ wakeConfigs' = Tail(wakeConfigs) /\ UNCHANGED thread
       ELSE thread' = "apply" /\ UNCHANGED <<channel, wakeConfigs>>
    /\ UNCHANGED <<lane, core, switch, control, wakeCommands, paused, bound, device, history>>

\* apply_device_config: libinput takes the value, refuses it, or the source
\* has no live handle.
ThreadApply ==
    /\ thread = "apply"
    /\ \/ bound /\ device' = Head(wakeConfigs).value /\ SendResult(TRUE)
       \/ UNCHANGED device /\ SendResult(FALSE)
    /\ wakeConfigs' = Tail(wakeConfigs)
    /\ thread' = "check"
    /\ UNCHANGED <<lane, core, switch, control, wakeCommands, paused, bound, history>>

\* The pause is acknowledged whether or not it changed anything.
ThreadPause ==
    /\ thread = "check" /\ wakeConfigs = <<>>
    /\ wakeCommands # <<>> /\ Head(wakeCommands) = "pause"
    /\ channel' = channel \o (IF ~paused /\ bound THEN <<[kind |-> "suspended"]>> ELSE <<>>)
                          \o <<[kind |-> "paused"]>>
    /\ bound' = IF paused THEN bound ELSE FALSE
    /\ paused' = TRUE
    /\ wakeCommands' = Tail(wakeCommands)
    /\ UNCHANGED <<lane, core, switch, control, thread, wakeConfigs, device, history>>

\* The resumed device has the settings that could be restored; libinput may
\* also fail to resume.
ThreadResume ==
    /\ thread = "check" /\ wakeConfigs = <<>>
    /\ wakeCommands # <<>> /\ Head(wakeCommands) = "resume"
    /\ wakeCommands' = Tail(wakeCommands)
    /\ \/ /\ paused
          /\ paused' = FALSE /\ bound' = TRUE
          /\ device' \in Value
          /\ channel' = Append(channel, [kind |-> "resumed", value |-> device'])
       \/ UNCHANGED <<paused, bound, device, channel>>
    /\ UNCHANGED <<lane, core, switch, control, thread, wakeConfigs, history>>

ThreadWait ==
    /\ thread = "check" /\ wakeConfigs = <<>> /\ wakeCommands = <<>>
    /\ thread' = "wait"
    /\ UNCHANGED <<lane, core, switch, control, channel, wakeCommands, wakeConfigs, paused,
                   bound, device, history>>

-----------------------------------------------------------------------------
InputThread ==
    \/ ThreadDrain \/ ThreadTake \/ ThreadCheck \/ ThreadApply
    \/ ThreadPause \/ ThreadResume \/ ThreadWait

CoreReceives ==
    \/ DeviceConfigResult \/ DeviceSuspended \/ DeviceResumed \/ StaleInputPaused
    \/ BarrierDefers \/ BarrierAcknowledged

Next ==
    \/ InputThread \/ CoreReceives
    \/ VtRelease \/ BarrierTimesOut \/ VtAcquire
    \/ Reset
    \/ \E c \in Client :
          \/ Connect(c) \/ Disconnect(c) \/ KillClient(c) \/ ClientDisconnected(c)
          \/ \E v \in Value \cup {Bad} : RoutePendingXiConfig(c, v)

Spec == Init /\ [][Next]_vars

\* The input thread and the core loop run on; the barrier has a deadline.
\* Requests, VT switches, resets and disconnects need not happen.
Fairness == WF_vars(InputThread) /\ WF_vars(CoreReceives) /\ WF_vars(BarrierTimesOut)

FairSpec == Spec /\ Fairness

-----------------------------------------------------------------------------
(* Properties.                                                             *)

Writes == [token : Nat, value : Value]

InputMessages ==
    [kind : {"suspended", "paused"}] \cup [kind : {"resumed"}, value : Value]
        \cup [kind : {"result"}, token : Nat, ok : BOOLEAN]

\* Type invariant of the lane and the input thread.
TypeOK ==
    /\ clients \subseteq Client /\ left \subseteq Client /\ killed \subseteq left
    /\ blocked \subseteq Client
    /\ queued \in Seq([client : Client, value : Value \cup {Bad}])
    /\ inFlight \subseteq [token : Nat, value : Value, protocol : Client \cup {NoClient}]
    /\ \A f, g \in inFlight : f = g
    /\ timedOut \subseteq Writes
    /\ rejecting \in BOOLEAN /\ enabled \in BOOLEAN /\ efd \in BOOLEAN
    /\ paused \in BOOLEAN /\ bound \in BOOLEAN
    /\ config \in Value /\ device \in Value
    /\ phase \in {"run", "barrier"} /\ vt \in {"here", "away"}
    /\ thread \in {"wait", "take", "check", "apply"}
    /\ releases \in Nat /\ resets \in Nat /\ nextToken \in Nat /\ cancelled \subseteq Nat
    /\ channel \in Seq(InputMessages) /\ deferred \in Seq(InputMessages)
    /\ configs \in Seq(Writes) /\ wakeConfigs \in Seq(Writes)
    /\ commands \in Seq({"pause", "resume"}) /\ wakeCommands \in Seq({"pause", "resume"})
    /\ asked \in [Client -> Nat] /\ answered \in [Client -> Nat] /\ putAside \in BOOLEAN

\* Every configuration request of a connected client gets exactly one
\* outcome: a client is blocked exactly while one request of it is queued or
\* submitted, and every other request it made has been answered once, however
\* results, VT releases, suspensions, resets and other clients' departures
\* fall in between (emit_xi_config_error, finish_xi_config_result,
\* disconnect_with_pending_cleanup, cancel_unsubmitted_xi_configs).  A client
\* that is gone is named by the lane only if a KillClient removed it and its
\* reader has not reported (process_disconnect, drive_xi_config_lane).
OneAnswer ==
    /\ ClientsOf(queued) \cup Protocols(inFlight) \subseteq blocked
    /\ blocked \subseteq clients \cup killed
    /\ blocked \cap clients \subseteq ClientsOf(queued) \cup Protocols(inFlight)
    /\ \A i, j \in DOMAIN queued : queued[i].client = queued[j].client => i = j
    /\ Protocols(inFlight) \cap ClientsOf(queued) = {}
    /\ \A c \in clients : asked[c] = answered[c] + (IF c \in blocked THEN 1 ELSE 0)

Answers == {i \in DOMAIN channel : channel[i].kind = "result"}

\* The writes the core remembers: submitted or given up.
Remembered == {f.token : f \in inFlight \cup timedOut}

\* Each write the lane submitted, or gave up on, is on its way exactly once
\* and in the order of submission, to the device (configs, wakeConfigs) or
\* back (results); and each result on its way meets a write that is
\* remembered: none is discarded as stale and no entry of timed_out stays
\* behind (finish_xi_config_result).
ResultsMatched ==
    /\ {channel[i].token : i \in Answers} \cup {wakeConfigs[i].token : i \in DOMAIN wakeConfigs}
           \cup {configs[i].token : i \in DOMAIN configs} = Remembered
    /\ \A i, j \in Answers : i < j => channel[i].token < channel[j].token
    /\ \A i, j \in DOMAIN wakeConfigs : i < j => wakeConfigs[i].token < wakeConfigs[j].token
    /\ \A i, j \in DOMAIN configs : i < j => configs[i].token < configs[j].token
    /\ \A i \in Answers, j \in DOMAIN wakeConfigs : channel[i].token < wakeConfigs[j].token
    /\ \A i \in Answers, j \in DOMAIN configs : channel[i].token < configs[j].token
    /\ \A i \in DOMAIN wakeConfigs, j \in DOMAIN configs : wakeConfigs[i].token < configs[j].token
    /\ \A f \in inFlight, t \in timedOut : f.token # t.token
    /\ \A t, u \in timedOut : t.token = u.token => t = u

Quiet ==
    /\ thread = "wait" /\ commands = <<>> /\ configs = <<>>
    /\ phase = "run"
    /\ \A i \in DOMAIN channel : channel[i].kind = "paused"

\* When nothing is on its way, a device with a live handle has an enabled facet
\* and the value clients read is the value it was last given: over VT switches
\* that time out, and messages a barrier put aside and dispatched behind
\* younger ones.  It is also the value of a suspended device, the write that
\* was applied although its VT release had given up on it included, unless a
\* barrier put a resumption aside, which may then be overtaken by the next
\* (fail_in_flight_xi_config_for_vt_release, apply_confirmed_xi_config).
ConfigAgrees ==
    Quiet => /\ bound => enabled
             /\ bound \/ ~putAside => config = device

\* A blocked client is not blocked for ever: its write is answered or it is
\* disconnected, whatever the input thread is doing, and whoever lies ahead
\* of it in the lane, a client that was killed included
\* (drive_xi_config_lane).
BlockedEnds ==
    \A c \in Client : c \in blocked \cap clients ~> (c \notin blocked \/ c \notin clients)
=============================================================================
