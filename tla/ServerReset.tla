------------------------------ MODULE ServerReset ------------------------------
(***************************************************************************)
(* The life of connections across server generations: accept, the setup    *)
(* thread's handshake and its rendezvous with the core (setup_thread.rs),  *)
(* registration, departure, and the reset boundary (reset.rs) that ends    *)
(* one session and starts the next in the same process.  Messages carry    *)
(* the generation of their connection (sender.rs), and the core discards   *)
(* those of an earlier one (generation.rs).                                *)
(*                                                                         *)
(* Of a request only what it does to connections is kept.  An iteration of *)
(* the loop is "events" (messages and requests), then "tail" (accept,      *)
(* failed writes, the boundary).                                           *)
(***************************************************************************)
EXTENDS Naturals, Sequences

LOCAL INSTANCE FiniteSets

CONSTANTS Conn,          \* ClientIds, each used for one connection
          Policy,        \* ResetPolicy
          Effects,       \* what requests do in this instance
          MaybeInternal, \* ClientIds the server may use for connections to itself
          MaxBase,       \* resource id bases that fit in 32 bits
          MaxGeneration  \* bound: resets

ASSUME ServerResetAssumption ==
    /\ Policy \in {"noreset", "reset", "terminate"}
    /\ Effects \subseteq {"other", "mode", "kill", "zombies", "quit"}
    /\ MaybeInternal \subseteq Conn
    /\ MaxBase \in Nat
    /\ MaxGeneration \in Nat

VARIABLES
    running, pc, generation,
    \* connections and their threads
    born,       \* the generation a connection was accepted in
    internal,   \* connections the server made to itself
    setup,      \* where the setup thread is
    base,       \* SetupAllocateResponse.resource_id_base, 0 if there is none
    registry,   \* SetupRegistry
    shut,       \* connections whose socket is shut down or closed here
    reader,     \* connections with a reader thread
    \* messages to the core
    channel,
    resetAsked, \* ResetRequested: SIGHUP, or the end of an XDMCP session
    \* ServerState and the loop's collections
    clients, retaining, zombies, queued,
    next, free, \* IdAllocator
    armed, forced, drained  \* ResetTrigger

threadVars  == <<born, internal, setup, reader>>
sessionVars == <<clients, retaining, zombies, next, free>>
triggerVars == <<armed, forced, drained>>
vars == <<running, pc, generation, threadVars, base, registry, shut, channel,
          resetAsked, sessionVars, queued, triggerVars>>

Message == [tag : Nat, what : {"allocate", "complete", "request", "gone"}]

TypeOK ==
    /\ running \in BOOLEAN
    /\ pc \in {"events", "tail"}
    /\ generation \in Nat
    /\ born \in [Conn -> Nat]
    /\ internal \subseteq Conn
    /\ setup \in [Conn -> {"none", "reading", "waiting", "writing", "sending",
                             "handed", "failed", "ended"}]
    /\ base \in [Conn -> 0..MaxBase]
    /\ registry \subseteq Conn
    /\ shut \subseteq Conn
    /\ reader \subseteq Conn
    /\ channel \in [Conn -> Seq(Message)]
    /\ resetAsked \in BOOLEAN
    /\ clients \subseteq Conn
    /\ retaining \subseteq clients
    /\ zombies \subseteq Conn
    /\ queued \subseteq Conn
    /\ next \in 1..(MaxBase + 1)
    /\ free \subseteq 1..MaxBase
    /\ armed \in BOOLEAN
    /\ forced \in BOOLEAN
    /\ drained \in {"none", "reset", "terminate"}

Init ==
    /\ running = TRUE
    /\ pc = "events"
    /\ generation = 0
    /\ born = [c \in Conn |-> 0]
    /\ internal = {}
    /\ setup = [c \in Conn |-> "none"]
    /\ base = [c \in Conn |-> 0]
    /\ registry = {}
    /\ shut = {}
    /\ reader = {}
    /\ channel = [c \in Conn |-> << >>]
    /\ resetAsked = FALSE
    /\ clients = {}
    /\ retaining = {}
    /\ zombies = {}
    /\ queued = {}
    /\ next = 1
    /\ free = {}
    /\ armed = FALSE
    /\ forced = FALSE
    /\ drained = "none"
-------------------------------------------------------------------------------
(***************************************************************************)
(* Setup and reader threads                                                *)
(***************************************************************************)

\* Mutant: the message is tagged when it is sent.
SendUnbound(c, what) ==
    channel' = [channel EXCEPT ![c] = Append(@, [tag |-> generation, what |-> what])]

\* BoundSender: the tag was fixed at accept.
Send(c, what) ==
    channel' = [channel EXCEPT ![c] = Append(@, [tag |-> born[c], what |-> what])]

\* The request is read and admitted; data that came before a shutdown of
\* the socket is still read after it.
SetupAllocate(c) ==
    /\ running
    /\ setup[c] = "reading"
    /\ setup' = [setup EXCEPT ![c] = "waiting"]
    /\ Send(c, "allocate")
    /\ UNCHANGED <<running, pc, generation, born, internal, reader, base, registry, shut,
                   resetAsked, sessionVars, queued, triggerVars>>

\* End of file, timeout, refused credentials, or a reply that cannot be
\* written.
SetupFails(c) ==
    /\ running
    /\ setup[c] \in {"reading", "writing"}
    /\ setup' = [setup EXCEPT ![c] = "failed"]
    /\ UNCHANGED <<running, pc, generation, born, internal, reader, base, registry, shut,
                   channel, resetAsked, sessionVars, queued, triggerVars>>

\* The reply can only be written to a socket that is open...
SetupWrites(c) ==
    /\ running
    /\ setup[c] = "writing"
    /\ c \notin shut
    /\ setup' = [setup EXCEPT ![c] = "sending"]
    /\ UNCHANGED <<running, pc, generation, born, internal, reader, base, registry, shut,
                   channel, resetAsked, sessionVars, queued, triggerVars>>

\* ... but the stream is handed to the core whatever happened since.
SetupComplete(c) ==
    /\ running
    /\ setup[c] = "sending"
    /\ setup' = [setup EXCEPT ![c] = "handed"]
    /\ Send(c, "complete")
    /\ UNCHANGED <<running, pc, generation, born, internal, reader, base, registry, shut,
                   resetAsked, sessionVars, queued, triggerVars>>

\* SetupGuard: the last thing a setup thread does; a stream that was not
\* handed over is closed.
SetupExit(c) ==
    /\ running
    /\ setup[c] \in {"handed", "failed"}
    /\ setup' = [setup EXCEPT ![c] = "ended"]
    /\ registry' = registry \ {c}
    /\ shut' = IF setup[c] = "failed" THEN shut \cup {c} ELSE shut
    /\ UNCHANGED <<running, pc, generation, born, internal, reader, base,
                   channel, resetAsked, sessionVars, queued, triggerVars>>

\* Bound: one request of a connection in the channel.
ReaderRequest(c) ==
    /\ running
    /\ c \in reader
    /\ Effects # {}
    /\ channel[c] = << >>
    /\ Send(c, "request")
    /\ UNCHANGED <<running, pc, generation, threadVars, base, registry, shut,
                   resetAsked, sessionVars, queued, triggerVars>>

\* The peer closed the connection, or the core shut it down.
ReaderEof(c) ==
    /\ running
    /\ c \in reader
    /\ reader' = reader \ {c}
    /\ Send(c, "gone")
    /\ UNCHANGED <<running, pc, generation, born, internal, setup, base, registry, shut,
                   resetAsked, sessionVars, queued, triggerVars>>

\* ReaderControl::Shutdown is seen first.
ReaderShutdown(c) ==
    /\ running
    /\ c \in reader \cap shut
    /\ reader' = reader \ {c}
    /\ UNCHANGED <<running, pc, generation, born, internal, setup, base, registry, shut,
                   channel, resetAsked, sessionVars, queued, triggerVars>>

ResetRequested ==
    /\ running
    /\ ~resetAsked
    /\ resetAsked' = TRUE
    /\ UNCHANGED <<running, pc, generation, threadVars, base, registry, shut, channel,
                   sessionVars, queued, triggerVars>>
-------------------------------------------------------------------------------
(***************************************************************************)
(* Shared by the core's handlers                                           *)
(***************************************************************************)

Counted(cs) == cs \ internal

\* note_client_departed, with what is connected now.
NoteClientDeparted(cs) ==
    /\ drained' = IF armed /\ Counted(cs) = {} /\ Policy # "noreset" THEN Policy ELSE drained
    /\ UNCHANGED <<armed, forced>>

\* Mutant: a base goes back although resources of the client stay.
ProcessDisconnectReleases(c) ==
    /\ clients' = clients \ {c}
    /\ retaining' = retaining \ {c}
    /\ zombies' = IF c \in retaining THEN zombies \cup {c} ELSE zombies
    /\ free' = IF c \in clients THEN free \cup {base[c]} ELSE free
    /\ shut' = IF c \in clients THEN shut \cup {c} ELSE shut
    /\ UNCHANGED next

\* process_disconnect: idempotent.  A client that asked to retain its
\* resources becomes a zombie and keeps its id base.
ProcessDisconnect(c) ==
    /\ clients' = clients \ {c}
    /\ retaining' = retaining \ {c}
    /\ zombies' = IF c \in retaining THEN zombies \cup {c} ELSE zombies
    /\ free' = IF c \in clients \ retaining THEN free \cup {base[c]} ELSE free
    /\ shut' = IF c \in clients THEN shut \cup {c} ELSE shut
    /\ UNCHANGED next

DisconnectWithPendingCleanup(c) ==
    /\ ProcessDisconnect(c)
    /\ NoteClientDeparted(clients')
-------------------------------------------------------------------------------
(***************************************************************************)
(* Messages                                                                *)
(***************************************************************************)

\* setup_thread::spawn registers the socket before the thread starts; when
\* the thread cannot be started the entry stays.
Spawn(c) ==
    /\ setup[c] = "none"
    /\ setup' \in {[setup EXCEPT ![c] = "reading"], [setup EXCEPT ![c] = "ended"]}
    /\ born' = [born EXCEPT ![c] = generation]
    /\ registry' = registry \cup {c}

Accept(c) ==
    /\ running
    /\ pc = "tail"
    /\ Spawn(c)
    /\ UNCHANGED <<running, pc, generation, internal, reader, base, shut, channel,
                   resetAsked, sessionVars, queued, triggerVars>>

\* Message::InternalClient
InternalClient(c) ==
    /\ c \in MaybeInternal
    /\ running
    /\ pc = "events"
    /\ Spawn(c)
    /\ internal' = internal \cup {c}
    /\ UNCHANGED <<running, pc, generation, reader, base, shut, channel,
                   resetAsked, sessionVars, queued, triggerVars>>

\* The next message of a connection, if it belongs to this session...
Taken(c, what) ==
    /\ running
    /\ pc = "events"
    /\ channel[c] # << >>
    /\ Head(channel[c]) = [tag |-> generation, what |-> what]
    /\ channel' = [channel EXCEPT ![c] = Tail(@)]

\* Mutant: the stream inside a discarded message is not closed.
DiscardKeepsStream(c) ==
    /\ running
    /\ pc = "events"
    /\ channel[c] # << >>
    /\ Head(channel[c]).tag # generation
    /\ channel' = [channel EXCEPT ![c] = Tail(@)]
    /\ UNCHANGED <<running, pc, generation, threadVars, base, registry, shut,
                   resetAsked, sessionVars, queued, triggerVars>>

\* ... or not: it is dropped, with what it holds.  A setup thread that
\* waits for an answer is not told: it has a sender of its own reply
\* channel.
Discard(c) ==
    /\ running
    /\ pc = "events"
    /\ channel[c] # << >>
    /\ Head(channel[c]).tag # generation
    /\ channel' = [channel EXCEPT ![c] = Tail(@)]
    /\ shut' = IF Head(channel[c]).what = "complete" THEN shut \cup {c} ELSE shut
    /\ UNCHANGED <<running, pc, generation, threadVars, base, registry,
                   resetAsked, sessionVars, queued, triggerVars>>

\* IdAllocator::allocate: the lowest base that came back, or a new one, or
\* none.
Allocate(b) ==
    \/ /\ free # {}
       /\ b \in free
       /\ \A a \in free : b <= a
       /\ free' = free \ {b}
       /\ UNCHANGED next
    \/ /\ free = {}
       /\ next <= MaxBase
       /\ b = next
       /\ next' = next + 1
       /\ UNCHANGED free
    \/ /\ free = {}
       /\ next > MaxBase
       /\ b = 0
       /\ UNCHANGED <<next, free>>

\* The answer is sent; the thread goes on to write its reply, or the
\* refusal.
HandleSetupAllocate(c) ==
    /\ Taken(c, "allocate")
    /\ \E b \in 0..MaxBase :
          /\ Allocate(b)
          /\ base' = [base EXCEPT ![c] = b]
          /\ setup' = [setup EXCEPT ![c] = IF b = 0 THEN "failed" ELSE "writing"]
    /\ UNCHANGED <<running, pc, generation, born, internal, reader, registry, shut,
                   resetAsked, clients, retaining, zombies, queued, triggerVars>>

\* handle_client_setup_complete, then note_client_established.
ClientEstablished(c) ==
    /\ Taken(c, "complete")
    /\ clients' = clients \cup {c}
    /\ registry' = registry \ {c}
    /\ reader' = reader \cup {c}
    /\ armed' = (armed \/ c \notin internal)
    /\ drained' = IF c \in internal THEN drained ELSE "none"
    /\ UNCHANGED <<running, pc, generation, born, internal, setup, base, shut, forced,
                   resetAsked, retaining, zombies, next, free, queued>>

\* The stream cannot be cloned: nothing was registered, so there is
\* nothing to take back.
ClientNotInserted(c) ==
    /\ Taken(c, "complete")
    /\ shut' = shut \cup {c}
    /\ NoteClientDeparted(clients)
    /\ UNCHANGED <<running, pc, generation, threadVars, base, registry,
                   resetAsked, sessionVars, queued>>

\* The reader cannot be started, or XDMCP refused the session meanwhile and
\* the reader runs already: the client is removed again without having
\* armed the trigger.
ClientDropped(c) ==
    /\ Taken(c, "complete")
    /\ registry' = registry \ {c}
    /\ \/ UNCHANGED reader
       \/ c \notin internal /\ reader' = reader \cup {c}
    /\ shut' = shut \cup {c}
    /\ free' = free \cup {base[c]}
    /\ NoteClientDeparted(clients)
    /\ UNCHANGED <<running, pc, generation, born, internal, setup, base,
                   resetAsked, clients, retaining, zombies, next, queued>>

ReceiveRequest(c) ==
    /\ Taken(c, "request")
    /\ queued' = queued \cup {c}
    /\ UNCHANGED <<running, pc, generation, threadVars, base, registry, shut,
                   resetAsked, sessionVars, triggerVars>>

ClientDisconnected(c) ==
    /\ Taken(c, "gone")
    /\ DisconnectWithPendingCleanup(c)
    /\ UNCHANGED <<running, pc, generation, threadVars, base, registry, resetAsked, queued>>

\* On the message, or in the tail when XDMCP asks.
NoteResetRequested ==
    /\ running
    /\ resetAsked
    /\ resetAsked' = FALSE
    /\ forced' = (forced \/ Policy # "noreset")
    /\ UNCHANGED <<running, pc, generation, threadVars, base, registry, shut, channel,
                   sessionVars, queued, armed, drained>>
-------------------------------------------------------------------------------
(***************************************************************************)
(* Requests                                                                *)
(***************************************************************************)

\* A queued request of c is taken; others of c may be behind it.
Popped(c) ==
    /\ running
    /\ pc = "events"
    /\ c \in queued
    /\ queued' \in {queued, queued \ {c}}
    /\ UNCHANGED <<running, pc, generation, threadVars, base, registry, channel, resetAsked>>

\* Nothing that matters here, or the client is gone.
HandleOther(c) ==
    /\ "other" \in Effects \/ c \notin clients
    /\ Popped(c)
    /\ UNCHANGED <<shut, sessionVars, triggerVars>>

\* Mutant: the mode is stored for a client that is gone, too.
HandleSetCloseDownModeGone(c) ==
    /\ "mode" \in Effects
    /\ Popped(c)
    /\ retaining' \in {retaining \cup {c}, retaining \ {c}}
    /\ UNCHANGED <<shut, clients, zombies, next, free, triggerVars>>

HandleSetCloseDownMode(c) ==
    /\ "mode" \in Effects
    /\ Popped(c)
    /\ c \in clients
    /\ retaining' \in {retaining \cup {c}, retaining \ {c}}
    /\ UNCHANGED <<shut, clients, zombies, next, free, triggerVars>>

\* Mutant: the trigger does not hear of a departure inside a handler.
HandleKillClientUnnoted(c) ==
    /\ "kill" \in Effects
    /\ Popped(c)
    /\ c \in clients
    /\ \E d \in clients \ {c} : ProcessDisconnect(d)
    /\ UNCHANGED triggerVars

\* KillClient on another connected client; process_one_request notes the
\* departure.
HandleKillClient(c) ==
    /\ "kill" \in Effects
    /\ Popped(c)
    /\ c \in clients
    /\ \E d \in clients \ {c} : ProcessDisconnect(d)
    /\ NoteClientDeparted(clients')

\* KillClient on a zombie's resource, or AllTemporary.
HandleKillZombies(c) ==
    /\ "zombies" \in Effects
    /\ Popped(c)
    /\ c \in clients
    /\ \E Z \in SUBSET zombies : zombies' = zombies \ Z
    /\ UNCHANGED <<shut, clients, retaining, next, free, triggerVars>>

\* RequestOutcome::Disconnect.
HandleQuit(c) ==
    /\ "quit" \in Effects
    /\ Popped(c)
    /\ c \in clients
    /\ DisconnectWithPendingCleanup(c)
-------------------------------------------------------------------------------
(***************************************************************************)
(* The end of an iteration                                                 *)
(***************************************************************************)

\* A failed write: the WRITABLE path in "events", settle in "tail".
WriteFails(c) ==
    /\ running
    /\ c \in clients
    /\ DisconnectWithPendingCleanup(c)
    /\ UNCHANGED <<running, pc, generation, threadVars, base, registry, channel,
                   resetAsked, queued>>

EndEvents ==
    /\ running
    /\ pc = "events"
    /\ pc' = "tail"
    /\ UNCHANGED <<running, generation, threadVars, base, registry, shut, channel,
                   resetAsked, sessionVars, queued, triggerVars>>

NothingPending ==
    /\ running
    /\ pc = "tail"
    /\ ~forced
    /\ drained = "none"
    /\ pc' = "events"
    /\ UNCHANGED <<running, generation, threadVars, base, registry, shut, channel,
                   resetAsked, sessionVars, queued, triggerVars>>

\* Mutant: handshakes under way are left alone.
ShutdownNobody(cs) == UNCHANGED registry /\ shut' = shut \cup cs

\* setup_thread::shutdown_all, and the sockets of the clients cs.
ShutdownAll(cs) ==
    /\ registry' = {}
    /\ shut' = shut \cup registry \cup cs

\* reset_generation, with the trigger's begin_generation.
ResetGeneration ==
    /\ running
    /\ pc = "tail"
    /\ forced \/ drained = "reset"
    /\ generation < MaxGeneration
    /\ generation' = generation + 1
    /\ ShutdownAll(clients)
    /\ clients' = {}
    /\ retaining' = {}
    /\ zombies' = {}
    /\ queued' = {}
    /\ next' = 1
    /\ free' = {}
    /\ armed' = FALSE
    /\ forced' = FALSE
    /\ drained' = "none"
    /\ pc' = "events"
    /\ UNCHANGED <<running, threadVars, base, channel, resetAsked>>

\* The loop returns.
Exit ==
    /\ running
    /\ running' = FALSE
    /\ ShutdownAll({})
    /\ UNCHANGED <<pc, generation, threadVars, base, channel, resetAsked,
                   sessionVars, queued, triggerVars>>

\* -terminate, or a boundary that refuses.
Terminate == pc = "tail" /\ (forced \/ drained # "none") /\ Exit

\* Message::Shutdown; in the tail a client's teardown that failed, or XDMCP.
Shutdown == Exit
-------------------------------------------------------------------------------
SetupStep(c) == SetupAllocate(c) \/ SetupFails(c) \/ SetupWrites(c) \/ SetupComplete(c) \/ SetupExit(c)

ReaderStep(c) == ReaderRequest(c) \/ ReaderEof(c) \/ ReaderShutdown(c)

ReceiveStep(c) ==
    \/ Discard(c) \/ HandleSetupAllocate(c)
    \/ ClientEstablished(c) \/ ClientNotInserted(c) \/ ClientDropped(c)
    \/ ReceiveRequest(c) \/ ClientDisconnected(c)

RequestStep(c) ==
    \/ HandleOther(c) \/ HandleSetCloseDownMode(c) \/ HandleKillClient(c)
    \/ HandleKillZombies(c) \/ HandleQuit(c)

LoopStep == EndEvents \/ NothingPending \/ ResetGeneration \/ Terminate

Next ==
    \/ LoopStep \/ Shutdown \/ ResetRequested \/ NoteResetRequested
    \/ \E c \in Conn :
          \/ SetupStep(c) \/ ReaderStep(c) \/ ReceiveStep(c) \/ RequestStep(c)
          \/ Accept(c) \/ InternalClient(c) \/ WriteFails(c)

Spec == Init /\ [][Next]_vars

\* The core takes every message of a batch, the old ones to discard them, and
\* reaches the end of each iteration.  Of the threads only those of sessions
\* that ended are asked for anything: a setup thread's reads and writes time
\* out, so it keeps moving where it can move at all, and a reader whose socket
\* is shut down sees that.  One condition is enough for all of them: each has
\* finitely many steps, so that none can go on for ever in another's place.
FairSpec ==
    /\ Spec
    /\ WF_vars(LoopStep)
    /\ WF_vars(\E c \in Conn : born[c] < generation /\ (SetupStep(c) \/ ReaderShutdown(c)))
    /\ SF_vars(\E c \in Conn : Discard(c))
-------------------------------------------------------------------------------
(***************************************************************************)
(* Properties                                                              *)
(***************************************************************************)

\* Everything the core keeps belongs to the session that is running: no
\* handshake, message or queued request of a session that ended adds a
\* client, a zombie or a request to the next one, however late its thread
\* wakes up.
OneSession == \A c \in clients \cup zombies \cup queued : born[c] = generation

\* A connection of this session that has been given an id base and may
\* still use it: it is connected, its resources are retained, or it is
\* between the core's answer and its registration.
Holds(c) ==
    /\ born[c] = generation
    /\ \/ c \in clients \cup zombies
       \/ setup[c] \in {"writing", "sending"}
       \/ \E i \in DOMAIN channel[c] : channel[c][i].what = "complete"

\* No two holders share an id base, and none is up for another allocation:
\* resource ids name one owner, across departures that retain resources,
\* handshakes under way and a reset that starts the allocator afresh.
BasesDistinct ==
    \A c \in Conn : Holds(c) =>
        /\ base[c] \in (1..(next - 1)) \ free
        /\ \A d \in Conn \ {c} : Holds(d) => base[d] # base[c]

\* The reset trigger fires exactly when a session that had a client has
\* none: neither a new client in the same iteration is thrown out by a
\* drain noted before it came, nor does a last departure go unnoticed,
\* whichever path it takes.
DrainExact ==
    Policy # "noreset" => (drained # "none" <=> armed /\ Counted(clients) = {})

\* When a session has ended, each of its sockets is shut down, or lies in a
\* message that will be discarded: no peer of the old session hangs.
OldSessionCut ==
    \A c \in Conn : setup[c] # "none" /\ born[c] < generation =>
        \/ c \in shut
        \/ \E i \in DOMAIN channel[c] : channel[c][i].what = "complete"

\* Connections of a session that ended whose socket is open or whose reader
\* thread runs.
Lingering ==
    {c \in Conn : setup[c] # "none" /\ born[c] < generation /\ ~(c \in shut /\ c \notin reader)}

\* Every connection of a session that ended is closed, and its reader thread
\* ends, if the server goes on running (no connection lingers twice, and there
\* are finitely many, so this is said of all of them at once).
OldConnectionsEnd == Lingering # {} ~> (~running \/ Lingering = {})

\* The same of its setup thread: the reset design demands that no trace of
\* a session is left, "in-flight setup handshakes" included.
OldSetupsEnd ==
    \A c \in Conn :
        (setup[c] # "none" /\ born[c] < generation) ~> (~running \/ setup[c] = "ended")
===============================================================================
