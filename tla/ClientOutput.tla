----------------------------- MODULE ClientOutput -----------------------------
(***************************************************************************)
(* The output side of the core loop (client_io.rs, and in run.rs the       *)
(* WRITABLE events, settle_client_output and                               *)
(* reconcile_client_writable_interest).                                    *)
(*                                                                         *)
(* The core thread never blocks on a client: what a socket does not take   *)
(* waits in `outbound`, and the descriptors replies carry wait in          *)
(* `outbound_fds` with the offset of their reply.  Buffered output moves   *)
(* on when the core loop drains it, which it does at the end of every      *)
(* iteration and when the poller reports the socket writable.  The poller  *)
(* is edge-triggered: a wake-up that was not asked for, or that was spent, *)
(* does not come back by itself.  It may also refuse to change what it     *)
(* watches; the code then goes on as before, and tries again in the next   *)
(* iteration.                                                              *)
(*                                                                         *)
(* One system call is one step, so a peer may read or close between any    *)
(* two of them.  A byte is the pair of its message's number and its        *)
(* position in that message.                                               *)
(***************************************************************************)
EXTENDS Naturals, Sequences, FiniteSetsExt

CONSTANTS
    Client,         \* the connected clients
    Cap,            \* OUTBOUND_CAP
    Room,           \* bytes the kernel holds for one socket
    WritableRoom,   \* free bytes from which the kernel calls a socket writable
    Lengths,        \* lengths of the messages written
    MaxMessages     \* bound: messages written to all clients

ASSUME OutputAssumption ==
    /\ Cap \in Nat /\ Room \in Nat /\ MaxMessages \in Nat
    /\ WritableRoom \in 1 .. Room
    /\ Lengths \subseteq Nat \ {0}

VARIABLES
    live,           \* the clients of ServerState::clients
    outbound,       \* [c]: bytes waiting for room
    outboundFds,    \* [c]: queued descriptors [at, len, fd]
    writeFailed,    \* [c]: ClientState::write_failed
    watching,       \* [c]: ClientState::watching_writable
    refused,        \* [c]: history, the poller refused the last change of it
    wire,           \* [c]: bytes the kernel took, each with the descriptor it carries
    read,           \* [c]: how many of them the peer has read
    closed,         \* [c]: the peer closed its end
    noSpace,        \* [c]: a write found no room and no wake-up has followed
    edge,           \* [c]: the poller has a WRITABLE event to report
    at,             \* where the core loop is
    second,         \* this is the settling after the iteration's tail
    ready,          \* WRITABLE events of this iteration not yet handled
    eof,            \* ClientDisconnected messages not yet handled
    todo,           \* clients the reconcile pass has still to visit
    op,             \* the write or drain in progress
    written         \* [c]: history, the messages handed to write_or_buffer / write_with_fd

buffers == <<outbound, outboundFds, writeFailed, written>>
socket == <<wire, noSpace>>
poller == <<watching, refused, edge>>
peer == <<read, closed>>
loop == <<at, second, ready, eof, todo>>
vars == <<live, buffers, socket, poller, peer, loop, op>>

-----------------------------------------------------------------------------
Idle == [kind |-> "idle", step |-> "none", c |-> "none", len |-> 0]

\* The bytes p .. len of message m.
Bytes(m, p, len) == [i \in 1 .. (len + 1 - p) |-> [msg |-> m, pos |-> p + i - 1]]

\* Bytes as they lie on the wire, the first carrying descriptor f (0: none).
OnWire(bytes, f) ==
    [i \in DOMAIN bytes |->
        [msg |-> bytes[i].msg, pos |-> bytes[i].pos, fd |-> IF i = 1 THEN f ELSE 0]]

Free(c) == Room - (Len(wire[c]) - read[c])

Writable(c) == Free(c) >= WritableRoom

\* OutboundFds::next_at() == Some(0)
FdDue(c) == outboundFds[c] # <<>> /\ outboundFds[c][1].at = 0

\* Mutant: a chunk runs on into the reply of the next descriptor.
ChunkEndIgnoringFds(c) == Len(outbound[c])

\* The end of the next chunk: a descriptor goes with its reply's bytes alone,
\* any other chunk ends where the next descriptor's reply begins.
ChunkEnd(c) ==
    IF outboundFds[c] = <<>> THEN Len(outbound[c])
    ELSE IF FdDue(c) THEN outboundFds[c][1].len ELSE outboundFds[c][1].at

\* Mutant: the descriptor that went stays at the front of the queue.
SentKeepingFront(fds, n, withFront) == [i \in DOMAIN fds |-> [fds[i] EXCEPT !.at = @ - n]]

\* OutboundFds::sent
Sent(fds, n, withFront) ==
    LET rest == IF withFront THEN Tail(fds) ELSE fds
    IN  [i \in DOMAIN rest |-> [rest[i] EXCEPT !.at = @ - n]]

\* Mutant: the new bytes are not counted against the cap.
OverCapByBacklogOnly(c, n) == outbound[c] # <<>> /\ Len(outbound[c]) > Cap

\* The cap applies to output that joins a backlog, never to a single reply.
OverCap(c, n) == outbound[c] # <<>> /\ Len(outbound[c]) + n > Cap

-----------------------------------------------------------------------------
Init ==
    /\ live = Client
    /\ outbound = [c \in Client |-> <<>>]
    /\ outboundFds = [c \in Client |-> <<>>]
    /\ writeFailed = [c \in Client |-> FALSE]
    /\ watching = [c \in Client |-> FALSE]
    /\ refused = [c \in Client |-> FALSE]
    /\ wire = [c \in Client |-> <<>>]
    /\ read = [c \in Client |-> 0]
    /\ closed = [c \in Client |-> FALSE]
    /\ noSpace = [c \in Client |-> FALSE]
    /\ edge = [c \in Client |-> FALSE]
    /\ at = "poll"
    /\ second = FALSE
    /\ ready = {}
    /\ eof = {}
    /\ todo = {}
    /\ op = Idle
    /\ written = [c \in Client |-> <<>>]

-----------------------------------------------------------------------------
(* Writing: requests, event fan-out and the iteration's tail.              *)

\* The handlers that write run while requests and events are dispatched, in
\* the notifications of a disconnect, and in the tail of the iteration.
Working == at \in {"dispatch", "fanout", "tail"} /\ op = Idle

CanWrite(c) ==
    /\ Working
    /\ c \in live
    /\ ~writeFailed[c]
    /\ MapThenSumSet(LAMBDA d : Len(written[d]), Client) < MaxMessages

Message(c) == Len(written[c]) + 1

\* Mutant: new output is written at once, ahead of the backlog.
WriteAheadOfBacklog(c, len) ==
    /\ CanWrite(c)
    /\ written' = [written EXCEPT ![c] = Append(@, [len |-> len, fd |-> FALSE])]
    /\ op' = [kind |-> "write", c |-> c, len |-> len, step |-> "direct"]
    /\ UNCHANGED <<live, outbound, outboundFds, writeFailed, socket, poller, peer, loop>>

\* write_or_buffer: drain the backlog first, if there is one.
WriteOrBuffer(c, len) ==
    /\ CanWrite(c)
    /\ written' = [written EXCEPT ![c] = Append(@, [len |-> len, fd |-> FALSE])]
    /\ op' = [kind |-> "write", c |-> c, len |-> len,
              step |-> IF outbound[c] = <<>> THEN "direct" ELSE "drain"]
    /\ UNCHANGED <<live, outbound, outboundFds, writeFailed, socket, poller, peer, loop>>

\* write_with_fd: the reply joins the queue with its descriptor and the queue
\* is drained.  Over the cap, or when the descriptor cannot be duplicated,
\* the write fails and nothing is queued.
WriteWithFd(c, len) ==
    /\ CanWrite(c)
    /\ written' = [written EXCEPT ![c] = Append(@, [len |-> len, fd |-> TRUE])]
    /\ \/ /\ writeFailed' = [writeFailed EXCEPT ![c] = TRUE]
          /\ UNCHANGED <<outbound, outboundFds, op>>
       \/ /\ ~OverCap(c, len)
          /\ outboundFds' = [outboundFds EXCEPT ![c] =
                 Append(@, [at |-> Len(outbound[c]), len |-> len, fd |-> Message(c)])]
          /\ outbound' = [outbound EXCEPT ![c] = @ \o Bytes(Message(c), 1, len)]
          /\ op' = [kind |-> "fd", c |-> c, len |-> len, step |-> "drain"]
          /\ UNCHANGED writeFailed
    /\ UNCHANGED <<live, socket, poller, peer, loop>>

\* buffer_or_disconnect of the message's bytes from position p on.
BufferOrDisconnect(c, p) ==
    LET rest == Bytes(Len(written[c]), p, op.len)
    IN  IF OverCap(c, Len(rest))
        THEN /\ writeFailed' = [writeFailed EXCEPT ![c] = TRUE]
             /\ UNCHANGED outbound
        ELSE /\ outbound' = [outbound EXCEPT ![c] = @ \o rest]
             /\ UNCHANGED writeFailed

\* The direct write of write_or_buffer_inner: the backlog is empty.
DirectWrite ==
    /\ op.step = "direct"
    /\ LET c == op.c IN
       \/ /\ closed[c]                                        \* EPIPE
          /\ writeFailed' = [writeFailed EXCEPT ![c] = TRUE]
          /\ UNCHANGED <<outbound, wire, noSpace>>
       \/ /\ ~closed[c] /\ Free(c) = 0                        \* EAGAIN
          /\ noSpace' = [noSpace EXCEPT ![c] = TRUE]
          /\ BufferOrDisconnect(c, 1)
          /\ UNCHANGED wire
       \/ /\ ~closed[c]
          /\ \E n \in 1 .. op.len :
                /\ n <= Free(c)
                /\ wire' = [wire EXCEPT ![c] =
                       @ \o OnWire(Bytes(Len(written[c]), 1, n), 0)]
                /\ IF n = op.len
                   THEN UNCHANGED <<outbound, writeFailed>>
                   ELSE BufferOrDisconnect(c, n + 1)
          /\ UNCHANGED noSpace
    /\ op' = Idle
    /\ UNCHANGED <<live, outboundFds, written, poller, peer, loop>>

-----------------------------------------------------------------------------
(* drain_outbound_inner, one pass of its loop at a time.                   *)

\* process_disconnect removes the client; who it notifies is up to the
\* fan-out that follows.
Removed(c) == live' = live \ {c}

DrainDone ==
    /\ op.step = "drain"
    /\ outbound[op.c] = <<>>
    /\ op' = IF op.kind = "write" THEN [op EXCEPT !.step = "direct"]
             ELSE IF op.kind = "reconcile" THEN [op EXCEPT !.step = "watch"]
             ELSE Idle
    /\ UNCHANGED <<live, buffers, socket, poller, peer, loop>>

\* EPIPE: the writer is marked; a WRITABLE event disconnects it at once, a
\* reconcile pass when it is over.
DrainFails ==
    /\ op.step = "drain"
    /\ outbound[op.c] # <<>>
    /\ closed[op.c]
    /\ writeFailed' = [writeFailed EXCEPT ![op.c] = TRUE]
    /\ IF op.kind = "event" THEN Removed(op.c) ELSE UNCHANGED live
    /\ op' = Idle
    /\ UNCHANGED <<outbound, outboundFds, written, socket, poller, peer, loop>>

DrainBlocks ==
    /\ op.step = "drain"
    /\ outbound[op.c] # <<>>
    /\ ~closed[op.c]
    /\ Free(op.c) = 0
    /\ noSpace' = [noSpace EXCEPT ![op.c] = TRUE]
    /\ IF op.kind = "write" THEN BufferOrDisconnect(op.c, 1)
       ELSE UNCHANGED <<outbound, writeFailed>>
    /\ op' = IF op.kind = "reconcile" THEN [op EXCEPT !.step = "watch"] ELSE Idle
    /\ UNCHANGED <<live, outboundFds, written, wire, poller, peer, loop>>

DrainChunk ==
    /\ op.step = "drain"
    /\ outbound[op.c] # <<>>
    /\ ~closed[op.c]
    /\ LET c == op.c IN
       \E n \in 1 .. Len(outbound[c]) :
          /\ n <= ChunkEnd(c) /\ n <= Free(c)
          /\ wire' = [wire EXCEPT ![c] =
                 @ \o OnWire(SubSeq(outbound[c], 1, n),
                             IF FdDue(c) THEN outboundFds[c][1].fd ELSE 0)]
          /\ outbound' = [outbound EXCEPT ![c] = SubSeq(@, n + 1, Len(@))]
          /\ outboundFds' = [outboundFds EXCEPT ![c] = Sent(@, n, FdDue(c))]
    /\ UNCHANGED <<live, writeFailed, written, noSpace, poller, peer, loop, op>>

-----------------------------------------------------------------------------
(* The poller and the iteration.                                           *)

\* The poll returns with the WRITABLE events and the readers' reports; it
\* may also return for other work.
Poll ==
    /\ at = "poll"
    /\ ready' = {c \in live : watching[c] /\ edge[c]}
    /\ edge' = [c \in Client |-> FALSE]
    /\ eof' = {c \in live : closed[c]}
    /\ at' = "dispatch"
    /\ UNCHANGED <<live, buffers, socket, watching, refused, peer, second, todo, op>>

\* A WRITABLE event of a client that is still there drains its buffer.
WritableEvent(c) ==
    /\ at = "dispatch" /\ op = Idle
    /\ c \in ready
    /\ ready' = ready \ {c}
    /\ IF c \notin live
       THEN UNCHANGED <<op, live>>
       ELSE IF writeFailed[c]
       THEN Removed(c) /\ UNCHANGED op
       ELSE /\ op' = [kind |-> "event", c |-> c, len |-> 0, step |-> "drain"]
            /\ UNCHANGED live
    /\ UNCHANGED <<buffers, socket, poller, peer, at, second, eof, todo>>

\* ClientDisconnected from the reader thread.
ReaderEof(c) ==
    /\ at = "dispatch" /\ op = Idle
    /\ c \in eof
    /\ eof' = eof \ {c}
    /\ Removed(c)
    /\ UNCHANGED <<buffers, socket, poller, peer, at, second, ready, todo, op>>

EndDispatch ==
    /\ at = "dispatch" /\ op = Idle
    /\ ready = {} /\ eof = {}
    /\ at' = "settle"
    /\ second' = FALSE
    /\ UNCHANGED <<live, buffers, socket, poller, peer, ready, eof, todo, op>>

\* Mutant: the output of the tail is not settled.
EndTailUnsettled ==
    /\ at = "tail" /\ op = Idle
    /\ at' = "poll"
    /\ second' = TRUE
    /\ UNCHANGED <<live, buffers, socket, poller, peer, ready, eof, todo, op>>

\* run_iteration_tail delivers deferred events, then output is settled again.
EndTail ==
    /\ at = "tail" /\ op = Idle
    /\ at' = "settle"
    /\ second' = TRUE
    /\ UNCHANGED <<live, buffers, socket, poller, peer, ready, eof, todo, op>>

-----------------------------------------------------------------------------
(* settle_client_output                                                    *)

FailedWriters == {c \in live : writeFailed[c]}

\* disconnect_failed_writers takes one; its notifications can fail others.
DisconnectFailedWriter(c) ==
    /\ at = "settle"
    /\ c \in FailedWriters
    /\ Removed(c)
    /\ at' = "fanout"
    /\ UNCHANGED <<buffers, socket, poller, peer, second, ready, eof, todo, op>>

EndFanout ==
    /\ at = "fanout" /\ op = Idle
    /\ at' = "settle"
    /\ UNCHANGED <<live, buffers, socket, poller, peer, second, ready, eof, todo, op>>

BeginReconcile ==
    /\ at = "settle"
    /\ FailedWriters = {}
    /\ todo' = live
    /\ at' = "reconcile"
    /\ UNCHANGED <<live, buffers, socket, poller, peer, second, ready, eof, op>>

\* Mutant: the pass only registers interest.
ReconcileWithoutDraining(c) ==
    /\ at = "reconcile" /\ op = Idle
    /\ c \in todo
    /\ todo' = todo \ {c}
    /\ op' = [kind |-> "reconcile", c |-> c, len |-> 0, step |-> "watch"]
    /\ UNCHANGED <<live, buffers, socket, poller, peer, at, second, ready, eof>>

\* The pass drains first: interest registered in an edge that has passed
\* would wait for ever.
Reconcile(c) ==
    /\ at = "reconcile" /\ op = Idle
    /\ c \in todo
    /\ todo' = todo \ {c}
    /\ op' = [kind |-> "reconcile", c |-> c, len |-> 0,
              step |-> IF outbound[c] = <<>> THEN "watch" ELSE "drain"]
    /\ UNCHANGED <<live, buffers, socket, poller, peer, at, second, ready, eof>>

\* The end of the pass for a client: it is to be in the poller exactly while
\* output waits for room.
WatchingAsNeeded(c) == watching[c] = (outbound[c] # <<>>)

\* The poller has the client as needed, nothing to do; or it refuses the
\* change (NotFound, or an error that is only logged), and watching_writable
\* stays what it was.
NotRewatched ==
    /\ op.step = "watch"
    /\ refused' = [refused EXCEPT ![op.c] = ~WatchingAsNeeded(op.c)]
    /\ op' = Idle
    /\ UNCHANGED <<live, buffers, socket, watching, edge, peer, loop>>

\* watch_writable.  Registering a socket that is writable reports it at once.
WatchWritable ==
    /\ op.step = "watch"
    /\ ~WatchingAsNeeded(op.c)
    /\ LET c == op.c
           reports == ~watching[c] /\ Writable(c)
       IN  /\ watching' = [watching EXCEPT ![c] = ~@]
           /\ edge' = [edge EXCEPT ![c] = reports]
           /\ noSpace' = [noSpace EXCEPT ![c] = @ /\ ~reports]
           /\ refused' = [refused EXCEPT ![c] = FALSE]
    /\ op' = Idle
    /\ UNCHANGED <<live, buffers, wire, peer, loop>>

\* The pass returns the clients whose drain failed: they are disconnected and
\* everything is settled again.
EndReconcile ==
    /\ at = "reconcile" /\ op = Idle
    /\ todo = {}
    /\ at' = IF FailedWriters # {} THEN "settle"
             ELSE IF second THEN "poll" ELSE "tail"
    /\ UNCHANGED <<live, buffers, socket, poller, peer, second, ready, eof, todo, op>>

-----------------------------------------------------------------------------
(* The peers and the kernel.                                               *)

\* The peer reads; the kernel reports the socket writable, to a poller that
\* watches it, once a write that found no room could go on.
PeerRead(c) ==
    /\ c \in live /\ ~closed[c]
    /\ read[c] < Len(wire[c])
    /\ read' = [read EXCEPT ![c] = @ + 1]
    /\ LET wakes == noSpace[c] /\ Free(c) + 1 >= WritableRoom
       IN  /\ noSpace' = [noSpace EXCEPT ![c] = @ /\ ~wakes]
           /\ edge' = [edge EXCEPT ![c] = @ \/ (wakes /\ watching[c])]
    /\ UNCHANGED <<live, buffers, wire, watching, refused, closed, loop, op>>

PeerClose(c) ==
    /\ c \in live /\ ~closed[c]
    /\ closed' = [closed EXCEPT ![c] = TRUE]
    /\ UNCHANGED <<live, buffers, socket, poller, read, loop, op>>

-----------------------------------------------------------------------------
\* One pass of a drain, or the system call of a direct write.
IoStep ==
    \/ DirectWrite \/ DrainDone \/ DrainFails \/ DrainBlocks \/ DrainChunk
    \/ NotRewatched \/ WatchWritable

Iteration ==
    \/ \E c \in Client : WritableEvent(c) \/ ReaderEof(c) \/ Reconcile(c)
                            \/ DisconnectFailedWriter(c)
    \/ EndDispatch \/ EndTail \/ EndFanout \/ BeginReconcile \/ EndReconcile

Write == \E c \in Client, len \in Lengths : WriteOrBuffer(c, len) \/ WriteWithFd(c, len)

Next ==
    \/ Poll \/ IoStep \/ Iteration \/ Write
    \/ \E c \in Client : PeerRead(c) \/ PeerClose(c)

Spec == Init /\ [][Next]_vars

\* What makes the poll return without any other work: a WRITABLE event, or a
\* reader's report.
Woken == \E c \in live : (watching[c] /\ edge[c]) \/ closed[c]

\* The core thread runs on, its poll returns when it is woken, and a peer
\* that has not closed its end keeps reading.
Fairness ==
    /\ WF_vars(Poll /\ Woken)
    /\ WF_vars(IoStep)
    /\ WF_vars(Iteration)
    /\ \A c \in Client : WF_vars(PeerRead(c))

FairSpec == Spec /\ Fairness

-----------------------------------------------------------------------------
(* Properties.                                                             *)

Byte == [msg : Nat, pos : Nat]

WireByte == [msg : Nat, pos : Nat, fd : Nat]

Op == [kind : {"idle", "write", "fd", "event", "reconcile"},
       step : {"none", "direct", "drain", "watch"},
       c : Client \cup {"none"}, len : Lengths \cup {0}]

\* Type invariant of the output state.
TypeOK ==
    /\ live \subseteq Client
    /\ outbound \in [Client -> Seq(Byte)]
    /\ outboundFds \in [Client -> Seq([at : Nat, len : Nat, fd : Nat])]
    /\ wire \in [Client -> Seq(WireByte)]
    /\ written \in [Client -> Seq([len : Lengths, fd : BOOLEAN])]
    /\ read \in [Client -> Nat]
    /\ \A c \in Client : read[c] <= Len(wire[c])
    /\ writeFailed \in [Client -> BOOLEAN]
    /\ watching \in [Client -> BOOLEAN] /\ refused \in [Client -> BOOLEAN]
    /\ closed \in [Client -> BOOLEAN]
    /\ noSpace \in [Client -> BOOLEAN]
    /\ edge \in [Client -> BOOLEAN]
    /\ at \in {"poll", "dispatch", "settle", "fanout", "reconcile", "tail"}
    /\ second \in BOOLEAN
    /\ ready \subseteq Client /\ eof \subseteq Client /\ todo \subseteq Client
    /\ op \in Op

\* The bytes of client c in the order they were or will be sent.
Stream(c) ==
    [i \in 1 .. (Len(wire[c]) + Len(outbound[c])) |->
        IF i <= Len(wire[c]) THEN [msg |-> wire[c][i].msg, pos |-> wire[c][i].pos]
        ELSE outbound[c][i - Len(wire[c])]]

\* The byte after b in the sequence of the messages written to c.
After(c, b) ==
    IF b.pos < written[c][b.msg].len THEN [msg |-> b.msg, pos |-> b.pos + 1]
    ELSE [msg |-> b.msg + 1, pos |-> 1]

\* The messages whose bytes are all queued or sent, unless a write failed.
Queued(c) == Len(written[c]) - (IF op.kind = "write" /\ op.c = c THEN 1 ELSE 0)

\* A client receives the bytes of its messages in the order they were
\* written, with none left out in the middle: across partial writes, a
\* backlog drained before a new write, and the write that overflows the cap
\* (write_or_buffer, write_with_fd, drain_outbound).  As long as no write
\* failed, everything written is sent or waits.
WireWhole ==
    \A c \in Client :
        LET s == Stream(c) IN
        /\ s # <<>> => s[1] = [msg |-> 1, pos |-> 1]
        /\ \A i \in 1 .. (Len(s) - 1) : s[i + 1] = After(c, s[i])
        /\ ~writeFailed[c] =>
              IF Queued(c) = 0 THEN s = <<>>
              ELSE /\ s # <<>>
                   /\ s[Len(s)] = [msg |-> Queued(c), pos |-> written[c][Queued(c)].len]

\* A descriptor leaves with the first byte of its reply and with no other,
\* whatever the socket took of the output before it (OutboundFds).
FdWithReply ==
    \A c \in Client : \A i \in DOMAIN wire[c] :
        LET b == wire[c][i]
        IN  b.fd = IF b.pos = 1 /\ written[c][b.msg].fd THEN b.msg ELSE 0

\* The core loop never goes to sleep on output it would not be woken for:
\* when it polls, a client with buffered output is watched and either the
\* event is there or the next read of the peer will raise it; and no client
\* whose write failed is left connected (settle_client_output).  The one
\* exception is a client the poller has just refused to watch: its output
\* waits for whatever else makes the loop go round.
WakeupArmed ==
    at = "poll" =>
        \A c \in live :
            /\ ~writeFailed[c]
            /\ outbound[c] # <<>> /\ ~closed[c] =>
                  \/ ~watching[c] /\ refused[c]
                  \/ watching[c] /\ (edge[c] \/ (noSpace[c] /\ ~Writable(c)))

\* A backlog over OUTBOUND_CAP is one single reply: output that joins a
\* backlog is refused beyond the cap, and the client cut off.
BacklogBounded ==
    \A c \in Client :
        Len(outbound[c]) > Cap =>
            \A i, j \in DOMAIN outbound[c] : outbound[c][i].msg = outbound[c][j].msg

\* Buffered output of a client that reads is sent, or the client has been
\* disconnected: no output is left behind in the buffer, unless the loop
\* sleeps after the poller has refused to watch the client.
OutputDrains ==
    \A c \in Client :
        outbound[c] # <<>> ~>
            \/ outbound[c] = <<>> \/ c \notin live
            \/ at = "poll" /\ ~watching[c] /\ refused[c]
=============================================================================
