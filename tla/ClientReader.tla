----------------------------- MODULE ClientReader -----------------------------
(***************************************************************************)
(* One connection: the peer, its reader thread (client_reader.rs), and     *)
(* what the core does to that reader.  The reader frames requests from the *)
(* socket with or without BIG-REQUESTS lengths, stops when the bytes it    *)
(* has accepted fill its window, and parks after every Enable until the    *)
(* core has decided on it.  The core answers through an unbounded control  *)
(* channel: returned bytes, Apply, Ignore, Shutdown.                       *)
(*                                                                         *)
(* The core dispatches this connection's requests in order (CoreLoop), so  *)
(* a request is handled here in one step, credit included.                 *)
(***************************************************************************)
EXTENDS Naturals, Sequences

CONSTANTS Ops,         \* what peers ask for in this instance
          Short,       \* wire bytes of a request with a 16-bit length
          Big,         \* ... with a length beyond 16 bits
          Overlong,    \* ... counted for one beyond the advertised maximum
          Window,      \* MAX_IN_FLIGHT_BYTES_PER_CLIENT
          MaxRequests  \* bound: requests the peer ever writes

ASSUME ClientReaderAssumption ==
    /\ Ops \subseteq {"plain", "enable", "minor"}
    /\ {Short, Big, Overlong, Window} \subseteq Nat \ {0}
    /\ MaxRequests \in Nat

VARIABLES
    wire, written, peerOpen,  \* the socket towards the server
    told,         \* the peer has been sent a successful Enable reply
    pc,           \* where the reader thread is
    big,          \* the reader's framing mode
    outstanding,  \* ReaderIngressWindow.outstanding_bytes
    requests,     \* messages sent and not yet dispatched
    control,      \* reader_control
    enabled,      \* client.big_requests_enabled
    connected     \* is the client in state.clients?

peerVars   == <<wire, written, peerOpen>>
readerVars == <<pc, big, outstanding>>
coreVars   == <<told, enabled, connected>>
vars == <<peerVars, readerVars, requests, control, coreVars>>

\* BIG-REQUESTS Enable, another minor of that extension, or anything else;
\* only with the extension can a length exceed 16 bits.
Request == [op : {"plain", "enable", "minor"}, form : {"short", "big", "overlong"}]

\* request_bytes in the reader, req_wire_bytes in the core.
Bytes(r) ==
    CASE r.form = "short"    -> Short
      [] r.form = "big"      -> Big
      [] r.form = "overlong" -> Overlong

Eof == [op |-> "eof", form |-> "short"]

Grant(n) == [what |-> "grant", bytes |-> n]
Signal(w) == [what |-> w, bytes |-> 0]

Control == [what : {"grant"}, bytes : Nat] \cup [what : {"apply", "ignore", "shutdown"}, bytes : {0}]

TypeOK ==
    /\ wire \in Seq(Request)
    /\ written \in 0..MaxRequests
    /\ peerOpen \in BOOLEAN
    /\ told \in BOOLEAN
    /\ pc \in {"control", "reading", "barrier", "stopped"}
    /\ big \in BOOLEAN
    /\ outstanding \in Nat
    /\ requests \in Seq(Request \cup {Eof})
    /\ control \in Seq(Control)
    /\ enabled \in BOOLEAN
    /\ connected \in BOOLEAN

Init ==
    /\ wire = << >>
    /\ written = 0
    /\ peerOpen = TRUE
    /\ told = FALSE
    /\ pc = "control"
    /\ big = FALSE
    /\ outstanding = 0
    /\ requests = << >>
    /\ control = << >>
    /\ enabled = FALSE
    /\ connected = TRUE
-------------------------------------------------------------------------------
(***************************************************************************)
(* The peer                                                                *)
(***************************************************************************)

\* A correct peer writes extended lengths only after a successful Enable
\* reply; it pipelines, and does not wait for anything else.
PeerWrites(r) ==
    /\ peerOpen
    /\ written < MaxRequests
    /\ r.op \in Ops
    /\ r.form # "short" => told
    /\ wire' = Append(wire, r)
    /\ written' = written + 1
    /\ UNCHANGED <<peerOpen, readerVars, requests, control, coreVars>>

PeerCloses ==
    /\ peerOpen
    /\ peerOpen' = FALSE
    /\ UNCHANGED <<wire, written, readerVars, requests, control, coreVars>>
-------------------------------------------------------------------------------
(***************************************************************************)
(* The reader thread                                                       *)
(***************************************************************************)

CanRead == outstanding < Window

\* Mutant: what exceeds the window is forgotten.
AcceptClamped(n) == outstanding' = IF outstanding + n > Window THEN Window ELSE outstanding + n

Accept(n) == outstanding' = outstanding + n

\* Mutant: every completion returns a whole window, and wraps.
CompleteWindow(n) == outstanding' = outstanding - Window

\* saturating_sub
Complete(n) == outstanding' = IF n > outstanding THEN 0 ELSE outstanding - n

\* The control loop ahead of each read: it takes what is in the channel,
\* and waits there while the window is closed.  A stray Apply or Ignore is
\* dropped with a warning.
TakeControl ==
    /\ pc = "control"
    /\ control # << >>
    /\ control' = Tail(control)
    /\ LET m == Head(control)
       IN  \/ m.what = "shutdown" /\ pc' = "stopped" /\ UNCHANGED outstanding
           \/ m.what = "grant" /\ Complete(m.bytes) /\ UNCHANGED pc
           \/ m.what \in {"apply", "ignore"} /\ UNCHANGED <<pc, outstanding>>
    /\ UNCHANGED <<peerVars, big, requests, coreVars>>

StartReading ==
    /\ pc = "control"
    /\ CanRead
    /\ control = << >>
    /\ pc' = "reading"
    /\ UNCHANGED <<peerVars, big, outstanding, requests, control, coreVars>>

\* read_request returns a frame, which is accepted and sent.  Whatever the
\* frame, an Enable parks the reader.
ReadRequest ==
    /\ pc = "reading"
    /\ wire # << >>
    /\ big \/ Head(wire).form = "short"
    /\ wire' = Tail(wire)
    /\ Accept(Bytes(Head(wire)))
    /\ requests' = Append(requests, Head(wire))
    /\ pc' = IF Head(wire).op = "enable" THEN "barrier" ELSE "control"
    /\ UNCHANGED <<written, peerOpen, big, control, coreVars>>

\* The reader's last message is ClientDisconnected.
ReportEof ==
    /\ pc' = "stopped"
    /\ requests' = Append(requests, Eof)

\* A zero 16-bit length is a framing error without BIG-REQUESTS.
ReadFails ==
    /\ pc = "reading"
    /\ wire # << >>
    /\ ~big /\ Head(wire).form # "short"
    /\ ReportEof
    /\ UNCHANGED <<peerVars, big, outstanding, control, coreVars>>

\* Mutant: a disconnect leaves the socket open.
ReadEofFromPeer ==
    /\ pc = "reading"
    /\ wire = << >>
    /\ ~peerOpen
    /\ ReportEof
    /\ UNCHANGED <<peerVars, big, outstanding, control, coreVars>>

\* The peer closed the socket, or process_disconnect shut it down.
ReadEof ==
    /\ pc = "reading"
    /\ wire = << >>
    /\ ~peerOpen \/ ~connected
    /\ ReportEof
    /\ UNCHANGED <<peerVars, big, outstanding, control, coreVars>>

\* Mutant: credit that comes back during the barrier is dropped.
TakeBarrierControlNoCredit ==
    /\ pc = "barrier"
    /\ control # << >>
    /\ control' = Tail(control)
    /\ LET m == Head(control)
       IN  \/ m.what = "apply" /\ big' = TRUE /\ pc' = "control"
           \/ m.what = "ignore" /\ pc' = "control" /\ UNCHANGED big
           \/ m.what = "grant" /\ UNCHANGED <<pc, big>>
           \/ m.what = "shutdown" /\ pc' = "stopped" /\ UNCHANGED big
    /\ UNCHANGED <<peerVars, outstanding, requests, coreVars>>

\* The barrier after an Enable.
TakeBarrierControl ==
    /\ pc = "barrier"
    /\ control # << >>
    /\ control' = Tail(control)
    /\ LET m == Head(control)
       IN  \/ m.what = "apply" /\ big' = TRUE /\ pc' = "control" /\ UNCHANGED outstanding
           \/ m.what = "ignore" /\ pc' = "control" /\ UNCHANGED <<big, outstanding>>
           \/ m.what = "grant" /\ Complete(m.bytes) /\ UNCHANGED <<pc, big>>
           \/ m.what = "shutdown" /\ pc' = "stopped" /\ UNCHANGED <<big, outstanding>>
    /\ UNCHANGED <<peerVars, requests, coreVars>>
-------------------------------------------------------------------------------
(***************************************************************************)
(* The core.  A handler ends by returning the request's bytes, or by       *)
(* disconnecting the client, which then gets Shutdown instead.             *)
(***************************************************************************)
Settle(r, signals) ==
    /\ requests' = Tail(requests)
    /\ \/ /\ control' = signals \o <<Grant(Bytes(r))>>
          /\ UNCHANGED connected
       \/ /\ control' = signals \o <<Signal("shutdown")>>
          /\ connected' = FALSE
    /\ UNCHANGED <<peerVars, readerVars>>

\* The length gate of process_request: big_requests_enabled gives the limit.
TooLong(r) == r.form = "overlong" \/ (r.form = "big" /\ ~enabled)

\* Mutant: the length gate leaves the reader parked.
RejectLengthKeepsReader ==
    /\ connected
    /\ requests # << >>
    /\ LET r == Head(requests)
       IN  /\ r.op # "eof"
           /\ TooLong(r)
           /\ Settle(r, control)
    /\ UNCHANGED <<told, enabled>>

\* BadLength; an Enable's reader is released.
RejectLength ==
    /\ connected
    /\ requests # << >>
    /\ LET r == Head(requests)
       IN  /\ r.op # "eof"
           /\ TooLong(r)
           /\ Settle(r, IF r.op = "enable" THEN Append(control, Signal("ignore")) ELSE control)
    /\ UNCHANGED <<told, enabled>>

\* An access policy denies the extension; the same.
RejectPolicy ==
    /\ connected
    /\ requests # << >>
    /\ LET r == Head(requests)
       IN  /\ r.op \in {"enable", "minor"}
           /\ ~TooLong(r)
           /\ Settle(r, IF r.op = "enable" THEN Append(control, Signal("ignore")) ELSE control)
    /\ UNCHANGED <<told, enabled>>

\* handle_big_requests_request, minor 0: reply, then Apply.
HandleEnable ==
    /\ connected
    /\ requests # << >>
    /\ LET r == Head(requests)
       IN  /\ r.op = "enable"
           /\ ~TooLong(r)
           /\ Settle(r, Append(control, Signal("apply")))
    /\ enabled' = TRUE
    /\ told' = TRUE

\* ... another minor: BadRequest, and Ignore.
HandleMinor ==
    /\ connected
    /\ requests # << >>
    /\ LET r == Head(requests)
       IN  /\ r.op = "minor"
           /\ ~TooLong(r)
           /\ Settle(r, Append(control, Signal("ignore")))
    /\ UNCHANGED <<told, enabled>>

HandlePlain ==
    /\ connected
    /\ requests # << >>
    /\ LET r == Head(requests)
       IN  /\ r.op = "plain"
           /\ ~TooLong(r)
           /\ Settle(r, control)
    /\ UNCHANGED <<told, enabled>>

\* process_disconnect, for the reader: the socket is shut down, Shutdown is
\* sent, and the sending half of the channel goes with the client.
ProcessDisconnect ==
    /\ control' = IF connected THEN Append(control, Signal("shutdown")) ELSE control
    /\ connected' = FALSE
    /\ UNCHANGED <<peerVars, readerVars, told, enabled>>

\* Message::ClientDisconnected.
ReceiveEof ==
    /\ requests # << >>
    /\ Head(requests) = Eof
    /\ requests' = Tail(requests)
    /\ ProcessDisconnect

\* A request of a client that is gone.
DropRequest ==
    /\ ~connected
    /\ requests # << >>
    /\ Head(requests) # Eof
    /\ requests' = Tail(requests)
    /\ UNCHANGED <<peerVars, readerVars, control, coreVars>>

\* A failed write, KillClient, a reset.
CoreDisconnects ==
    /\ connected
    /\ ProcessDisconnect
    /\ UNCHANGED requests
-------------------------------------------------------------------------------
ReaderStep ==
    \/ TakeControl \/ StartReading \/ ReadRequest \/ ReadFails \/ ReadEof \/ TakeBarrierControl

CoreStep ==
    \/ RejectLength \/ RejectPolicy \/ HandleEnable \/ HandleMinor \/ HandlePlain
    \/ ReceiveEof \/ DropRequest

Next ==
    \/ ReaderStep \/ CoreStep \/ CoreDisconnects
    \/ PeerCloses \/ \E r \in Request : PeerWrites(r)

Spec == Init /\ [][Next]_vars

\* Both threads run.  That the core comes to this connection's requests is
\* an assumption on the other clients: no foreign server grab and no
\* suspension lasts for ever (EveryoneServed of CoreLoop gives the rest).
FairSpec == Spec /\ WF_vars(ReaderStep) /\ WF_vars(CoreStep)
-------------------------------------------------------------------------------
(***************************************************************************)
(* Properties                                                              *)
(***************************************************************************)

\* The sum of a sequence of numbers.
Sum(c) == LET upto[i \in 0 .. Len(c)] == IF i = 0 THEN 0 ELSE upto[i - 1] + c[i]
          IN  upto[Len(c)]

\* The bytes of the requests in s, and those on their way back in ct.
Cost(r) == IF r = Eof THEN 0 ELSE Bytes(r)

Total(s) == Sum([i \in DOMAIN s |-> Cost(s[i])])

Returned(ct) == Sum([i \in DOMAIN ct |-> ct[i].bytes])

\* A peer that was told BIG-REQUESTS is on never has an extended length
\* taken for a framing error: reader, core and peer agree on the framing of
\* every request, however the peer pipelines around the Enable.
FramingAgrees ==
    pc = "reading" /\ wire # << >> /\ Head(wire).form # "short" => big

\* The bytes a connected client's reader counts as outstanding are exactly
\* those not yet dispatched plus those on their way back, parked or not.
BytesConserved ==
    connected => outstanding = Total(requests) + Returned(control)

\* The core never holds more than a window of one client's bytes, its last
\* request aside, even when requests of mixed sizes cross the boundary: what
\* lies ahead of a request is less than a window.
ReadAheadBounded ==
    \A i \in DOMAIN requests :
        requests[i] # Eof => Total(SubSeq(requests, 1, i - 1)) < Window

\* Every Enable is answered: a parked reader goes on or stops, whichever
\* gate of the core rejected the request, and whoever disconnects.
BarrierEnds == pc = "barrier" ~> pc # "barrier"

\* The reader thread of a client that is gone ends, even with a peer that
\* keeps its side of the socket open and silent.
ReaderEnds == ~connected ~> pc = "stopped"
===============================================================================
