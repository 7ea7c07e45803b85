# yserver: a TLA+ verification project

yserver is an X11 server in Rust. One thread, the *core loop*, owns all
protocol state. Every connection has a thread of its own, first a *setup
thread* for the handshake and then a *reader thread* that frames requests.
These threads meet the core only in channels, and so do the *input thread*,
which owns the devices, and the display manager on the network. What makes the server correct or
not is less what a single request does than the order in which requests,
answers, disconnects, resets and VT switches meet, and this is what the project
models, checks with TLC and proves with TLAPS.

Paths below are relative to `src/crates/yserver-core/src/core_loop/` unless
they start with `src/`.

- [Inventory](#inventory)
- [Plan](#plan)
- [Modules and how they correspond to the code](#modules-and-how-they-correspond-to-the-code)
- [Runs](#runs)
- [Refinement](#refinement)
- [Fairness](#fairness)
- [Proofs](#proofs)
- [Findings](#findings)
- [What is not modelled](#what-is-not-modelled)
- [Running the checks](#running-the-checks)

## Inventory

| component | state | operations | talks to |
|---|---|---|---|
| core loop, request path (`run.rs`, `process_disconnect.rs`) | `ServerState.clients`, server grab, `FairRequestQueue`, grab waiters, parked backend requests, budget | poll, receive, dispatch, divert, release waiters, settle failed writers, disconnect | all threads, by channel; readers, by `ReaderControl` |
| reader threads (`client_reader.rs`) | framing mode, in-flight bytes, sequence number | read a request, wait for credit, park for BIG-REQUESTS, stop | core |
| setup threads (`setup_thread.rs`, `auth.rs`) | socket, place in the handshake, `SetupRegistry` entry | read, admit, ask the core for an id base, reply, hand the stream over | core, reset |
| server reset (`reset.rs`, `generation.rs`, `sender.rs`) | generation, reset trigger, tags of messages | note arrivals and departures, end a generation, discard old messages | everything |
| id allocation (`src/crates/yserver-core/src/server.rs`) | next base, returned bases | allocate, release | setup threads, disconnects |
| client output (`client_io.rs`, `run.rs`) | outbound bytes and fds, write failure, WRITABLE interest | write or buffer, drain, fail, settle, watch | handlers, poll, kernel |
| SYNC awaits (`sync_await.rs`) | counters, alarms, fences, suspended clients | await, change, fire | dispatch |
| XInput configuration lane (`run.rs`) | queue of device configurations, one in flight, writes given up | submit, finish, fail, cancel | input thread, VT barrier, reset |
| input thread (`src/crates/yserver/src/input_thread.rs`) | commands and writes of a wake-up, paused, device handle | take, apply, pause, resume, answer | core |
| VT switching (`run.rs`, `src/crates/yserver/src/lib.rs`) | barrier, deadline | release, acquire | signal thread, input thread |
| XDMCP (`xdmcp.rs`, `src/crates/yserver-protocol/src/xdmcp/state.rs`) | session state machine, retransmission timer, session cookie, session client | query, request, manage, keep alive, retransmit, give up | network, setup threads, reset |
| Present (`src/crates/yserver-core/src/present_scheduler.rs`) | pending presents, idle fences | schedule, complete, cancel | vblank, disconnects |
| input grabs and delivery (`pointer_fanout.rs`, `key_fanout.rs`) | active and frozen grabs | activate, freeze, replay | input thread, handlers |
| request handlers (`process_request/`) | windows, pixmaps, properties, ... | about 120 core requests and the extensions | backend |
| back ends, codecs, access control, tools | hardware, host system, tables | | |

What is hard here:

- **Interleaving.** Readers, setup threads, the signal thread and the input
  thread send while the core works through a batch. The VT barrier dispatches
  and receives in the middle of that batch.
- **Order.** A server grab sets requests aside that have to return in front of
  everything that came later, from every path on which a grab can end.
- **Conservation.** Reader and core both count the bytes in flight. Each
  request's credit has to come back once, also if the request parks, its client
  is killed, or it is rejected before dispatch.
- **Barriers.** A reader parks after BIG-REQUESTS Enable, a setup thread after
  SetupAllocate. Every path of the core has to answer, or the thread hangs.
- **Failure.** A write fails in the middle of a handler; a client is torn down
  twice; a handshake stops anywhere.
- **Generations.** A reset replaces the session in a running process, while
  threads of the old session still run and their messages are in the channel.
- **Unreliable delivery.** XDMCP datagrams are lost, duplicated and late; a
  timer retransmits, and an answer to an earlier packet meets a later state.
- **Edges.** The poller is edge-triggered: a wake-up not asked for, or spent,
  does not come back.
- **Bounds.** Budget per iteration, window of a reader, outbound cap, retry
  limits, id bases.

Correctness, per component: requests of one client run once and in order;
nobody is starved or waits for a dead grab owner; read-ahead is bounded and
credit conserved; peer, reader and core agree on the framing; sessions do not
mix; id bases have one holder; the trigger fires exactly when it should; every
thread and socket of an old session ends; bytes and descriptors reach a client
whole and in order and are never left in a buffer nobody empties; a device
configuration has one outcome and the inventory agrees with the device; the
session cookie admits clients only to the offer it came with, and a lost packet
never leaves the display waiting. The hazards in `PROJECT.json` give
the line where each of these can go wrong and the properties that watch it.

## Plan

Order of work, the most important behaviour first. Done:

1. `FairRequestQueue`, `CoreLoop`: the request path.
2. `ClientReader`: flow control and framing of one connection.
3. `ServerReset`: connections across generations.
4. `ClientOutput`: partial writes, the outbound cap, descriptors that travel
   with their bytes, edge-triggered WRITABLE interest.
5. `RequestService`: what the request path promises, and `CoreLoop` as its
   implementation.
6. `XiConfigLane`: device configurations between clients, VT barrier and input
   thread.
7. `Xdmcp`: the display manager session over an unreliable network.
8. Proofs (`*Proofs`) of the safety properties of 1 to 7 that are in the
   prover's reach.

Runs stay on two actors (clients, connections), because every property here is
about one actor and its interference with another, and the proofs carry the
safety part over to any number.

## Modules and how they correspond to the code

`PROJECT.json` maps every definition to its lines.

### FairRequestQueue

The data between receive and dispatch: a FIFO per client behind a round-robin
ring, and the requests set aside while a foreign server grab lasts. Pure
operators, no state. The code keeps the waiters in one deque which it groups by
client on release and reads nowhere else, so the model keeps them grouped.

### CoreLoop

One generation of the loop. `pc` follows one iteration of
`run_core_with_inventory`: *poll*, *backlog* (the first
`drain_pending_requests`), *events* (mio events), *notify* (the message batch),
*drain* (after the batch), *vt* (inside the VtRelease arm), *tail*.

| state | code |
|---|---|
| `reader`, `sent`, `outstanding` | reader thread, its sequence counter and `ReaderIngressWindow` |
| `channel`, `batch` | the crossbeam channel, `channel_messages` |
| `clients`, `last`, `grab`, `held`, `failed` | `state.clients`, `last_sequence`, `server_grab_owner`, SYNC/RECORD suspensions, `write_failed` |
| `parked` | `PendingBackendRequests` |
| `queue`, `ready`, `waiting`, `waitOrder` | `deferred_requests`, `server_grab_waiters` |
| `budget`, `clock` | `request_budget`, time since `drain_start` |

`Dispatch` is one turn of a drain, with the whole handler: what the request
does is chosen among the effects handlers have on scheduling (nothing, grab or
ungrab, await, resume somebody, park, quit, kill another client). Wall-clock
time is `Deadline`, which may happen at any time after the first request of a
drain. Write failures may happen in any handler and at any time outside
(`WriteFails`), and are noticed where the code notices them (`Settle`, and the
WRITABLE event in `WritableFails`, which releases no waiters).

The channel is one FIFO in the code and one FIFO per reader here: the order
between two producers is a race, so every merge is possible anyway.

### ClientReader

One connection. The peer writes requests and closes at will; the reader's inner
loop reads its control channel, then a request; the core answers each request
in order (that it does is CoreLoop's result). Requests are an operation (plain,
BIG-REQUESTS Enable, another minor of that extension) and a wire form (16-bit
length, extended length, extended and over the limit); sizes are constants. The
two gates of `process_request` that reject before dispatch (length, access
policy) are actions of their own because each has to release a parked reader.
`told` is what the peer knows: the reply to Enable was sent. The peer is
external code; it is only assumed to use extended lengths after that reply.

### ServerReset

Connections from accept to their end, over several generations. `setup[c]` is
the place of the setup thread in `run_setup`; *waiting* is the blocking receive
of the id base, *sending* the stretch after the reply has been written,
*handed* the time between the hand-over of the stream and `SetupGuard::drop`.
`channel[c]` holds tagged messages; the tag is `born[c]`, bound at accept
(`BoundSender`). `shut` collects sockets this process has shut down or closed.
`armed`, `forced` and `drained` are `ResetTrigger`; `next` and `free` are
`IdAllocator`, with `MaxBase` for the size of the 32-bit id space.

An iteration is split in *events* and *tail*, because the boundary runs after
everything else and acts on what was latched. Requests are reduced to what they
do to connections: set the close-down mode, kill a client, destroy retained
resources, disconnect. A client that XDMCP refuses after its setup is
`ClientDropped`, with its reader already running.

CoreLoop and ServerReset overlap in `ProcessDisconnect`: the one keeps the grab
and the queues, the other sockets, bases and the trigger. A reset ends a
CoreLoop generation; `OneSession` is the statement that the next one starts from
CoreLoop's `Init` as far as queued requests and clients are concerned.

### RequestService

The abstract service: how many requests each client has sent, how many were
executed, who owns the server grab, who is blocked, who is connected. Three
actions, no queues. See [Refinement](#refinement).

### ClientOutput

The output side of the loop. One system call is one step, so a peer reads or
closes between any two. `op` is the call of `client_io.rs` in progress: the
direct write of `write_or_buffer`, one pass of `drain_outbound_inner`, or the
registration in the poller. The registration may fail (`NotRewatched`,
`run.rs:4308-4317`): the error is swallowed or logged, `watching_writable` stays
what it was, and nothing tries again before another event has woken the loop.
The history variable `refused` keeps whose last registration failed, and
`WakeupArmed` and `OutputDrains` except exactly these clients: with output
waiting, unwatched, refused. `at` follows `run_core_with_inventory` as far as
output is concerned: *dispatch*, the two `settle_client_output` calls (*settle*,
*fanout* while a disconnect notifies others, *reconcile*), and the iteration's
*tail* between them. `edge` and `noSpace` are the kernel's and mio's side: the
poller reports a socket once when it becomes writable after a write found no
room, or when a writable socket is registered.

A byte is its message and its position in it, which is all that order and
wholeness need. Abstractions: a client that RECORD fails to write to is any
client whose write fails; teardown errors that end the server are left out; the
re-arming that only the Windows poller needs is left out; EMSGSIZE counts as a
socket without room.

### XiConfigLane

`RoutePendingXiConfig` blocks a client and queues its write, `Drive` submits the
head of the queue after validation, `FinishXiConfigResult` matches a result with
the write in flight or with one given up. A VT release is a phase (*barrier*) in
which the core only waits for the acknowledgement, puts other messages aside and
dispatches them afterwards behind whatever has come since. The input thread
takes commands and writes in two steps of one wake-up (`ThreadDrain`,
`ThreadTake`), checks the cancellation, applies, answers.

A client leaves in two ways. `Disconnect` is `disconnect_with_pending_cleanup`,
which takes its request out of the lane. `KillClient`, when another client names
one of its resources (`process_request/misc.rs:634`), removes it and nothing
else: its entry, the protocol part of its write in flight and its block stay
(`killed`) until its reader reports the end (`ClientDisconnected`), or a reset.
`Drive` passes over such an entry without an answer and unblocks it
(`run.rs:1186-1189`); the result of its write is dropped and leaves it blocked
(`run.rs:1581-1586`). A reader that finds the Shutdown first ends without a
report, so `ClientDisconnected` has no fairness and the others have to get on
without it. The killer may be any client, one that configures nothing included,
so it is not named.

One device and one setting are modelled: the lane is global, so a second device
adds only entries between. Hotplug, and the start of a device configuration
without an input thread, are left out.

### Xdmcp

The machine of `xdmcp/state.rs` is a function of its state and an event, and is
written as one: operators on the display record `d`, which the actions of the
service and the loop apply. `d.outcome` is what the service hands to the loop's
tail (reset or terminate), where timer, departure of the session client, outcome
and reset trigger are looked at in the code's order (`Tail`). `sent` collects
the display's packets for good, so the manager may answer any of them, twice,
late and out of order; an answer is received at most once per time it was
given. An offer's cookie is named by its session id. `Boundary` is the part of
the reset that matters here; `ServerReset` has the rest.

The retry count is one for every packet: `carried` and `keepAlives` of `d`
remember what of it a session began with and how many KeepAlives it sent, and
`admitted` which offer's cookie let a client in; findings 4 and 5 are about
these. As in the code, a Decline ends a running session whenever it arrives, and
an Alive of another session does while one is awaited.

## Runs

| run | instance | result |
|---|---|---|
| `service` | 2 clients, 2 requests each, window 2, budget 1; grab and ungrab, park, quit, kill; failed writes and disconnects at any point, fairness | types, exact ring, requests in order, credit conserved, no orphaned waiters; implements `RequestService`, with its progress; waiters are freed |
| `vt` | 2 clients, 2 requests each, budget 1, VT barrier; plain, parking and suspending requests | order and credit hold through the barrier |
| `vt_grab` | 2 clients, 3 requests, VT barrier and server grabs | **violated**: finding 1 |
| `reader_flow` | window 2, sizes 1, 3, 5, 4 requests, all operations, fairness | bytes conserved, read-ahead bounded, barrier and reader end |
| `reader_minor` | with other minors | **violated**: finding 2 |
| `reset_session` | 2 connections, one of which may be internal, 2 bases, 1 reset, all effects, fairness | sessions apart, bases distinct, trigger exact, old sockets cut, old connections end |
| `reset_setups` | 2 connections, 2 bases, 1 reset, no requests, fairness | **violated**: finding 3 |
| `io` | 2 clients, cap 2, socket room 2, messages of 1 and 3 bytes, 2 messages, fairness | wire whole, descriptors with their reply, wake-up armed, backlog bounded, output drains |
| `lane` | 2 clients, 2 values, 3 requests, 1 VT release, 1 reset, fairness | one answer, results matched, inventory agrees with the device, nobody stays blocked |
| `xdmcp` | 1 remote and 1 local client, direct query, limits 3 and 2, 2 offers, 4 answers, fairness | cookie of the offer, remote clients in a session, session has its client, timer armed, KeepAlives counted, `-once` ends |
| `xdmcp_keepalives` | 1 remote client, broadcast, limits 3 and 2, 1 offer, 2 answers | **violated**: finding 4 |
| `xdmcp_offer` | 1 remote client, broadcast, 2 offers, 4 answers | **violated**: finding 5 |

Why these bounds are enough for the interesting cases:

- Two clients suffice for one to hold the grab, be killed, fail, or use up the
  budget while the other waits. With two requests each, one request can be set
  aside, queued or still unread while the client's other one is elsewhere; a
  budget of one, where starvation would be easiest, is used up by every
  dispatch. `service` checks safety and
  progress over the same states; a third request, which may lie in all three
  places at once, is given up for it, because every safety property of the run
  is proved for any number of them. Requests without an effect and requests that
  suspend their client are left to `vt` and the proofs; in the scheduler a
  suspended client is skipped by the same test as a parked one (`Runnable`).
- In `reader_flow` the window is smaller than the larger requests, so requests
  cross its boundary; four requests allow Enable, one large and one overlong
  request, and a second Enable.
- In `ServerReset` two connections compete for bases, one can be in any place
  of its handshake while the other lives, kills, is retained or causes the
  reset. Only one of them may be the server's own (`MaybeInternal`), which halves
  the states: two external clients, or one of each kind. A connection is used
  once (`ClientId`s are never reused), so one reset separates an old connection
  from a new one; the proofs cover any number of both.
- In `io` a message of three bytes is larger than cap and socket, so it is sent
  in parts and buffered over the cap, which only a single reply may be; the
  second message meets a backlog, with or without a descriptor, or another
  client's disconnect. The limit is on messages, not on iterations.
- In `lane` three requests are one in flight, one queued, and one more after
  either has ended; one VT release meets a write in every place of its way. Only
  a second release can put aside a resumption (the first comes before the device
  was ever resumed), which the resumption after it may then overtake:
  `ConfigAgrees` leaves out exactly this case, a device suspended again after
  it. With two releases the run would take longer than it is worth, as
  `XiConfigLaneProofs` proves its four invariants for any number.
- In `xdmcp` the limits differ, so that both ends of `timeout` are reached; four
  answers are Willing, Accept, Refuse and the next Accept, or an Alive or a stale
  answer in a running session; with two offers a stale Refuse or Alive differs
  from a current one. The query modes differ in the first packet and in who heeds
  Unwilling, so one is enough; broadcast, which ignores it, is in the two runs
  that show findings, and the proofs have all three. The answer of a manager
  that keeps confirming a session for ever is outside `OnceEnds`. The proofs
  remove all of these bounds for the invariants.

`CoreLoop` is checked for deadlock: a loop with runnable work is never stuck.
So is `ClientOutput`. `ClientReader`, `ServerReset`, `XiConfigLane` and `Xdmcp`
may stop, because connections, requests and the server end, so their runs say
`CHECK_DEADLOCK FALSE`. Symmetry is used for the
clients of `vt` and `vt_grab`, which check no liveness.

For each property of a passing run `PROJECT.json` names a mutant: a definition
changed as a plausible bug would, with which the run fails. The mutants stand
before the definitions they replace, marked as such.

## Refinement

`CoreLoop` implements `RequestService`: `ImplementsService` is the service's
specification under the mapping

| service | core loop |
|---|---|
| `connected` | `clients \ failed`: a client whose write failed is out, although its connection is closed later |
| `issued`, `executed` | `sent`, `last` |
| `owner` | `grab` |
| `blocked` | connected clients that are parked or suspended |

So the rings, the batch, requests set aside and restored, the budget and late
settling are invisible: whatever is executed is the next request of a client
that is connected, not blocked and not locked out by another's grab, and a grab
ends only by its owner's request or with its owner. `service` checks it and
`ServiceImplemented` proves it under `Calm` (see Proofs); `EveryoneServed` (the
service's `Progress`, in the same run) adds that who can be served is.

## Fairness

- `CoreLoop`: weak fairness of the core thread's own steps only. Nothing is
  assumed of clients, backend results, suspensions, write failures or time.
  Dispatch, not the deadline, has to make progress, since the code always runs
  one request before it looks at the clock.
- `ClientReader`: weak fairness of the reader's steps (after a shutdown of the
  socket a blocked read returns, so the read is never stuck) and of the core's
  steps for this connection. The latter is CoreLoop's `EveryoneServed` plus the
  assumption that other clients do not keep the server grab for ever.
- `ServerReset`: weak fairness of the loop's iteration, and of the threads of
  ended sessions only: setup threads, whose reads and writes have timeouts, and
  readers whose socket is shut down. It is one condition for all of them, which
  says the same as one each, because each has finitely many steps to take.
  Strong fairness of discarding, because each iteration empties the channel but
  may be in its tail when looked at. The wait for the core's answer is *not* a
  step a setup thread can take alone, and this is where finding 3 comes from.
- `ClientOutput`: weak fairness of the core thread's steps, of the poll *only
  when the poller has something to report* (this is what makes a lost wake-up
  visible), and of a peer's reading until it closes its end. A peer that stops
  reading is bounded by the cap, not by time.
- `XiConfigLane`: weak fairness of the input thread, of the core's receiving,
  and of the barrier's deadline. Requests, VT switches, resets, departures and
  the report of a killed client's reader need not happen.
- `Xdmcp`: weak fairness of the tail with a due timer and without: an armed
  timer comes due, and the loop gets to its tail. Nothing is assumed of the
  manager, the network or the clients.

## Proofs

All theorems hold for every value of the constants (any number of clients,
requests, connections, generations; any sizes and bounds) that satisfy the
named assumptions of each module, which ask no more than that bounds are
natural numbers (windows and budgets positive) and names are distinct.

**FairRequestQueueProofs.** What push, pop and release do to a ring that
matches its queues. The ring is exact if it lists the occupied clients, each
once; appending to a queue adds its client only if it was empty, a turn rotates,
a release puts a client's waiters in front and newcomers at the end.

**CoreLoopProofs.** `StructInv` adds to the type invariant that both rings are
exact; each needs the other, since a turn can only be taken from a queue that
is known to be non-empty. Theorems `TypeCorrect`, `RingAlwaysExact`.

**RequestOrderProofs.** `OrderPreserved`, `CreditPreserved`,
`WaitersHaveOwner`, `DispatchOrderPreserved`, all under `Calm`: the server does
not switch VTs, or its clients do not grab it (runs `vt` and `service`). With both
they are false, see finding 1.
`RequestsInOrder` is not inductive: it breaks if a queued request can be
dispatched while an older one is set aside. `WaitersSafe` says why it cannot:
before the backlog is drained, requests are set aside only behind a grab, and
after a grab vanished without a release (failed WRITABLE) a client has nothing
set aside, or nothing queued, or the budget is spent, or it is about to be
disconnected. `WaitersIdle` adds that who has requests set aside neither parks
nor owns the grab, without which credit and order would come apart. Both hold
through the barrier of a VT switch; what fails there is their use: the barrier
dispatches although the budget is spent. So it must not meet requests set aside,
and `NoGrab` says that it does not where nobody grabs the server. It is the only
place where `Calm` is needed, and finding 1 is the behaviour that shows it.

In the same module, `ServiceImplemented`, again under `Calm`. The
invariant of the order proofs is strengthened by one fact, that everything
queued, batched or in the channel has been sent (`AllSent`), so that a dispatch
finds `executed < issued`. Each action is then a step of the service: receiving
and every bookkeeping step stutters, reading is `Issue`, a dispatch `Execute`,
a failed write, a disconnect or a backend result `Depart`.

**ClientReaderProofs.** `FramingPreserved`, under `"minor" \notin Ops`. The
invariant `FramingInv`: the core has at most one Enable of a running reader, its
last request, while no answer is under way (`EnableIsLast`); an answer finds the
reader parked and is the only one (`AnswerIsAwaited`); once the peer is told,
the reader has switched or the Apply is in its channel (`ToldIsApplied`). Other
minors break `AnswerIsAwaited`, which is finding 2.

`BytesPreserved` and `ReadAheadIsBounded` hold with them too. `BytesInv` adds to
both that the sum never exceeds `outstanding`, which is what remains once the
client is gone and what keeps the saturating subtraction from saturating, and
that a reader in `read` is below its window. What `Sum` does to an appended and
a removed number is proved by induction. The library's induction theorems take a
predicate as a parameter, which the provers cannot instantiate; `LeastElement`
and `SetInduction` state the same for a set, from the library's theorem that `<`
is well-founded, and `UptoExists` shows with them that the recursive function of
`Sum` exists.

**ServerResetProofs.** `SessionsApart`, `BaseHasOneHolder`, `DrainIsExact`,
`OldSocketsCut`, `TypeCorrect` from one invariant, `SessionInv`. Its parts:
messages carry their connection's generation (`TagsBound`); a connection is
with its thread, in one ClientSetupComplete message, or with the core, and in
one of these at a time (`Stages`); somebody who can shut the socket down has it
(`Located`, `HandedOver`); the registry lists only the running session; a
returned base had been given out (`FreeBelow`). `BasesDistinct` is needed for
types (a base that comes back is a real one), and `Stages` for `BasesDistinct`
(who establishes a client held its base before, as a message).

**ClientOutputProofs.** `ClientStreamWhole`, `DescriptorWithReply`,
`BacklogWithinCap`, `SleepsArmed`, `TypeCorrect` from one invariant,
`OutputInv`. The argument about bytes is made once for constants, `DataOK` of a
wire, a backlog, a queue of descriptors and the list of messages: bytes on the
wire and in the backlog form a chain that only steps to the next byte of the
messages (`Chain`) and ends with the last queued one (`EndsWith`); each queued
descriptor lies at the first byte of its reply, which is whole in the backlog,
replies follow each other, and no reply in the backlog lacks its descriptor
(`FdsOK`). The last two are what makes `FdWithReply` inductive: a chunk ends
where the next descriptor's reply begins, so it can neither miss a descriptor
nor take one along. One lemma per kind of change (`HandedOK`, `PlainOK`,
`ReplyOK`, `ChunkOK`) keeps `DataOK`, and `DataSteps` shows that every action is
one of these for each client. `WakeupArmed` holds at the poll only; `ArmInv`
adds what the reconcile pass has achieved on its way: a client it has visited is
armed or its write failed, and the one it is about to register will be
(`Arming`), since its drain either emptied the buffer or left the kernel owing a
wake-up; or the poller refused, which is what `NotRewatched` is there for, and
`refused` says so until the next attempt succeeds.

**XiConfigLaneProofs.** `EachRequestAnswered`, `EveryResultMatched`,
`ConfirmedIsApplied`, `TypeCorrect` from one invariant, `LaneInv`, for any number
of VT releases and resets. `OneAnswer` is nearly inductive; it needs only that
clients that are gone do not come back and that killed ones are gone
(`Strangers`): a client leaves the lane with its clean-up, or stays in it as a
killed one, whose entry `Drive` takes out without an answer. `ResultsMatched` needs that
the results in the channel, the writes of the wake-up and the writes in the
mailbox form one pipeline of exactly the remembered writes, in the order of
their tokens, with their values (`Pipe`); one lemma each for submitting, taking,
answering and receiving keeps it, and messages that are no results may enter,
leave or change places (`SameAnswers`), which covers the barrier. For
`ConfigAgrees` it is the last message in the channel that affects the confirmed
value (a resumption, or the result of a write) that counts: it *tells* the
value the device has (`Told`). This is not inductive by itself, since a barrier's
deferred messages are put in front of younger ones. `ValueInv` therefore claims
it for a settled device (`Settled`: live, and no pause on its way) or
while no resumption was ever put aside; `EndsPaused` shows that during a barrier
and while away the last command under way is a pause, so that no settled state
meets the reordering, and `EnabledInv` says the same of `enabled` and the last
message that switches the device.

**XdmcpProofs.** `CookieIsOfOffer`, `RemoteClientsInSession`,
`SessionClientConnected`, `TimerAlwaysArmed`, `KeepAlivesAreCounted`,
`TypeCorrect` from one invariant. What the runs check holds between iterations
and says nothing of the middle of one, so it is not inductive. `Sound(x)` is
what the machine keeps true of a display at any event: it stands (state, cookie)
unless an outcome is pending, and its retry count is what the session started
with plus its unanswered KeepAlives. `Kept` says that a step ends no session
without an outcome and takes no outcome back. One lemma per operation of the
machine proves both, and the tail's lemma that no outcome survives it.

Only model-checked:

- liveness: `EveryoneServed`, `WaitersFreed`, `BarrierEnds`, `ReaderEnds`,
  `OldConnectionsEnd`, `OutputDrains`, `BlockedEnds`, `OnceEnds`; fairness is out
  of the prover's reach.

`FramingAgrees` is the other way round: proved without other minors, and checked
only where it fails (`reader_minor`). `KeepAlivesCounted` is what is true of the
retry count where `KeepAlivesUnanswered` (finding 4) is not.

## Findings

1. **VT barrier overtakes waiters of a grab** (`vt_grab`). If a WRITABLE event
   disconnects the owner of the server grab, its waiters are released after the
   next message. If this is VtRelease, the barrier dispatches first, and a
   client's newer requests run before the older ones that were set aside.
   `run.rs:763` promises the opposite.
2. **Stray answer to BIG-REQUESTS** (`reader_minor`). The reader parks for
   minor 0 only, the core answers every minor. The surplus Ignore releases the
   barrier of an Enable pipelined behind it, and the Apply that follows is
   thrown away: peer and reader disagree on the framing from then on.
3. **Setup threads survive a reset** (`reset_setups`). The thread holds a
   sender of the channel it waits on, so when the core discards its
   SetupAllocate the wait neither succeeds nor fails. The socket is shut down
   (`OldConnectionsEnd` holds), the thread stays.
4. **Fewer KeepAlives than said** (`xdmcp_keepalives`). `open_display`
   (`state.rs:448-457`) keeps the retry count that retransmissions of Manage left,
   and `timeout` counts on from it. With k of them the session is given up after
   XDM_KA_RTX_LIMIT - k unanswered KeepAlives, at least one, until a first Alive
   resets the count. `state.rs:234-236` says that XDM_KA_RTX_LIMIT went
   unanswered. `KeepAlivesCounted` holds: never more, and exactly that many if
   nothing was carried over.
5. **The cookie of a refused offer admits to the next session** (`xdmcp_offer`).
   A setup thread that passed the check under one offer may finish after Refuse
   has cleared its cookie and the next Accept installed another. `open_display`
   takes whoever comes while a Manage is outstanding, so this client becomes the
   session client of the other offer. The design document
   (`2026-09-09-xdmcp-design.md:363-366`) promises that a cookie authorizes only
   its own session, "nor does a retried negotiation within" a generation inherit
   it. If no offer stands by then the client is dropped (`RemoteInSession`).

## What is not modelled

`PROJECT.json` lists every component. In short:

- what request handlers draw, store or reply: functional behaviour with little
  interleaving, which the conformance tests of the repository exercise;
- KMS, Vulkan, host window systems: their behaviour is the hardware's or the
  host's;
- codecs and keyboard tables: data;
- access control, but for the session cookie: predicates on one request, present
  as a free choice where their outcome matters;
- a client teardown that fails fatally: the loop exits in the same iteration
  (`Shutdown` of ServerReset), and nothing of the session is used afterwards;
- SYNC counters and triggers, Present's due rule: arithmetic on the core thread,
  with unit tests; their effect on scheduling (suspend, resume, park) is in
  `CoreLoop`. When a present completes is the KMS renderer's doing;
- pointer and keyboard delivery and input grabs: one event at a time on the core
  thread; who receives it depends on window tree, masks, focus and grabs together,
  and abstracting these would assume the answer. The repository tests them with
  several hundred cases;
- RECORD's interception, beyond that an enabled context suspends its connection;
- an id base that a failed handshake took with it is never returned within the
  generation: `BasesDistinct` says that no base has two holders, nothing says that
  none is lost.

Sequence numbers are not wrapped: the 16-bit value appears in replies only, and
the models order requests by position.

## Running the checks

    tlc -workers 2 -config MCCoreLoop_service.cfg MCCoreLoop
    tlapm RequestOrderProofs.tla

and the same for the other configurations and proof modules. The longest runs
(`service`, `reset_session`, `lane`, `xdmcp`, up to two million states with
liveness) take three to four minutes with two workers, the longest proof module a few.
