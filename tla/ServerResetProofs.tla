--------------------------- MODULE ServerResetProofs ---------------------------
(***************************************************************************)
(* Sessions do not mix: for any connections, id space and number of resets *)
(* the core holds only what belongs to the running session, id bases have  *)
(* one holder, the reset trigger is exact and every old socket is cut.     *)
(***************************************************************************)
EXTENDS ServerReset, TLAPS

\* A connection is never of a session to come.
BornPast == \A c \in Conn : born[c] <= generation

\* BoundSender: every message of a connection carries its generation.
TagsBound == \A c \in Conn : \A i \in DOMAIN channel[c] : channel[c][i].tag = born[c]

HasComplete(c) == \E i \in DOMAIN channel[c] : channel[c][i].what = "complete"

\* A connection is with its setup thread, in a ClientSetupComplete message,
\* or with the core, and in one of these at a time.
Stage(c) ==
    /\ setup[c] \in {"none", "reading", "writing", "sending", "failed"} =>
          channel[c] = << >> /\ c \notin clients \cup zombies \cup reader
    /\ setup[c] = "waiting" =>
          /\ \/ channel[c] = << >>
             \/ Len(channel[c]) = 1 /\ channel[c][1].what = "allocate"
          /\ c \notin clients \cup zombies \cup reader
    /\ setup[c] \in {"handed", "ended"} =>
          \/ /\ Len(channel[c]) = 1
             /\ channel[c][1].what = "complete"
             /\ c \notin clients \cup zombies \cup reader
          \/ \A i \in DOMAIN channel[c] : channel[c][i].what \in {"request", "gone"}

Stages == \A c \in Conn : Stage(c)

\* Somebody in this process can still shut the connection's socket down.
Located ==
    \A c \in Conn : setup[c] # "none" =>
        c \in registry \cup clients \cup shut \/ HasComplete(c)

\* ... and a setup thread that gave its stream away is not the one.
HandedOver ==
    \A c \in Conn : setup[c] = "handed" => c \in clients \cup shut \/ HasComplete(c)

RegistryCurrent == \A c \in registry : born[c] = generation

Apart == clients \cap zombies = {}

\* What came back had been given out.
FreeBelow == free \subseteq 1..(next - 1)

SessionInv ==
    /\ TypeOK
    /\ BornPast
    /\ TagsBound
    /\ Stages
    /\ OneSession
    /\ Apart
    /\ FreeBelow
    /\ BasesDistinct
    /\ Located
    /\ HandedOver
    /\ RegistryCurrent
    /\ DrainExact

-------------------------------------------------------------------------------
\* A message is added behind the others of its connection.
LEMMA SendEffect ==
    ASSUME TypeOK, NEW c \in Conn,
           NEW w \in {"allocate", "complete", "request", "gone"}, Send(c, w)
    PROVE  /\ channel' \in [Conn -> Seq(Message)]
           /\ \A d \in Conn \ {c} : channel'[d] = channel[d]
           /\ Len(channel'[c]) = Len(channel[c]) + 1
           /\ \A i \in DOMAIN channel[c] : channel'[c][i] = channel[c][i]
           /\ channel'[c][Len(channel[c]) + 1] = [tag |-> born[c], what |-> w]
           /\ \A i \in DOMAIN channel'[c] : i \in DOMAIN channel[c] \/ i = Len(channel[c]) + 1
           /\ \A i \in DOMAIN channel[c] : i \in DOMAIN channel'[c]
           /\ Len(channel[c]) + 1 \in DOMAIN channel'[c]
           /\ Len(channel[c]) + 1 >= 1
<1>1. channel[c] \in Seq(Message) /\ [tag |-> born[c], what |-> w] \in Message
  BY DEF TypeOK, Message
<1>2. channel'[c] = Append(channel[c], [tag |-> born[c], what |-> w])
  BY DEF Send, TypeOK
<1>3. channel'[c] \in Seq(Message)
  BY <1>1, <1>2
<1> QED BY <1>1, <1>2, <1>3 DEF Send, TypeOK

\* The first message of a connection is taken away.
LEMMA TakeEffect ==
    ASSUME TypeOK, NEW c \in Conn, channel[c] # << >>,
           channel' = [channel EXCEPT ![c] = Tail(@)]
    PROVE  /\ channel' \in [Conn -> Seq(Message)]
           /\ \A d \in Conn \ {c} : channel'[d] = channel[d]
           /\ Head(channel[c]) = channel[c][1]
           /\ 1 \in DOMAIN channel[c]
           /\ Len(channel'[c]) = Len(channel[c]) - 1
           /\ Len(channel[c]) = 1 => channel'[c] = << >>
           /\ \A i \in DOMAIN channel'[c] :
                 i + 1 \in DOMAIN channel[c] /\ channel'[c][i] = channel[c][i + 1]
<1>1. channel[c] \in Seq(Message)
  BY DEF TypeOK
<1>2. channel'[c] = Tail(channel[c]) /\ Tail(channel[c]) \in Seq(Message)
  BY <1>1 DEF TypeOK
<1> QED BY <1>1, <1>2 DEF TypeOK

\* What the stage of a connection says when a message of it is taken.
LEMMA TakenStage ==
    ASSUME SessionInv, NEW c \in Conn, channel[c] # << >>,
           channel' = [channel EXCEPT ![c] = Tail(@)]
    PROVE  /\ setup[c] \in {"waiting", "handed", "ended"}
           /\ Head(channel[c]).tag = born[c]
           /\ HasComplete(c) <=> Head(channel[c]).what = "complete"
           /\ Head(channel[c]).what = "allocate" <=> setup[c] = "waiting"
           /\ \A i \in DOMAIN channel'[c] : channel'[c][i].what \in {"request", "gone"}
           /\ setup[c] = "waiting" \/ HasComplete(c) =>
                 channel'[c] = << >> /\ c \notin clients \cup zombies \cup reader
<1> USE DEF SessionInv
<1>1. /\ channel[c] \in Seq(Message) /\ channel[c][1] \in Message
      /\ Head(channel[c]) = channel[c][1] /\ 1 \in DOMAIN channel[c]
  BY TakeEffect DEF TypeOK
<1>2. setup[c] \in {"waiting", "handed", "ended"}
  BY DEF TypeOK, Stages, Stage
<1>3. Head(channel[c]).tag = born[c]
  BY <1>1 DEF TagsBound
<1>4. CASE setup[c] = "waiting"
  <2>1. Len(channel[c]) = 1 /\ channel[c][1].what = "allocate"
    BY <1>4 DEF Stages, Stage
  <2>2. channel'[c] = << >>
    BY <2>1, TakeEffect
  <2> QED BY <1>1, <1>3, <1>4, <2>1, <2>2 DEF Stages, Stage, HasComplete
<1>5. CASE setup[c] \in {"handed", "ended"} /\ Head(channel[c]).what = "complete"
  <2>1. Len(channel[c]) = 1 /\ c \notin clients \cup zombies \cup reader
    BY <1>1, <1>5 DEF Stages, Stage
  <2>2. channel'[c] = << >>
    BY <2>1, TakeEffect
  <2> QED BY <1>1, <1>3, <1>5, <2>1, <2>2 DEF HasComplete
<1>6. CASE setup[c] \in {"handed", "ended"} /\ Head(channel[c]).what # "complete"
  <2>1. \A i \in DOMAIN channel[c] : channel[c][i].what \in {"request", "gone"}
    BY <1>1, <1>6 DEF Stages, Stage
  <2> QED BY <1>1, <1>3, <1>6, <2>1, TakeEffect DEF HasComplete
<1> QED BY <1>2, <1>4, <1>5, <1>6

\* ClientSetupComplete is the only message of a connection when it comes,
\* and comes in the session the connection belongs to.
LEMMA CompleteTaken ==
    ASSUME SessionInv, NEW c \in Conn, Taken(c, "complete")
    PROVE  /\ HasComplete(c) /\ born[c] = generation
           /\ setup[c] \in {"handed", "ended"}
           /\ channel'[c] = << >>
           /\ \A d \in Conn \ {c} : channel'[d] = channel[d]
           /\ c \notin clients \cup zombies \cup reader
<1>1. /\ channel[c] # << >> /\ channel' = [channel EXCEPT ![c] = Tail(@)]
      /\ Head(channel[c]).what = "complete" /\ Head(channel[c]).tag = generation
  BY DEF Taken
<1>2. TypeOK
  BY DEF SessionInv
<1>3. HasComplete(c) /\ born[c] = generation /\ setup[c] # "waiting"
  BY <1>1, TakenStage
<1> QED BY <1>1, <1>2, <1>3, TakenStage, TakeEffect

\* Whoever holds a base holds a real one; a connected client holds one.
LEMMA HeldBase ==
    ASSUME SessionInv, NEW c \in Conn,
           c \in clients \/ (born[c] = generation /\ HasComplete(c))
    PROVE  Holds(c) /\ base[c] \in 1..MaxBase /\ base[c] \in 1..(next - 1)
<1>1. Holds(c)
  BY DEF SessionInv, OneSession, Holds, HasComplete
<1> QED BY <1>1 DEF SessionInv, BasesDistinct, TypeOK
-------------------------------------------------------------------------------
\* Connections are accepted into the running generation.
LEMMA BornPastStep == SessionInv /\ [Next]_vars => BornPast'
<1> SUFFICES ASSUME SessionInv, [Next]_vars PROVE BornPast'
  OBVIOUS
<1>a. TypeOK /\ BornPast
  BY DEF SessionInv
<1> USE <1>a, ServerResetAssumption DEF TypeOK, BornPast,
        threadVars, sessionVars, triggerVars
<1>1. ASSUME NEW c \in Conn, SetupStep(c) PROVE BornPast'
  BY <1>1 DEF SetupStep, SetupAllocate, SetupFails, SetupWrites, SetupComplete, SetupExit, Send
<1>2. ASSUME NEW c \in Conn, ReaderStep(c) PROVE BornPast'
  BY <1>2 DEF ReaderStep, ReaderRequest, ReaderEof, ReaderShutdown, Send
<1>3. ASSUME NEW c \in Conn, ReceiveStep(c) PROVE BornPast'
  BY <1>3 DEF ReceiveStep, Discard, HandleSetupAllocate, ClientEstablished,
             ClientNotInserted, ClientDropped, ReceiveRequest, ClientDisconnected, Taken,
             Allocate, DisconnectWithPendingCleanup, ProcessDisconnect, NoteClientDeparted
<1>4. ASSUME NEW c \in Conn, RequestStep(c) PROVE BornPast'
  BY <1>4 DEF RequestStep, HandleOther, HandleSetCloseDownMode, HandleKillClient,
             HandleKillZombies, HandleQuit, Popped, DisconnectWithPendingCleanup,
             ProcessDisconnect, NoteClientDeparted
<1>5. ASSUME NEW c \in Conn, Accept(c) \/ InternalClient(c) PROVE BornPast'
  <2>1. born' = [born EXCEPT ![c] = generation] /\ generation' = generation
    BY <1>5 DEF Accept, InternalClient, Spawn
  <2> QED BY <2>1
<1>6. ASSUME NEW c \in Conn, WriteFails(c) PROVE BornPast'
  BY <1>6 DEF WriteFails, DisconnectWithPendingCleanup, ProcessDisconnect, NoteClientDeparted
<1>7. CASE ResetGeneration
  BY <1>7 DEF ResetGeneration, ShutdownAll
<1>8. CASE EndEvents \/ NothingPending \/ Terminate \/ Shutdown \/ ResetRequested \/ NoteResetRequested
  BY <1>8 DEF EndEvents, NothingPending, Terminate, Shutdown, Exit, ShutdownAll,
             ResetRequested, NoteResetRequested
<1>9. CASE UNCHANGED vars
  BY <1>9 DEF vars
<1> QED BY <1>1, <1>2, <1>3, <1>4, <1>5, <1>6, <1>7, <1>8, <1>9 DEF Next, LoopStep

\* Only messages of the running generation add to what the core keeps.
LEMMA OneSessionStep == SessionInv /\ [Next]_vars => OneSession'
<1> SUFFICES ASSUME SessionInv, [Next]_vars PROVE OneSession'
  OBVIOUS
<1>a. TypeOK /\ TagsBound /\ OneSession
  BY DEF SessionInv
<1> USE <1>a, ServerResetAssumption DEF TypeOK, OneSession, TagsBound,
        threadVars, sessionVars, triggerVars
<1>1. ASSUME NEW c \in Conn, SetupStep(c) PROVE OneSession'
  BY <1>1 DEF SetupStep, SetupAllocate, SetupFails, SetupWrites, SetupComplete, SetupExit, Send
<1>2. ASSUME NEW c \in Conn, ReaderStep(c) PROVE OneSession'
  BY <1>2 DEF ReaderStep, ReaderRequest, ReaderEof, ReaderShutdown, Send
<1>3. ASSUME NEW c \in Conn, ReceiveStep(c) PROVE OneSession'
  BY <1>3 DEF ReceiveStep, Discard, HandleSetupAllocate, ClientEstablished,
             ClientNotInserted, ClientDropped, ReceiveRequest, ClientDisconnected, Taken,
             Allocate, DisconnectWithPendingCleanup, ProcessDisconnect, NoteClientDeparted
<1>4. ASSUME NEW c \in Conn, RequestStep(c) PROVE OneSession'
  BY <1>4 DEF RequestStep, HandleOther, HandleSetCloseDownMode, HandleKillClient,
             HandleKillZombies, HandleQuit, Popped, DisconnectWithPendingCleanup,
             ProcessDisconnect, NoteClientDeparted
<1>5. ASSUME NEW c \in Conn, Accept(c) \/ InternalClient(c) PROVE OneSession'
  BY <1>5 DEF Accept, InternalClient, Spawn
<1>6. ASSUME NEW c \in Conn, WriteFails(c) PROVE OneSession'
  BY <1>6 DEF WriteFails, DisconnectWithPendingCleanup, ProcessDisconnect, NoteClientDeparted
<1>7. CASE ResetGeneration
  BY <1>7 DEF ResetGeneration, ShutdownAll
<1>8. CASE EndEvents \/ NothingPending \/ Terminate \/ Shutdown \/ ResetRequested \/ NoteResetRequested
  BY <1>8 DEF EndEvents, NothingPending, Terminate, Shutdown, Exit, ShutdownAll,
             ResetRequested, NoteResetRequested
<1>9. CASE UNCHANGED vars
  BY <1>9 DEF vars
<1> QED BY <1>1, <1>2, <1>3, <1>4, <1>5, <1>6, <1>7, <1>8, <1>9 DEF Next, LoopStep

\* A client becomes a zombie when it leaves, and only once.
LEMMA ApartStep == SessionInv /\ [Next]_vars => Apart'
<1> SUFFICES ASSUME SessionInv, [Next]_vars PROVE Apart'
  OBVIOUS
<1>a. TypeOK /\ Stages /\ Apart
  BY DEF SessionInv
<1> USE <1>a, ServerResetAssumption DEF TypeOK, Apart, Stages, Stage,
        threadVars, sessionVars, triggerVars
<1>1. ASSUME NEW c \in Conn, SetupStep(c) PROVE Apart'
  BY <1>1 DEF SetupStep, SetupAllocate, SetupFails, SetupWrites, SetupComplete, SetupExit, Send
<1>2. ASSUME NEW c \in Conn, ReaderStep(c) PROVE Apart'
  BY <1>2 DEF ReaderStep, ReaderRequest, ReaderEof, ReaderShutdown, Send
<1>3. ASSUME NEW c \in Conn, ReceiveStep(c) PROVE Apart'
  <2>1. CASE ClientEstablished(c)
    <3>1. c \notin zombies
      BY <2>1, CompleteTaken DEF ClientEstablished
    <3> QED BY <2>1, <3>1 DEF ClientEstablished
  <2>2. CASE ReceiveStep(c) /\ ~ClientEstablished(c)
    BY <2>2 DEF ReceiveStep, Discard, HandleSetupAllocate, ClientNotInserted, ClientDropped,
             ReceiveRequest, ClientDisconnected, Taken, Allocate,
             DisconnectWithPendingCleanup, ProcessDisconnect
  <2> QED BY <1>3, <2>1, <2>2
<1>4. ASSUME NEW c \in Conn, RequestStep(c) PROVE Apart'
  BY <1>4 DEF RequestStep, HandleOther, HandleSetCloseDownMode, HandleKillClient,
             HandleKillZombies, HandleQuit, Popped, DisconnectWithPendingCleanup,
             ProcessDisconnect, NoteClientDeparted
<1>5. ASSUME NEW c \in Conn, Accept(c) \/ InternalClient(c) PROVE Apart'
  BY <1>5 DEF Accept, InternalClient, Spawn
<1>6. ASSUME NEW c \in Conn, WriteFails(c) PROVE Apart'
  BY <1>6 DEF WriteFails, DisconnectWithPendingCleanup, ProcessDisconnect, NoteClientDeparted
<1>7. CASE ResetGeneration
  BY <1>7 DEF ResetGeneration, ShutdownAll
<1>8. CASE EndEvents \/ NothingPending \/ Terminate \/ Shutdown \/ ResetRequested \/ NoteResetRequested
  BY <1>8 DEF EndEvents, NothingPending, Terminate, Shutdown, Exit, ShutdownAll,
             ResetRequested, NoteResetRequested
<1>9. CASE UNCHANGED vars
  BY <1>9 DEF vars
<1> QED BY <1>1, <1>2, <1>3, <1>4, <1>5, <1>6, <1>7, <1>8, <1>9 DEF Next, LoopStep

\* The registry is emptied with the session whose handshakes it lists.
LEMMA RegistryStep == SessionInv /\ [Next]_vars => RegistryCurrent'
<1> SUFFICES ASSUME SessionInv, [Next]_vars PROVE RegistryCurrent'
  OBVIOUS
<1>a. TypeOK /\ Stages /\ RegistryCurrent
  BY DEF SessionInv
<1> USE <1>a, ServerResetAssumption DEF TypeOK, RegistryCurrent, Stages, Stage,
        threadVars, sessionVars, triggerVars
<1>1. ASSUME NEW c \in Conn, SetupStep(c) PROVE RegistryCurrent'
  BY <1>1 DEF SetupStep, SetupAllocate, SetupFails, SetupWrites, SetupComplete, SetupExit, Send
<1>2. ASSUME NEW c \in Conn, ReaderStep(c) PROVE RegistryCurrent'
  BY <1>2 DEF ReaderStep, ReaderRequest, ReaderEof, ReaderShutdown, Send
<1>3. ASSUME NEW c \in Conn, ReceiveStep(c) PROVE RegistryCurrent'
  BY <1>3 DEF ReceiveStep, Discard, HandleSetupAllocate, ClientEstablished,
             ClientNotInserted, ClientDropped, ReceiveRequest, ClientDisconnected, Taken,
             Allocate, DisconnectWithPendingCleanup, ProcessDisconnect, NoteClientDeparted
<1>4. ASSUME NEW c \in Conn, RequestStep(c) PROVE RegistryCurrent'
  BY <1>4 DEF RequestStep, HandleOther, HandleSetCloseDownMode, HandleKillClient,
             HandleKillZombies, HandleQuit, Popped, DisconnectWithPendingCleanup,
             ProcessDisconnect, NoteClientDeparted
<1>5. ASSUME NEW c \in Conn, Accept(c) \/ InternalClient(c) PROVE RegistryCurrent'
  BY <1>5 DEF Accept, InternalClient, Spawn
<1>6. ASSUME NEW c \in Conn, WriteFails(c) PROVE RegistryCurrent'
  BY <1>6 DEF WriteFails, DisconnectWithPendingCleanup, ProcessDisconnect, NoteClientDeparted
<1>7. CASE ResetGeneration
  BY <1>7 DEF ResetGeneration, ShutdownAll
<1>8. CASE EndEvents \/ NothingPending \/ Terminate \/ Shutdown \/ ResetRequested \/ NoteResetRequested
  BY <1>8 DEF EndEvents, NothingPending, Terminate, Shutdown, Exit, ShutdownAll,
             ResetRequested, NoteResetRequested
<1>9. CASE UNCHANGED vars
  BY <1>9 DEF vars
<1> QED BY <1>1, <1>2, <1>3, <1>4, <1>5, <1>6, <1>7, <1>8, <1>9 DEF Next, LoopStep

\* Every departure is noted, and an established client cancels the note.
LEMMA DrainStep == SessionInv /\ [Next]_vars => DrainExact'
<1> SUFFICES ASSUME SessionInv, [Next]_vars PROVE DrainExact'
  OBVIOUS
<1>a. TypeOK /\ Stages /\ DrainExact
  BY DEF SessionInv
<1> USE <1>a, ServerResetAssumption DEF TypeOK, DrainExact, Counted, Stages, Stage,
        threadVars, sessionVars, triggerVars
<1>1. ASSUME NEW c \in Conn, SetupStep(c) PROVE DrainExact'
  BY <1>1 DEF SetupStep, SetupAllocate, SetupFails, SetupWrites, SetupComplete, SetupExit, Send
<1>2. ASSUME NEW c \in Conn, ReaderStep(c) PROVE DrainExact'
  BY <1>2 DEF ReaderStep, ReaderRequest, ReaderEof, ReaderShutdown, Send
<1>3. ASSUME NEW c \in Conn, ReceiveStep(c) PROVE DrainExact'
  BY <1>3 DEF ReceiveStep, Discard, HandleSetupAllocate, ClientEstablished,
             ClientNotInserted, ClientDropped, ReceiveRequest, ClientDisconnected, Taken,
             Allocate, DisconnectWithPendingCleanup, ProcessDisconnect, NoteClientDeparted
<1>4. ASSUME NEW c \in Conn, RequestStep(c) PROVE DrainExact'
  BY <1>4 DEF RequestStep, HandleOther, HandleSetCloseDownMode, HandleKillClient,
             HandleKillZombies, HandleQuit, Popped, DisconnectWithPendingCleanup,
             ProcessDisconnect, NoteClientDeparted
<1>5. ASSUME NEW c \in Conn, Accept(c) \/ InternalClient(c) PROVE DrainExact'
  BY <1>5 DEF Accept, InternalClient, Spawn
<1>6. ASSUME NEW c \in Conn, WriteFails(c) PROVE DrainExact'
  BY <1>6 DEF WriteFails, DisconnectWithPendingCleanup, ProcessDisconnect, NoteClientDeparted
<1>7. CASE ResetGeneration
  BY <1>7 DEF ResetGeneration, ShutdownAll
<1>8. CASE EndEvents \/ NothingPending \/ Terminate \/ Shutdown \/ ResetRequested \/ NoteResetRequested
  BY <1>8 DEF EndEvents, NothingPending, Terminate, Shutdown, Exit, ShutdownAll,
             ResetRequested, NoteResetRequested
<1>9. CASE UNCHANGED vars
  BY <1>9 DEF vars
<1> QED BY <1>1, <1>2, <1>3, <1>4, <1>5, <1>6, <1>7, <1>8, <1>9 DEF Next, LoopStep

\* Messages keep their tags when one is added...
LEMMA SendTags ==
    ASSUME TypeOK, TagsBound, NEW c \in Conn, born' = born,
           NEW w \in {"allocate", "complete", "request", "gone"}, Send(c, w)
    PROVE  TagsBound'
<1> SUFFICES ASSUME NEW d \in Conn, NEW i \in DOMAIN channel'[d]
             PROVE  channel'[d][i].tag = born[d]
  BY DEF TagsBound
<1>1. CASE d # c
  <2>1. channel'[d] = channel[d]
    BY <1>1, SendEffect
  <2> QED BY <2>1 DEF TagsBound
<1>2. CASE d = c /\ i \in DOMAIN channel[c]
  <2>1. channel'[c][i] = channel[c][i]
    BY <1>2, SendEffect
  <2> QED BY <1>2, <2>1 DEF TagsBound
<1>3. CASE d = c /\ i = Len(channel[c]) + 1
  <2>1. channel'[c][i] = [tag |-> born[c], what |-> w]
    BY <1>3, SendEffect
  <2> QED BY <1>3, <2>1
<1>4. d = c => i \in DOMAIN channel[c] \/ i = Len(channel[c]) + 1
  BY SendEffect
<1> QED BY <1>1, <1>2, <1>3, <1>4

\* ... and when one is taken.
LEMMA TakeTags ==
    ASSUME TypeOK, TagsBound, NEW c \in Conn, born' = born, channel[c] # << >>,
           channel' = [channel EXCEPT ![c] = Tail(@)]
    PROVE  TagsBound'
BY TakeEffect DEF TagsBound

\* Messages keep the tag of their connection.
LEMMA TagsStep == SessionInv /\ [Next]_vars => TagsBound'
<1> SUFFICES ASSUME SessionInv, [Next]_vars PROVE TagsBound'
  OBVIOUS
<1>a. TypeOK /\ TagsBound /\ Stages
  BY DEF SessionInv
<1> USE <1>a, ServerResetAssumption DEF TypeOK, TagsBound, Stages,
        threadVars, sessionVars, triggerVars
<1>1. ASSUME NEW c \in Conn, SetupStep(c) PROVE TagsBound'
  <2>1. CASE SetupAllocate(c)
    BY <2>1, SendTags DEF SetupAllocate
  <2>2. CASE SetupComplete(c)
    BY <2>2, SendTags DEF SetupComplete
  <2>3. CASE SetupFails(c) \/ SetupWrites(c) \/ SetupExit(c)
    BY <2>3 DEF SetupFails, SetupWrites, SetupExit
  <2> QED BY <1>1, <2>1, <2>2, <2>3 DEF SetupStep
<1>2. ASSUME NEW c \in Conn, ReaderStep(c) PROVE TagsBound'
  <2>1. CASE ReaderRequest(c)
    BY <2>1, SendTags DEF ReaderRequest
  <2>2. CASE ReaderEof(c)
    BY <2>2, SendTags DEF ReaderEof
  <2>3. CASE ReaderShutdown(c)
    BY <2>3 DEF ReaderShutdown
  <2> QED BY <1>2, <2>1, <2>2, <2>3 DEF ReaderStep
<1>3. ASSUME NEW c \in Conn, ReceiveStep(c) PROVE TagsBound'
  <2>1. channel[c] # << >> /\ channel' = [channel EXCEPT ![c] = Tail(@)] /\ born' = born
    BY <1>3 DEF ReceiveStep, Discard, HandleSetupAllocate, ClientEstablished,
             ClientNotInserted, ClientDropped, ReceiveRequest, ClientDisconnected, Taken
  <2> QED BY <2>1, TakeTags
<1>4. ASSUME NEW c \in Conn, RequestStep(c) PROVE TagsBound'
  BY <1>4 DEF RequestStep, HandleOther, HandleSetCloseDownMode, HandleKillClient,
             HandleKillZombies, HandleQuit, Popped, DisconnectWithPendingCleanup,
             ProcessDisconnect, NoteClientDeparted
<1>5. ASSUME NEW c \in Conn, Accept(c) \/ InternalClient(c) PROVE TagsBound'
  <2>1. channel[c] = << >> /\ channel \in [Conn -> Seq(Message)]
    BY <1>5 DEF Accept, InternalClient, Spawn, Stages, Stage
  <2> QED BY <1>5, <2>1 DEF Accept, InternalClient, Spawn, TagsBound
<1>6. ASSUME NEW c \in Conn, WriteFails(c) PROVE TagsBound'
  BY <1>6 DEF WriteFails, DisconnectWithPendingCleanup, ProcessDisconnect, NoteClientDeparted
<1>7. CASE ResetGeneration
  BY <1>7 DEF ResetGeneration, ShutdownAll
<1>8. CASE EndEvents \/ NothingPending \/ Terminate \/ Shutdown \/ ResetRequested \/ NoteResetRequested
  BY <1>8 DEF EndEvents, NothingPending, Terminate, Shutdown, Exit, ShutdownAll,
             ResetRequested, NoteResetRequested
<1>9. CASE UNCHANGED vars
  BY <1>9 DEF vars
<1> QED BY <1>1, <1>2, <1>3, <1>4, <1>5, <1>6, <1>7, <1>8, <1>9 DEF Next, LoopStep

\* A departure, if the client held what it returns.
LEMMA DisconnectTypes ==
    ASSUME SessionInv, NEW c \in Conn, ProcessDisconnect(c)
    PROVE  /\ clients' \subseteq Conn /\ retaining' \subseteq clients' /\ zombies' \subseteq Conn
           /\ free' \subseteq 1..MaxBase /\ next' = next /\ shut' \subseteq Conn
<1>1. c \in clients => base[c] \in 1..MaxBase
  BY HeldBase
<1> QED BY <1>1 DEF ProcessDisconnect, SessionInv, TypeOK

\* The trigger's latch is one of its actions.
LEMMA NoteTypes ==
    ASSUME TypeOK, NEW cs, NoteClientDeparted(cs)
    PROVE  drained' \in {"none", "reset", "terminate"} /\ armed' = armed /\ forced' = forced
BY ServerResetAssumption DEF NoteClientDeparted, TypeOK

\* Types.  That a base which comes back was a real one needs its holder.
LEMMA TypeStep == SessionInv /\ [Next]_vars => TypeOK'
<1> SUFFICES ASSUME SessionInv, [Next]_vars PROVE TypeOK'
  OBVIOUS
<1>a. TypeOK
  BY DEF SessionInv
<1> USE <1>a, ServerResetAssumption DEF TypeOK,
        threadVars, sessionVars, triggerVars
<1>1. ASSUME NEW c \in Conn, SetupStep(c) PROVE TypeOK'
  <2>1. CASE SetupAllocate(c)
    BY <2>1, SendEffect DEF SetupAllocate
  <2>2. CASE SetupComplete(c)
    BY <2>2, SendEffect DEF SetupComplete
  <2>3. CASE SetupFails(c) \/ SetupWrites(c) \/ SetupExit(c)
    BY <2>3 DEF SetupFails, SetupWrites, SetupExit
  <2> QED BY <1>1, <2>1, <2>2, <2>3 DEF SetupStep
<1>2. ASSUME NEW c \in Conn, ReaderStep(c) PROVE TypeOK'
  <2>1. CASE ReaderRequest(c)
    BY <2>1, SendEffect DEF ReaderRequest
  <2>2. CASE ReaderEof(c)
    BY <2>2, SendEffect DEF ReaderEof
  <2>3. CASE ReaderShutdown(c)
    BY <2>3 DEF ReaderShutdown
  <2> QED BY <1>2, <2>1, <2>2, <2>3 DEF ReaderStep
<1>3. ASSUME NEW c \in Conn, ReceiveStep(c) PROVE TypeOK'
  <2>1. channel[c] # << >> /\ channel' = [channel EXCEPT ![c] = Tail(@)]
    BY <1>3 DEF ReceiveStep, Discard, HandleSetupAllocate, ClientEstablished,
             ClientNotInserted, ClientDropped, ReceiveRequest, ClientDisconnected, Taken
  <2>2. channel' \in [Conn -> Seq(Message)]
    BY <2>1, TakeEffect
  <2>3. CASE Discard(c) \/ ReceiveRequest(c)
    BY <2>2, <2>3 DEF Discard, ReceiveRequest, Taken
  <2>4. CASE HandleSetupAllocate(c)
    <3>1. PICK b \in 0..MaxBase :
              /\ Allocate(b)
              /\ base' = [base EXCEPT ![c] = b]
              /\ setup' = [setup EXCEPT ![c] = IF b = 0 THEN "failed" ELSE "writing"]
      BY <2>4 DEF HandleSetupAllocate
    <3>2. next' \in 1..(MaxBase + 1) /\ free' \subseteq 1..MaxBase
      <4>1. CASE b \in free /\ free' = free \ {b} /\ next' = next
        BY <4>1
      <4>2. CASE free' = free /\ next <= MaxBase /\ next' = next + 1
        BY <4>2
      <4>3. CASE free' = free /\ next' = next
        BY <4>3
      <4> QED BY <3>1, <4>1, <4>2, <4>3 DEF Allocate
    <3>3. base' \in [Conn -> 0..MaxBase]
      BY <3>1
    <3> QED BY <2>2, <2>4, <3>1, <3>2, <3>3 DEF HandleSetupAllocate, Taken
  <2>5. CASE ClientEstablished(c)
    BY <2>2, <2>5 DEF ClientEstablished, Taken
  <2>6. CASE ClientNotInserted(c)
    BY <2>2, <2>6, NoteTypes DEF ClientNotInserted, Taken
  <2>7. CASE ClientDropped(c)
    <3>1. base[c] \in 1..MaxBase
      <4>1. HasComplete(c) /\ born[c] = generation
        BY <2>7, CompleteTaken DEF ClientDropped
      <4> QED BY <4>1, HeldBase
    <3> QED BY <2>2, <2>7, <3>1, NoteTypes DEF ClientDropped, Taken
  <2>8. CASE ClientDisconnected(c)
    BY <2>2, <2>8, NoteTypes, DisconnectTypes
       DEF ClientDisconnected, Taken, DisconnectWithPendingCleanup
  <2> QED BY <1>3, <2>3, <2>4, <2>5, <2>6, <2>7, <2>8 DEF ReceiveStep
<1>4. ASSUME NEW c \in Conn, RequestStep(c) PROVE TypeOK'
  <2>1. CASE HandleOther(c) \/ HandleSetCloseDownMode(c) \/ HandleKillZombies(c)
    BY <2>1 DEF HandleOther, HandleSetCloseDownMode, HandleKillZombies, Popped
  <2>2. CASE HandleKillClient(c)
    <3>1. PICK d \in clients \ {c} : ProcessDisconnect(d)
      BY <2>2 DEF HandleKillClient
    <3> QED BY <2>2, <3>1, NoteTypes, DisconnectTypes DEF HandleKillClient, Popped
  <2>3. CASE HandleQuit(c)
    BY <2>3, NoteTypes, DisconnectTypes DEF HandleQuit, Popped, DisconnectWithPendingCleanup
  <2> QED BY <1>4, <2>1, <2>2, <2>3 DEF RequestStep
<1>5. ASSUME NEW c \in Conn, Accept(c) \/ InternalClient(c) PROVE TypeOK'
  <2>1. setup' \in {[setup EXCEPT ![c] = "reading"], [setup EXCEPT ![c] = "ended"]}
    BY <1>5 DEF Accept, InternalClient, Spawn
  <2>2. setup' \in [Conn -> {"none", "reading", "waiting", "writing", "sending",
                             "handed", "failed", "ended"}]
    BY <2>1
  <2>3. /\ born' = [born EXCEPT ![c] = generation] /\ generation \in Nat
        /\ born \in [Conn -> Nat] /\ registry' = registry \cup {c}
    BY <1>5 DEF Accept, InternalClient, Spawn
  <2>4. internal' \subseteq Conn
    BY <1>5 DEF Accept, InternalClient
  <2>5. born' \in [Conn -> Nat] /\ registry' \subseteq Conn
    BY <2>3
  <2> QED BY <1>5, <2>2, <2>4, <2>5 DEF Accept, InternalClient
<1>6. ASSUME NEW c \in Conn, WriteFails(c) PROVE TypeOK'
  BY <1>6, NoteTypes, DisconnectTypes DEF WriteFails, DisconnectWithPendingCleanup
<1>7. CASE ResetGeneration
  <2>1. generation' \in Nat
    BY <1>7 DEF ResetGeneration
  <2>2. next' \in 1..(MaxBase + 1)
    BY <1>7 DEF ResetGeneration
  <2> QED BY <1>7, <2>1, <2>2 DEF ResetGeneration, ShutdownAll
<1>8. CASE EndEvents \/ NothingPending \/ Terminate \/ Shutdown \/ ResetRequested \/ NoteResetRequested
  BY <1>8 DEF EndEvents, NothingPending, Terminate, Shutdown, Exit, ShutdownAll,
             ResetRequested, NoteResetRequested
<1>9. CASE UNCHANGED vars
  BY <1>9 DEF vars
<1> QED BY <1>1, <1>2, <1>3, <1>4, <1>5, <1>6, <1>7, <1>8, <1>9 DEF Next, LoopStep

\* A message added by a connection that has reached the core.
LEMMA SendStage ==
    ASSUME SessionInv, NEW c \in Conn, c \in reader, NEW w \in {"request", "gone"}, Send(c, w),
           setup' = setup, clients' = clients, zombies' = zombies, reader' \subseteq reader
    PROVE  Stages'
<1>1. TypeOK /\ Stages
  BY DEF SessionInv
<1> SUFFICES ASSUME NEW d \in Conn PROVE Stage(d)'
  BY DEF Stages
<1>2. CASE d # c
  <2>1. channel'[d] = channel[d]
    BY <1>1, <1>2, SendEffect
  <2> QED BY <1>1, <2>1 DEF Stages, Stage
<1>3. CASE d = c
  <2>1. setup[c] \in {"handed", "ended"}
    BY <1>1 DEF TypeOK, Stages, Stage
  <2>2. \A i \in DOMAIN channel[c] : channel[c][i].what \in {"request", "gone"}
    BY <1>1, <2>1 DEF Stages, Stage
  <2>3. \A i \in DOMAIN channel'[c] : channel'[c][i].what \in {"request", "gone"}
    <3> SUFFICES ASSUME NEW i \in DOMAIN channel'[c]
                 PROVE  channel'[c][i].what \in {"request", "gone"}
      OBVIOUS
    <3>1. CASE i \in DOMAIN channel[c]
      BY <1>1, <2>2, <3>1, SendEffect
    <3>2. CASE i = Len(channel[c]) + 1
      <4>1. channel'[c][i] = [tag |-> born[c], what |-> w]
        BY <1>1, <3>2, SendEffect
      <4> QED BY <4>1
    <3> QED BY <1>1, <3>1, <3>2, SendEffect
  <2> QED BY <1>3, <2>1, <2>3 DEF Stage
<1> QED BY <1>2, <1>3

\* A message taken, if nothing but the connection itself is registered.
LEMMA TakeStage ==
    ASSUME SessionInv, NEW c \in Conn, channel[c] # << >>,
           channel' = [channel EXCEPT ![c] = Tail(@)],
           \A d \in Conn \ {c} : setup'[d] = setup[d],
           clients' \cup zombies' \cup reader' \subseteq clients \cup zombies \cup reader \cup {c},
           \/ setup'[c] = setup[c] /\ (Head(channel[c]).what = "complete" \/
                 (c \in clients' \cup zombies' \cup reader' => c \in clients \cup zombies \cup reader))
           \/ setup[c] = "waiting" /\ setup'[c] \in {"writing", "failed"} /\
                 (c \in clients' \cup zombies' \cup reader' => c \in clients \cup zombies \cup reader)
    PROVE  Stages'
<1>1. TypeOK /\ Stages
  BY DEF SessionInv
<1> SUFFICES ASSUME NEW d \in Conn PROVE Stage(d)'
  BY DEF Stages
<1>2. CASE d # c
  <2>1. channel'[d] = channel[d]
    BY <1>1, <1>2, TakeEffect
  <2> QED BY <1>1, <1>2, <2>1 DEF Stages, Stage
<1>3. CASE d = c
  <2>1. /\ setup[c] \in {"waiting", "handed", "ended"}
        /\ HasComplete(c) <=> Head(channel[c]).what = "complete"
        /\ Head(channel[c]).what = "allocate" <=> setup[c] = "waiting"
        /\ \A i \in DOMAIN channel'[c] : channel'[c][i].what \in {"request", "gone"}
        /\ setup[c] = "waiting" => channel'[c] = << >> /\ c \notin clients \cup zombies \cup reader
    BY TakenStage
  <2> QED BY <1>3, <2>1 DEF Stage
<1> QED BY <1>2, <1>3

\* A connection moves from its setup thread through a message to the core.
LEMMA StagesStep == SessionInv /\ [Next]_vars => Stages'
<1> SUFFICES ASSUME SessionInv, [Next]_vars PROVE Stages'
  OBVIOUS
<1>a. TypeOK /\ Stages
  BY DEF SessionInv
<1> USE <1>a, ServerResetAssumption DEF TypeOK, Stages,
        threadVars, sessionVars, triggerVars
<1>1. ASSUME NEW c \in Conn, SetupStep(c) PROVE Stages'
  <2>1. CASE SetupAllocate(c) \/ SetupComplete(c)
    <3>1. PICK w \in {"allocate", "complete"} :
              /\ Send(c, w)
              /\ \/ setup[c] = "reading" /\ setup'[c] = "waiting" /\ w = "allocate"
                 \/ setup[c] = "sending" /\ setup'[c] = "handed" /\ w = "complete"
              /\ \A d \in Conn \ {c} : setup'[d] = setup[d]
              /\ UNCHANGED <<clients, zombies, reader>>
      BY <2>1 DEF SetupAllocate, SetupComplete
    <3>2. channel[c] = << >> /\ c \notin clients \cup zombies \cup reader
      BY <3>1 DEF Stage
    <3>3. Len(channel'[c]) = 1 /\ channel'[c][1].what = w
      <4>1. channel'[c] = Append(channel[c], [tag |-> born[c], what |-> w])
        BY <3>1 DEF Send
      <4>2. channel'[c] = <<[tag |-> born[c], what |-> w]>>
        BY <3>2, <4>1
      <4> QED BY <4>2
    <3>4. \A d \in Conn \ {c} : channel'[d] = channel[d]
      BY <3>1, SendEffect
    <3> SUFFICES ASSUME NEW d \in Conn PROVE Stage(d)'
      OBVIOUS
    <3>5. CASE d = c
      BY <3>1, <3>2, <3>3, <3>5 DEF Stage
    <3>6. CASE d # c
      BY <3>1, <3>4, <3>6 DEF Stage
    <3> QED BY <3>5, <3>6
  <2>2. CASE SetupFails(c) \/ SetupWrites(c) \/ SetupExit(c)
    BY <2>2 DEF SetupFails, SetupWrites, SetupExit, Stage
  <2> QED BY <1>1, <2>1, <2>2 DEF SetupStep
<1>2. ASSUME NEW c \in Conn, ReaderStep(c) PROVE Stages'
  <2>1. CASE ReaderRequest(c)
    BY <2>1, SendStage DEF ReaderRequest
  <2>2. CASE ReaderEof(c)
    BY <2>2, SendStage DEF ReaderEof
  <2>3. CASE ReaderShutdown(c)
    BY <2>3 DEF ReaderShutdown, Stage
  <2> QED BY <1>2, <2>1, <2>2, <2>3 DEF ReaderStep
<1>3. ASSUME NEW c \in Conn, ReceiveStep(c) PROVE Stages'
  <2>1. channel[c] # << >> /\ channel' = [channel EXCEPT ![c] = Tail(@)]
    BY <1>3 DEF ReceiveStep, Discard, HandleSetupAllocate, ClientEstablished,
             ClientNotInserted, ClientDropped, ReceiveRequest, ClientDisconnected, Taken
  <2>2. CASE HandleSetupAllocate(c)
    <3>1. setup[c] = "waiting"
      <4>1. Head(channel[c]).what = "allocate"
        BY <2>2 DEF HandleSetupAllocate, Taken
      <4> QED BY <2>1, <4>1, TakenStage
    <3>2. /\ setup'[c] \in {"writing", "failed"}
          /\ \A d \in Conn \ {c} : setup'[d] = setup[d]
          /\ UNCHANGED <<clients, zombies, reader>>
      BY <2>2 DEF HandleSetupAllocate
    <3> QED BY <2>1, <3>1, <3>2, TakeStage
  <2>3. CASE ClientEstablished(c)
    <3>1. /\ Head(channel[c]).what = "complete"
          /\ setup' = setup /\ zombies' = zombies
          /\ clients' = clients \cup {c} /\ reader' = reader \cup {c}
      BY <2>3 DEF ClientEstablished, Taken
    <3> QED BY <2>1, <3>1, TakeStage
  <2>4. CASE ClientDropped(c)
    <3>1. /\ Head(channel[c]).what = "complete"
          /\ UNCHANGED <<setup, clients, zombies>> /\ reader' \subseteq reader \cup {c}
      BY <2>4 DEF ClientDropped, Taken
    <3> QED BY <2>1, <3>1, TakeStage
  <2>5. CASE Discard(c) \/ ClientNotInserted(c) \/ ReceiveRequest(c)
    <3>1. UNCHANGED <<setup, clients, zombies, reader>>
      BY <2>5 DEF Discard, ClientNotInserted, ReceiveRequest
    <3> QED BY <2>1, <3>1, TakeStage
  <2>6. CASE ClientDisconnected(c)
    <3>1. /\ clients' = clients \ {c} /\ reader' = reader /\ setup' = setup
          /\ zombies' = IF c \in retaining THEN zombies \cup {c} ELSE zombies
      BY <2>6 DEF ClientDisconnected, DisconnectWithPendingCleanup, ProcessDisconnect
    <3>2. clients' \cup zombies' \cup reader' \subseteq clients \cup zombies \cup reader
      BY <3>1
    <3> QED BY <2>1, <3>1, <3>2, TakeStage
  <2> QED BY <1>3, <2>2, <2>3, <2>4, <2>5, <2>6 DEF ReceiveStep
<1>4. ASSUME NEW c \in Conn, RequestStep(c) PROVE Stages'
  BY <1>4 DEF RequestStep, HandleOther, HandleSetCloseDownMode, HandleKillClient,
             HandleKillZombies, HandleQuit, Popped, DisconnectWithPendingCleanup,
             ProcessDisconnect, NoteClientDeparted, Stage
<1>5. ASSUME NEW c \in Conn, Accept(c) \/ InternalClient(c) PROVE Stages'
  <2>1. /\ setup[c] = "none" /\ setup'[c] \in {"reading", "ended"}
        /\ \A d \in Conn \ {c} : setup'[d] = setup[d]
        /\ UNCHANGED <<channel, clients, zombies, reader>>
    BY <1>5 DEF Accept, InternalClient, Spawn
  <2> SUFFICES ASSUME NEW d \in Conn PROVE Stage(d)'
    OBVIOUS
  <2>2. CASE d = c
    BY <2>1, <2>2 DEF Stage
  <2>3. CASE d # c
    BY <2>1, <2>3 DEF Stage
  <2> QED BY <2>2, <2>3
<1>6. ASSUME NEW c \in Conn, WriteFails(c) PROVE Stages'
  BY <1>6 DEF WriteFails, DisconnectWithPendingCleanup, ProcessDisconnect, NoteClientDeparted, Stage
<1>7. CASE ResetGeneration
  BY <1>7 DEF ResetGeneration, ShutdownAll, Stage
<1>8. CASE EndEvents \/ NothingPending \/ Terminate \/ Shutdown \/ ResetRequested \/ NoteResetRequested
  BY <1>8 DEF EndEvents, NothingPending, Terminate, Shutdown, Exit, ShutdownAll,
             ResetRequested, NoteResetRequested, Stage
<1>9. CASE UNCHANGED vars
  BY <1>9 DEF vars, Stage
<1> QED BY <1>1, <1>2, <1>3, <1>4, <1>5, <1>6, <1>7, <1>8, <1>9 DEF Next, LoopStep

-------------------------------------------------------------------------------
\* A message on its way to the core, added...
LEMMA SendComplete ==
    ASSUME TypeOK, NEW c \in Conn,
           NEW w \in {"allocate", "complete", "request", "gone"}, Send(c, w)
    PROVE  /\ \A d \in Conn : HasComplete(d) => HasComplete(d)'
           /\ \A d \in Conn : w # "complete" \/ d # c => (HasComplete(d)' => HasComplete(d))
           /\ w = "complete" => HasComplete(c)'
<1>1. ASSUME NEW d \in Conn, HasComplete(d) PROVE HasComplete(d)'
  <2>1. CASE d # c
    <3>1. channel'[d] = channel[d]
      BY <2>1, SendEffect
    <3> QED BY <1>1, <3>1 DEF HasComplete
  <2>2. CASE d = c
    <3>1. PICK i \in DOMAIN channel[c] : channel[c][i].what = "complete"
      BY <1>1, <2>2 DEF HasComplete
    <3>2. i \in DOMAIN channel'[c] /\ channel'[c][i] = channel[c][i]
      BY SendEffect
    <3> QED BY <2>2, <3>1, <3>2 DEF HasComplete
  <2> QED BY <2>1, <2>2
<1>2. ASSUME NEW d \in Conn, d # c, HasComplete(d)' PROVE HasComplete(d)
  <2>1. channel'[d] = channel[d]
    BY <1>2, SendEffect
  <2> QED BY <1>2, <2>1 DEF HasComplete
<1>3. channel'[c][Len(channel[c]) + 1].what = w
  <2>1. channel'[c][Len(channel[c]) + 1] = [tag |-> born[c], what |-> w]
    BY SendEffect
  <2> QED BY <2>1
<1>4. ASSUME w # "complete", HasComplete(c)' PROVE HasComplete(c)
  <2>1. PICK i \in DOMAIN channel'[c] : channel'[c][i].what = "complete"
    BY <1>4 DEF HasComplete
  <2>2. i # Len(channel[c]) + 1
    BY <1>3, <1>4, <2>1
  <2>3. i \in DOMAIN channel[c] /\ channel'[c][i] = channel[c][i]
    BY <2>2, SendEffect
  <2> QED BY <2>1, <2>3 DEF HasComplete
<1>5. ASSUME w = "complete" PROVE HasComplete(c)'
  BY <1>3, <1>5, SendEffect DEF HasComplete
<1> QED BY <1>1, <1>2, <1>4, <1>5

\* ... and taken.
LEMMA TakeComplete ==
    ASSUME SessionInv, NEW c \in Conn, channel[c] # << >>,
           channel' = [channel EXCEPT ![c] = Tail(@)]
    PROVE  /\ \A d \in Conn \ {c} : HasComplete(d)' <=> HasComplete(d)
           /\ ~HasComplete(c)'
           /\ HasComplete(c) <=> Head(channel[c]).what = "complete"
<1>1. TypeOK
  BY DEF SessionInv
<1>2. ASSUME NEW d \in Conn \ {c} PROVE HasComplete(d)' <=> HasComplete(d)
  BY <1>1, <1>2, TakeEffect DEF HasComplete
<1>3. ~HasComplete(c)'
  BY TakenStage DEF HasComplete
<1> QED BY <1>2, <1>3, TakenStage

\* A stream leaves its setup thread in a message and the message for the client.
LEMMA HandedOverStep == SessionInv /\ [Next]_vars => HandedOver'
<1> SUFFICES ASSUME SessionInv, [Next]_vars PROVE HandedOver'
  OBVIOUS
<1>a. TypeOK /\ HandedOver
  BY DEF SessionInv
<1> USE <1>a, ServerResetAssumption DEF TypeOK, HandedOver,
        threadVars, sessionVars, triggerVars
<1>1. ASSUME NEW c \in Conn, SetupStep(c) PROVE HandedOver'
  <2>1. CASE SetupAllocate(c)
    <3>1. Send(c, "allocate")
      BY <2>1 DEF SetupAllocate
    <3> QED BY <2>1, <3>1, SendComplete DEF SetupAllocate
  <2>2. CASE SetupComplete(c)
    <3>1. Send(c, "complete")
      BY <2>2 DEF SetupComplete
    <3> QED BY <2>2, <3>1, SendComplete DEF SetupComplete
  <2>3. CASE SetupFails(c) \/ SetupWrites(c) \/ SetupExit(c)
    <3>1. /\ setup'[c] # "handed" /\ \A d \in Conn \ {c} : setup'[d] = setup[d]
          /\ shut \subseteq shut' /\ UNCHANGED <<channel, clients>>
      BY <2>3 DEF SetupFails, SetupWrites, SetupExit
    <3>2. \A d \in Conn : HasComplete(d)' <=> HasComplete(d)
      BY <3>1 DEF HasComplete
    <3> QED BY <3>1, <3>2
  <2> QED BY <1>1, <2>1, <2>2, <2>3 DEF SetupStep
<1>2. ASSUME NEW c \in Conn, ReaderStep(c) PROVE HandedOver'
  <2>1. CASE ReaderRequest(c)
    <3>1. Send(c, "request")
      BY <2>1 DEF ReaderRequest
    <3> QED BY <2>1, <3>1, SendComplete DEF ReaderRequest
  <2>2. CASE ReaderEof(c)
    <3>1. Send(c, "gone")
      BY <2>2 DEF ReaderEof
    <3> QED BY <2>2, <3>1, SendComplete DEF ReaderEof
  <2>3. CASE ReaderShutdown(c)
    BY <2>3 DEF ReaderShutdown, HasComplete
  <2> QED BY <1>2, <2>1, <2>2, <2>3 DEF ReaderStep
<1>3. ASSUME NEW c \in Conn, ReceiveStep(c) PROVE HandedOver'
  <2>1. channel[c] # << >> /\ channel' = [channel EXCEPT ![c] = Tail(@)]
    BY <1>3 DEF ReceiveStep, Discard, HandleSetupAllocate, ClientEstablished,
             ClientNotInserted, ClientDropped, ReceiveRequest, ClientDisconnected, Taken
  <2>2. /\ \A d \in Conn \ {c} : HasComplete(d)' <=> HasComplete(d)
        /\ HasComplete(c) <=> Head(channel[c]).what = "complete"
    BY <2>1, TakeComplete
  <2>3. CASE Discard(c)
    BY <2>2, <2>3 DEF Discard
  <2>4. CASE HandleSetupAllocate(c)
    <3>1. setup[c] = "waiting" /\ ~HasComplete(c)
      <4>1. Head(channel[c]).what = "allocate"
        BY <2>4 DEF HandleSetupAllocate, Taken
      <4> QED BY <2>1, <2>2, <4>1, TakenStage
    <3>2. /\ setup'[c] \in {"writing", "failed"}
          /\ \A d \in Conn \ {c} : setup'[d] = setup[d]
          /\ UNCHANGED <<clients, shut, registry>>
      BY <2>4 DEF HandleSetupAllocate
    <3> QED BY <2>2, <3>1, <3>2
  <2>5. CASE ClientEstablished(c)
    BY <2>2, <2>5 DEF ClientEstablished
  <2>6. CASE ClientNotInserted(c) \/ ClientDropped(c)
    BY <2>2, <2>6 DEF ClientNotInserted, ClientDropped
  <2>7. CASE ReceiveRequest(c)
    <3>1. ~HasComplete(c)
      BY <2>2, <2>7 DEF ReceiveRequest, Taken
    <3> QED BY <2>2, <2>7, <3>1 DEF ReceiveRequest
  <2>8. CASE ClientDisconnected(c)
    <3>1. ~HasComplete(c)
      BY <2>2, <2>8 DEF ClientDisconnected, Taken
    <3> QED BY <2>2, <2>8, <3>1 DEF ClientDisconnected, DisconnectWithPendingCleanup, ProcessDisconnect
  <2> QED BY <1>3, <2>3, <2>4, <2>5, <2>6, <2>7, <2>8 DEF ReceiveStep
<1>4. ASSUME NEW c \in Conn, RequestStep(c) PROVE HandedOver'
  BY <1>4 DEF RequestStep, HandleOther, HandleSetCloseDownMode, HandleKillClient,
             HandleKillZombies, HandleQuit, Popped, DisconnectWithPendingCleanup,
             ProcessDisconnect, NoteClientDeparted, HasComplete
<1>5. ASSUME NEW c \in Conn, Accept(c) \/ InternalClient(c) PROVE HandedOver'
  <2>1. /\ setup[c] = "none" /\ setup'[c] \in {"reading", "ended"}
        /\ \A d \in Conn \ {c} : setup'[d] = setup[d]
        /\ UNCHANGED <<channel, clients, shut>>
        /\ registry' = registry \cup {c}
    BY <1>5 DEF Accept, InternalClient, Spawn
  <2>2. \A d \in Conn : HasComplete(d)' <=> HasComplete(d)
    BY <2>1 DEF HasComplete
  <2> QED BY <2>1, <2>2
<1>6. ASSUME NEW c \in Conn, WriteFails(c) PROVE HandedOver'
  BY <1>6 DEF WriteFails, DisconnectWithPendingCleanup, ProcessDisconnect, NoteClientDeparted, HasComplete
<1>7. CASE ResetGeneration
  BY <1>7 DEF ResetGeneration, ShutdownAll, HasComplete
<1>8. CASE EndEvents \/ NothingPending \/ Terminate \/ Shutdown \/ ResetRequested \/ NoteResetRequested
  BY <1>8 DEF EndEvents, NothingPending, Terminate, Shutdown, Exit, ShutdownAll,
             ResetRequested, NoteResetRequested, HasComplete
<1>9. CASE UNCHANGED vars
  BY <1>9 DEF vars, HasComplete
<1> QED BY <1>1, <1>2, <1>3, <1>4, <1>5, <1>6, <1>7, <1>8, <1>9 DEF Next, LoopStep

\* Wherever the stream goes, the registry lets go of it only afterwards.
LEMMA LocatedStep == SessionInv /\ [Next]_vars => Located'
<1> SUFFICES ASSUME SessionInv, [Next]_vars PROVE Located'
  OBVIOUS
<1>a. TypeOK /\ Located /\ HandedOver
  BY DEF SessionInv
<1> USE <1>a, ServerResetAssumption DEF TypeOK, Located, HandedOver,
        threadVars, sessionVars, triggerVars
<1>1. ASSUME NEW c \in Conn, SetupStep(c) PROVE Located'
  <2>1. CASE SetupAllocate(c)
    <3>1. Send(c, "allocate")
      BY <2>1 DEF SetupAllocate
    <3> QED BY <2>1, <3>1, SendComplete DEF SetupAllocate
  <2>2. CASE SetupComplete(c)
    <3>1. Send(c, "complete")
      BY <2>2 DEF SetupComplete
    <3> QED BY <2>2, <3>1, SendComplete DEF SetupComplete
  <2>3. CASE SetupFails(c) \/ SetupWrites(c) \/ SetupExit(c)
    BY <2>3 DEF SetupFails, SetupWrites, SetupExit, HasComplete
  <2> QED BY <1>1, <2>1, <2>2, <2>3 DEF SetupStep
<1>2. ASSUME NEW c \in Conn, ReaderStep(c) PROVE Located'
  <2>1. CASE ReaderRequest(c)
    <3>1. Send(c, "request")
      BY <2>1 DEF ReaderRequest
    <3> QED BY <2>1, <3>1, SendComplete DEF ReaderRequest
  <2>2. CASE ReaderEof(c)
    <3>1. Send(c, "gone")
      BY <2>2 DEF ReaderEof
    <3> QED BY <2>2, <3>1, SendComplete DEF ReaderEof
  <2>3. CASE ReaderShutdown(c)
    BY <2>3 DEF ReaderShutdown, HasComplete
  <2> QED BY <1>2, <2>1, <2>2, <2>3 DEF ReaderStep
<1>3. ASSUME NEW c \in Conn, ReceiveStep(c) PROVE Located'
  <2>1. channel[c] # << >> /\ channel' = [channel EXCEPT ![c] = Tail(@)]
    BY <1>3 DEF ReceiveStep, Discard, HandleSetupAllocate, ClientEstablished,
             ClientNotInserted, ClientDropped, ReceiveRequest, ClientDisconnected, Taken
  <2>2. /\ \A d \in Conn \ {c} : HasComplete(d)' <=> HasComplete(d)
        /\ HasComplete(c) <=> Head(channel[c]).what = "complete"
    BY <2>1, TakeComplete
  <2>3. CASE Discard(c)
    BY <2>2, <2>3 DEF Discard
  <2>4. CASE HandleSetupAllocate(c)
    <3>1. setup[c] = "waiting" /\ ~HasComplete(c)
      <4>1. Head(channel[c]).what = "allocate"
        BY <2>4 DEF HandleSetupAllocate, Taken
      <4> QED BY <2>1, <2>2, <4>1, TakenStage
    <3>2. /\ setup'[c] \in {"writing", "failed"}
          /\ \A d \in Conn \ {c} : setup'[d] = setup[d]
          /\ UNCHANGED <<clients, shut, registry>>
      BY <2>4 DEF HandleSetupAllocate
    <3> QED BY <2>2, <3>1, <3>2
  <2>5. CASE ClientEstablished(c)
    BY <2>2, <2>5 DEF ClientEstablished
  <2>6. CASE ClientNotInserted(c) \/ ClientDropped(c)
    BY <2>2, <2>6 DEF ClientNotInserted, ClientDropped
  <2>7. CASE ReceiveRequest(c)
    <3>1. ~HasComplete(c)
      BY <2>2, <2>7 DEF ReceiveRequest, Taken
    <3> QED BY <2>2, <2>7, <3>1 DEF ReceiveRequest
  <2>8. CASE ClientDisconnected(c)
    <3>1. ~HasComplete(c)
      BY <2>2, <2>8 DEF ClientDisconnected, Taken
    <3> QED BY <2>2, <2>8, <3>1 DEF ClientDisconnected, DisconnectWithPendingCleanup, ProcessDisconnect
  <2> QED BY <1>3, <2>3, <2>4, <2>5, <2>6, <2>7, <2>8 DEF ReceiveStep
<1>4. ASSUME NEW c \in Conn, RequestStep(c) PROVE Located'
  BY <1>4 DEF RequestStep, HandleOther, HandleSetCloseDownMode, HandleKillClient,
             HandleKillZombies, HandleQuit, Popped, DisconnectWithPendingCleanup,
             ProcessDisconnect, NoteClientDeparted, HasComplete
<1>5. ASSUME NEW c \in Conn, Accept(c) \/ InternalClient(c) PROVE Located'
  <2>1. /\ setup[c] = "none" /\ setup'[c] \in {"reading", "ended"}
        /\ \A d \in Conn \ {c} : setup'[d] = setup[d]
        /\ UNCHANGED <<channel, clients, shut>>
        /\ registry' = registry \cup {c}
    BY <1>5 DEF Accept, InternalClient, Spawn
  <2>2. \A d \in Conn : HasComplete(d)' <=> HasComplete(d)
    BY <2>1 DEF HasComplete
  <2> QED BY <2>1, <2>2
<1>6. ASSUME NEW c \in Conn, WriteFails(c) PROVE Located'
  BY <1>6 DEF WriteFails, DisconnectWithPendingCleanup, ProcessDisconnect, NoteClientDeparted, HasComplete
<1>7. CASE ResetGeneration
  BY <1>7 DEF ResetGeneration, ShutdownAll, HasComplete
<1>8. CASE EndEvents \/ NothingPending \/ Terminate \/ Shutdown \/ ResetRequested \/ NoteResetRequested
  BY <1>8 DEF EndEvents, NothingPending, Terminate, Shutdown, Exit, ShutdownAll,
             ResetRequested, NoteResetRequested, HasComplete
<1>9. CASE UNCHANGED vars
  BY <1>9 DEF vars, HasComplete
<1> QED BY <1>1, <1>2, <1>3, <1>4, <1>5, <1>6, <1>7, <1>8, <1>9 DEF Next, LoopStep

-------------------------------------------------------------------------------
\* Holders, said with HasComplete.
LEMMA HoldsDef ==
    ASSUME NEW c
    PROVE  Holds(c) <=> /\ born[c] = generation
                        /\ \/ c \in clients \cup zombies
                           \/ setup[c] \in {"writing", "sending"}
                           \/ HasComplete(c)
BY DEF Holds, HasComplete

\* The same of the next state.
LEMMA HoldsNext ==
    ASSUME NEW c
    PROVE  Holds(c)' <=> /\ born'[c] = generation'
                         /\ \/ c \in clients' \cup zombies'
                            \/ setup'[c] \in {"writing", "sending"}
                            \/ HasComplete(c)'
BY DEF Holds, HasComplete

\* Nobody new holds a base, and the allocator stays as it is.
LEMMA FewerHolders ==
    ASSUME BasesDistinct, UNCHANGED <<base, next, free>>,
           \A d \in Conn : Holds(d)' => Holds(d)
    PROVE  BasesDistinct'
BY DEF BasesDistinct

\* A base goes back when nobody holds it any more.
LEMMA BaseReturned ==
    ASSUME BasesDistinct, NEW c \in Conn, Holds(c), ~Holds(c)', UNCHANGED <<base, next>>,
           free' = free \cup {base[c]}, \A d \in Conn : Holds(d)' => Holds(d)
    PROVE  BasesDistinct'
<1> SUFFICES ASSUME NEW d \in Conn, Holds(d)'
             PROVE  /\ base[d] \in (1..(next - 1)) \ free'
                    /\ \A e \in Conn \ {d} : Holds(e)' => base[e] # base[d]
  BY DEF BasesDistinct
<1>1. d # c /\ Holds(d)
  OBVIOUS
<1>2. base[d] # base[c] /\ base[d] \in (1..(next - 1)) \ free
  BY <1>1 DEF BasesDistinct
<1> QED BY <1>1, <1>2 DEF BasesDistinct

\* A departure: a client that retains its resources holds on to its base.
LEMMA DisconnectBases ==
    ASSUME SessionInv, NEW c \in Conn, ProcessDisconnect(c),
           UNCHANGED <<generation, born, base, setup>>,
           \A d \in Conn : HasComplete(d)' => HasComplete(d)
    PROVE  BasesDistinct'
<1>1. TypeOK /\ Stages /\ Apart /\ BasesDistinct
  BY DEF SessionInv
<1>2. \A d \in Conn : d \in clients' \cup zombies' => d \in clients \cup zombies
  BY <1>1 DEF ProcessDisconnect, TypeOK
<1>3. \A d \in Conn : Holds(d)' => Holds(d)
  BY <1>2, HoldsDef, HoldsNext
<1>4. CASE c \in clients \ retaining
  <2>1. setup[c] \in {"handed", "ended"} /\ ~HasComplete(c)
    <3>1. setup[c] \in {"handed", "ended"}
      BY <1>1, <1>4 DEF TypeOK, Stages, Stage
    <3> QED BY <1>1, <1>4, <3>1 DEF Stages, Stage, HasComplete
  <2>2. c \notin clients' \cup zombies' /\ free' = free \cup {base[c]} /\ next' = next
    BY <1>1, <1>4 DEF ProcessDisconnect, Apart
  <2>3. ~Holds(c)'
    BY <2>1, <2>2, HoldsNext
  <2>4. Holds(c)
    BY <1>4, HeldBase
  <2> QED BY <1>1, <1>3, <2>2, <2>3, <2>4, BaseReturned
<1>5. CASE c \notin clients \ retaining
  <2>1. free' = free /\ next' = next
    BY <1>5 DEF ProcessDisconnect
  <2> QED BY <1>1, <1>3, <2>1, FewerHolders
<1> QED BY <1>4, <1>5

\* An allocation takes a base that nobody holds.
LEMMA AllocateBases ==
    ASSUME SessionInv, NEW c \in Conn, HandleSetupAllocate(c)
    PROVE  BasesDistinct'
<1>1. TypeOK /\ Stages /\ BasesDistinct
  BY DEF SessionInv
<1>2. channel[c] # << >> /\ channel' = [channel EXCEPT ![c] = Tail(@)]
  BY DEF HandleSetupAllocate, Taken
<1>3. /\ \A d \in Conn \ {c} : HasComplete(d)' <=> HasComplete(d)
      /\ ~HasComplete(c)'
  BY <1>2, TakeComplete
<1>4. PICK b \in 0..MaxBase :
          /\ Allocate(b)
          /\ base' = [base EXCEPT ![c] = b]
          /\ setup' = [setup EXCEPT ![c] = IF b = 0 THEN "failed" ELSE "writing"]
  BY DEF HandleSetupAllocate
<1>5. UNCHANGED <<generation, born, clients, zombies>>
  BY DEF HandleSetupAllocate
<1>6. c \notin clients \cup zombies
  <2>1. Head(channel[c]).what = "allocate"
    BY DEF HandleSetupAllocate, Taken
  <2> QED BY <1>2, <2>1, TakenStage
<1>7. \A d \in Conn \ {c} : base'[d] = base[d] /\ setup'[d] = setup[d] /\ (Holds(d)' => Holds(d))
  BY <1>1, <1>3, <1>4, <1>5, HoldsDef, HoldsNext DEF TypeOK
<1>8. base'[c] = b /\ setup'[c] = IF b = 0 THEN "failed" ELSE "writing"
  BY <1>1, <1>4 DEF TypeOK
<1>9. Holds(c)' => b # 0
  BY <1>3, <1>5, <1>6, <1>8, HoldsNext
<1>10. \A d \in Conn \ {c} : Holds(d)' => base[d] \in (1..(next - 1)) \ free
  BY <1>1, <1>7 DEF BasesDistinct
<1>11. /\ next' \in Nat /\ next <= next' /\ free' \subseteq free /\ next \in Nat \ {0}
       /\ b # 0 => b \in (1..(next' - 1)) \ free' /\ b \notin (1..(next - 1)) \ free
  <2>1. MaxBase \in Nat /\ next \in 1..(MaxBase + 1) /\ free \subseteq 1..MaxBase
    BY <1>1, ServerResetAssumption DEF TypeOK
  <2>2. free \subseteq 1..(next - 1)
    BY DEF SessionInv, FreeBelow
  <2>3. CASE b \in free /\ free' = free \ {b} /\ next' = next
    BY <2>1, <2>2, <2>3
  <2>4. CASE free = {} /\ b = next /\ next' = next + 1 /\ free' = free
    BY <2>1, <2>4
  <2>5. CASE b = 0 /\ next' = next /\ free' = free
    BY <2>1, <2>5
  <2> QED BY <1>4, <2>3, <2>4, <2>5 DEF Allocate
<1> SUFFICES ASSUME NEW d \in Conn, Holds(d)'
             PROVE  /\ base'[d] \in (1..(next' - 1)) \ free'
                    /\ \A e \in Conn \ {d} : Holds(e)' => base'[e] # base'[d]
  BY DEF BasesDistinct
<1>12. CASE d = c
  BY <1>7, <1>8, <1>9, <1>10, <1>11, <1>12
<1>13. CASE d # c
  <2>1. base'[d] \in (1..(next' - 1)) \ free'
    BY <1>7, <1>10, <1>11, <1>13
  <2>2. ASSUME NEW e \in Conn \ {d}, Holds(e)' PROVE base'[e] # base'[d]
    <3>1. CASE e = c
      BY <1>7, <1>8, <1>9, <1>10, <1>11, <1>13, <2>2, <3>1
    <3>2. CASE e # c
      BY <1>1, <1>7, <1>13, <2>2, <3>2 DEF BasesDistinct
    <3> QED BY <3>1, <3>2
  <2> QED BY <2>1, <2>2
<1> QED BY <1>12, <1>13

\* Only bases that were given out come back.
LEMMA FreeBelowStep == SessionInv /\ [Next]_vars => FreeBelow'
<1> SUFFICES ASSUME SessionInv, [Next]_vars PROVE FreeBelow'
  OBVIOUS
<1>a. TypeOK /\ FreeBelow
  BY DEF SessionInv
<1> USE <1>a, ServerResetAssumption DEF TypeOK, FreeBelow,
        threadVars, sessionVars, triggerVars
<1>1. ASSUME NEW c \in Conn, SetupStep(c) PROVE FreeBelow'
  BY <1>1 DEF SetupStep, SetupAllocate, SetupFails, SetupWrites, SetupComplete, SetupExit, Send
<1>2. ASSUME NEW c \in Conn, ReaderStep(c) PROVE FreeBelow'
  BY <1>2 DEF ReaderStep, ReaderRequest, ReaderEof, ReaderShutdown, Send
<1>3. ASSUME NEW c \in Conn, ReceiveStep(c) PROVE FreeBelow'
  <2>1. CASE HandleSetupAllocate(c)
    <3>1. PICK b \in 0..MaxBase : Allocate(b)
      BY <2>1 DEF HandleSetupAllocate
    <3> QED BY <3>1 DEF Allocate
  <2>2. CASE ClientDropped(c)
    <3>1. base[c] \in 1..(next - 1)
      <4>1. HasComplete(c) /\ born[c] = generation
        BY <2>2, CompleteTaken DEF ClientDropped
      <4> QED BY <4>1, HeldBase
    <3> QED BY <2>2, <3>1 DEF ClientDropped
  <2>3. CASE ClientDisconnected(c)
    BY <2>3, HeldBase DEF ClientDisconnected, DisconnectWithPendingCleanup, ProcessDisconnect
  <2>4. CASE Discard(c) \/ ClientEstablished(c) \/ ClientNotInserted(c) \/ ReceiveRequest(c)
    BY <2>4 DEF Discard, ClientEstablished, ClientNotInserted, ReceiveRequest
  <2> QED BY <1>3, <2>1, <2>2, <2>3, <2>4 DEF ReceiveStep
<1>4. ASSUME NEW c \in Conn, RequestStep(c) PROVE FreeBelow'
  <2>1. CASE HandleOther(c) \/ HandleSetCloseDownMode(c) \/ HandleKillZombies(c)
    BY <2>1 DEF HandleOther, HandleSetCloseDownMode, HandleKillZombies
  <2>2. CASE HandleKillClient(c)
    <3>1. PICK d \in clients \ {c} : ProcessDisconnect(d)
      BY <2>2 DEF HandleKillClient
    <3> QED BY <3>1, HeldBase DEF ProcessDisconnect
  <2>3. CASE HandleQuit(c)
    BY <2>3, HeldBase DEF HandleQuit, DisconnectWithPendingCleanup, ProcessDisconnect
  <2> QED BY <1>4, <2>1, <2>2, <2>3 DEF RequestStep
<1>5. ASSUME NEW c \in Conn, Accept(c) \/ InternalClient(c) PROVE FreeBelow'
  BY <1>5 DEF Accept, InternalClient, Spawn
<1>6. ASSUME NEW c \in Conn, WriteFails(c) PROVE FreeBelow'
  BY <1>6, HeldBase DEF WriteFails, DisconnectWithPendingCleanup, ProcessDisconnect
<1>7. CASE ResetGeneration
  BY <1>7 DEF ResetGeneration, ShutdownAll
<1>8. CASE EndEvents \/ NothingPending \/ Terminate \/ Shutdown \/ ResetRequested \/ NoteResetRequested
  BY <1>8 DEF EndEvents, NothingPending, Terminate, Shutdown, Exit, ShutdownAll,
             ResetRequested, NoteResetRequested
<1>9. CASE UNCHANGED vars
  BY <1>9 DEF vars
<1> QED BY <1>1, <1>2, <1>3, <1>4, <1>5, <1>6, <1>7, <1>8, <1>9 DEF Next, LoopStep

\* One holder for every base, whatever happens.
LEMMA BasesStep == SessionInv /\ [Next]_vars => BasesDistinct'
<1> SUFFICES ASSUME SessionInv, [Next]_vars PROVE BasesDistinct'
  OBVIOUS
<1>a. TypeOK /\ BasesDistinct
  BY DEF SessionInv
<1> USE <1>a, ServerResetAssumption DEF TypeOK,
        threadVars, sessionVars, triggerVars
<1>1. ASSUME NEW c \in Conn, SetupStep(c) PROVE BasesDistinct'
  <2>1. /\ UNCHANGED <<generation, born, clients, zombies, base, next, free>>
        /\ \A d \in Conn \ {c} : setup'[d] = setup[d]
    BY <1>1 DEF SetupStep, SetupAllocate, SetupFails, SetupWrites, SetupComplete, SetupExit
  <2>2. \A d \in Conn : Holds(d)' => Holds(d)
    <3>1. CASE SetupAllocate(c)
      <4>1. Send(c, "allocate") /\ setup'[c] = "waiting"
        BY <3>1 DEF SetupAllocate
      <4>2. \A d \in Conn : HasComplete(d)' => HasComplete(d)
        BY <4>1, SendComplete
      <4> QED BY <2>1, <4>1, <4>2, HoldsDef, HoldsNext
    <3>2. CASE SetupComplete(c)
      <4>1. Send(c, "complete") /\ setup[c] = "sending"
        BY <3>2 DEF SetupComplete
      <4>2. \A d \in Conn \ {c} : HasComplete(d)' => HasComplete(d)
        BY <4>1, SendComplete
      <4> QED BY <2>1, <4>1, <4>2, HoldsDef, HoldsNext
    <3>3. CASE SetupFails(c) \/ SetupWrites(c) \/ SetupExit(c)
      <4>1. /\ channel' = channel
            /\ setup'[c] \in {"writing", "sending"} => setup[c] \in {"writing", "sending"}
        BY <3>3 DEF SetupFails, SetupWrites, SetupExit
      <4>2. \A d \in Conn : HasComplete(d)' => HasComplete(d)
        BY <4>1 DEF HasComplete
      <4> QED BY <2>1, <4>1, <4>2, HoldsDef, HoldsNext
    <3> QED BY <1>1, <3>1, <3>2, <3>3 DEF SetupStep
  <2> QED BY <2>1, <2>2, FewerHolders
<1>2. ASSUME NEW c \in Conn, ReaderStep(c) PROVE BasesDistinct'
  <2>1. UNCHANGED <<generation, born, clients, zombies, base, next, free, setup>>
    BY <1>2 DEF ReaderStep, ReaderRequest, ReaderEof, ReaderShutdown
  <2>2. \A d \in Conn : HasComplete(d)' => HasComplete(d)
    <3>1. CASE ReaderRequest(c)
      <4>1. Send(c, "request")
        BY <3>1 DEF ReaderRequest
      <4> QED BY <4>1, SendComplete
    <3>2. CASE ReaderEof(c)
      <4>1. Send(c, "gone")
        BY <3>2 DEF ReaderEof
      <4> QED BY <4>1, SendComplete
    <3>3. CASE ReaderShutdown(c)
      BY <3>3 DEF ReaderShutdown, HasComplete
    <3> QED BY <1>2, <3>1, <3>2, <3>3 DEF ReaderStep
  <2>3. \A d \in Conn : Holds(d)' => Holds(d)
    BY <2>1, <2>2, HoldsDef, HoldsNext
  <2> QED BY <2>1, <2>3, FewerHolders
<1>3. ASSUME NEW c \in Conn, ReceiveStep(c) PROVE BasesDistinct'
  <2>1. channel[c] # << >> /\ channel' = [channel EXCEPT ![c] = Tail(@)]
    BY <1>3 DEF ReceiveStep, Discard, HandleSetupAllocate, ClientEstablished,
             ClientNotInserted, ClientDropped, ReceiveRequest, ClientDisconnected, Taken
  <2>2. ~HasComplete(c)' /\ \A d \in Conn : HasComplete(d)' => HasComplete(d)
    BY <2>1, TakeComplete
  <2>3. CASE HandleSetupAllocate(c)
    BY <2>3, AllocateBases
  <2>4. CASE ClientEstablished(c)
    <3>1. /\ UNCHANGED <<generation, born, zombies, base, next, free, setup>>
          /\ clients' = clients \cup {c}
      BY <2>4 DEF ClientEstablished
    <3>2. HasComplete(c) /\ born[c] = generation
      BY <2>4, CompleteTaken DEF ClientEstablished
    <3>3. \A d \in Conn : Holds(d)' => Holds(d)
      BY <2>2, <3>1, <3>2, HoldsDef, HoldsNext
    <3> QED BY <3>1, <3>3, FewerHolders
  <2>5. CASE ClientDropped(c)
    <3>1. /\ UNCHANGED <<generation, born, clients, zombies, base, next, setup>>
          /\ free' = free \cup {base[c]}
      BY <2>5 DEF ClientDropped
    <3>2. /\ HasComplete(c) /\ born[c] = generation /\ c \notin clients \cup zombies
          /\ setup[c] \in {"handed", "ended"}
      BY <2>5, CompleteTaken DEF ClientDropped
    <3>3. Holds(c) /\ ~Holds(c)' /\ \A d \in Conn : Holds(d)' => Holds(d)
      BY <2>2, <3>1, <3>2, HoldsDef, HoldsNext
    <3> QED BY <3>1, <3>3, BaseReturned
  <2>6. CASE Discard(c) \/ ClientNotInserted(c) \/ ReceiveRequest(c)
    <3>1. UNCHANGED <<generation, born, clients, zombies, base, next, free, setup>>
      BY <2>6 DEF Discard, ClientNotInserted, ReceiveRequest
    <3>2. \A d \in Conn : Holds(d)' => Holds(d)
      BY <2>2, <3>1, HoldsDef, HoldsNext
    <3> QED BY <3>1, <3>2, FewerHolders
  <2>7. CASE ClientDisconnected(c)
    <3>1. UNCHANGED <<generation, born, base, setup>> /\ ProcessDisconnect(c)
      BY <2>7 DEF ClientDisconnected, DisconnectWithPendingCleanup
    <3> QED BY <2>2, <3>1, DisconnectBases
  <2> QED BY <1>3, <2>3, <2>4, <2>5, <2>6, <2>7 DEF ReceiveStep
<1>4. ASSUME NEW c \in Conn, RequestStep(c) PROVE BasesDistinct'
  <2>1. UNCHANGED <<generation, born, base, setup, channel>>
    BY <1>4 DEF RequestStep, HandleOther, HandleSetCloseDownMode, HandleKillClient,
             HandleKillZombies, HandleQuit, Popped
  <2>2. \A d \in Conn : HasComplete(d)' => HasComplete(d)
    BY <2>1 DEF HasComplete
  <2>3. CASE HandleOther(c) \/ HandleSetCloseDownMode(c) \/ HandleKillZombies(c)
    <3>1. UNCHANGED <<clients, next, free>> /\ zombies' \subseteq zombies
      BY <2>3 DEF HandleOther, HandleSetCloseDownMode, HandleKillZombies
    <3>2. \A d \in Conn : Holds(d)' => Holds(d)
      BY <2>1, <2>2, <3>1, HoldsDef, HoldsNext
    <3> QED BY <2>1, <3>1, <3>2, FewerHolders
  <2>4. CASE HandleKillClient(c)
    <3>1. PICK d \in clients \ {c} : ProcessDisconnect(d)
      BY <2>4 DEF HandleKillClient
    <3>2. d \in Conn
      OBVIOUS
    <3> QED BY <2>1, <2>2, <3>1, <3>2, DisconnectBases
  <2>5. CASE HandleQuit(c)
    <3>1. ProcessDisconnect(c)
      BY <2>5 DEF HandleQuit, DisconnectWithPendingCleanup
    <3> QED BY <2>1, <2>2, <3>1, DisconnectBases
  <2> QED BY <1>4, <2>3, <2>4, <2>5 DEF RequestStep
<1>5. ASSUME NEW c \in Conn, Accept(c) \/ InternalClient(c) PROVE BasesDistinct'
  <2>1. /\ UNCHANGED <<generation, channel, clients, zombies, base, next, free>>
        /\ setup[c] = "none" /\ setup'[c] \in {"reading", "ended"}
        /\ \A d \in Conn \ {c} : setup'[d] = setup[d] /\ born'[d] = born[d]
    BY <1>5 DEF Accept, InternalClient, Spawn
  <2>2. c \notin clients \cup zombies /\ ~HasComplete(c)
    BY <2>1 DEF SessionInv, Stages, Stage, HasComplete
  <2>3. \A d \in Conn : HasComplete(d)' => HasComplete(d)
    BY <2>1 DEF HasComplete
  <2>4. ~Holds(c)'
    BY <2>1, <2>2, <2>3, HoldsNext
  <2>5. \A d \in Conn : Holds(d)' => Holds(d)
    BY <2>1, <2>3, <2>4, HoldsDef, HoldsNext
  <2> QED BY <2>1, <2>5, FewerHolders
<1>6. ASSUME NEW c \in Conn, WriteFails(c) PROVE BasesDistinct'
  <2>1. UNCHANGED <<generation, born, base, setup, channel>> /\ ProcessDisconnect(c)
    BY <1>6 DEF WriteFails, DisconnectWithPendingCleanup
  <2>2. \A d \in Conn : HasComplete(d)' => HasComplete(d)
    BY <2>1 DEF HasComplete
  <2> QED BY <2>1, <2>2, DisconnectBases
<1>7. CASE ResetGeneration
  <2>1. generation' = generation + 1 /\ born' = born
    BY <1>7 DEF ResetGeneration
  <2>2. \A d \in Conn : born[d] <= generation /\ born[d] \in Nat /\ generation \in Nat
    BY DEF SessionInv, BornPast
  <2>3. \A d \in Conn : ~Holds(d)'
    BY <2>1, <2>2, HoldsNext
  <2> QED BY <2>3 DEF BasesDistinct
<1>8. CASE EndEvents \/ NothingPending \/ Terminate \/ Shutdown \/ ResetRequested \/ NoteResetRequested
  <2>1. UNCHANGED <<generation, born, clients, zombies, base, next, free, setup, channel>>
    BY <1>8 DEF EndEvents, NothingPending, Terminate, Shutdown, Exit, ResetRequested,
             NoteResetRequested
  <2>2. \A d \in Conn : Holds(d)' => Holds(d)
    BY <2>1 DEF Holds
  <2> QED BY <2>1, <2>2, FewerHolders
<1>9. CASE UNCHANGED vars
  BY <1>9 DEF vars, BasesDistinct, Holds
<1> QED BY <1>1, <1>2, <1>3, <1>4, <1>5, <1>6, <1>7, <1>8, <1>9 DEF Next, LoopStep

-------------------------------------------------------------------------------
\* The server starts with no connection.
LEMMA InitSession == Init => SessionInv
<1> SUFFICES ASSUME Init PROVE SessionInv
  OBVIOUS
<1> USE ServerResetAssumption DEF Init
<1>1. \A c \in Conn : channel[c] = << >> /\ setup[c] = "none" /\ born[c] = 0
  OBVIOUS
<1>2. TypeOK
  <2>1. next \in 1..(MaxBase + 1) /\ 0 \in 0..MaxBase
    OBVIOUS
  <2>2. base \in [Conn -> 0..MaxBase]
    BY <2>1
  <2>3. channel \in [Conn -> Seq(Message)]
    OBVIOUS
  <2> QED BY <2>1, <2>2, <2>3 DEF TypeOK
<1>3. BornPast /\ TagsBound /\ Stages /\ Located /\ HandedOver
  BY <1>1 DEF BornPast, TagsBound, Stages, Stage, Located, HandedOver
<1>4. OneSession /\ Apart /\ FreeBelow /\ RegistryCurrent
  BY DEF OneSession, Apart, FreeBelow, RegistryCurrent
<1>5. \A c \in Conn : ~Holds(c)
  BY <1>1 DEF Holds
<1>6. BasesDistinct
  BY <1>5 DEF BasesDistinct
<1>7. DrainExact
  BY DEF DrainExact
<1> QED BY <1>2, <1>3, <1>4, <1>6, <1>7 DEF SessionInv

\* Every step of a thread, the core or the boundary keeps sessions apart.
LEMMA SessionInductive == SessionInv /\ [Next]_vars => SessionInv'
BY TypeStep, BornPastStep, TagsStep, StagesStep, OneSessionStep, ApartStep, FreeBelowStep,
   BasesStep, LocatedStep, HandedOverStep, RegistryStep, DrainStep DEF SessionInv

\* The invariant that ties a connection's thread, its messages, the
\* registry, the id allocator and the reset trigger together (core_loop's
\* setup_thread, sender, generation, reset and run).
THEOREM SessionInvariant == Spec => []SessionInv
BY InitSession, SessionInductive, PTL DEF Spec

\* The state keeps its shape: in particular only connected clients are
\* marked as retaining, and only real id bases come back.
THEOREM TypeCorrect == Spec => []TypeOK
<1>1. SessionInv => TypeOK
  BY DEF SessionInv
<1> QED BY <1>1, SessionInvariant, PTL

\* No message of an ended session reaches the next one's clients, zombies
\* or request queues: the generation bound at accept (BoundSender) and the
\* check before dispatch (should_dispatch) suffice, however late a thread is.
THEOREM SessionsApart == Spec => []OneSession
<1>1. SessionInv => OneSession
  BY DEF SessionInv
<1> QED BY <1>1, SessionInvariant, PTL

\* A resource id base has one holder at a time, over departures, retained
\* resources, handshakes under way and resets (IdAllocator).
THEOREM BaseHasOneHolder == Spec => []BasesDistinct
<1>1. SessionInv => BasesDistinct
  BY DEF SessionInv
<1> QED BY <1>1, SessionInvariant, PTL

\* The drain latch of ResetTrigger is set exactly when a session that had a
\* client has none left, on every departure path.
THEOREM DrainIsExact == Spec => []DrainExact
<1>1. SessionInv => DrainExact
  BY DEF SessionInv
<1> QED BY <1>1, SessionInvariant, PTL

\* After a reset every socket of the old session has been shut down
\* (SetupRegistry::shutdown_all, reset_generation) or lies in a message
\* that should_dispatch refuses.
THEOREM OldSocketsCut == Spec => []OldSessionCut
<1>1. SessionInv => OldSessionCut
  <2> SUFFICES ASSUME SessionInv, NEW c \in Conn, setup[c] # "none", born[c] < generation
               PROVE  c \in shut \/ HasComplete(c)
    BY DEF OldSessionCut, HasComplete
  <2>1. born[c] # generation
    BY DEF SessionInv, TypeOK
  <2>2. c \notin registry \cup clients
    BY <2>1 DEF SessionInv, OneSession, RegistryCurrent
  <2> QED BY <2>2 DEF SessionInv, Located
<1> QED BY <1>1, SessionInvariant, PTL
===============================================================================
