-------------------------- MODULE ClientReaderProofs --------------------------
(***************************************************************************)
(* The BIG-REQUESTS barrier: as long as the peer sends no minor opcode of  *)
(* the extension but Enable, reader, core and peer agree on the framing.   *)
(* The argument is that every Enable gets exactly one answer, and that     *)
(* only the reader parked for it can meet that answer.                     *)
(*                                                                         *)
(* Flow control: what a connected client has outstanding is what lies in   *)
(* the core's hands and what is on its way back, and the core never holds  *)
(* more than a window and one request.  What the sums over the two         *)
(* channels do is proved by induction.                                     *)
(***************************************************************************)
EXTENDS ClientReader, WellFoundedInduction, TLAPS

Answers == {"apply", "ignore"}

\* An extended length is written only by a peer that was told.
WireOK ==
    \A i \in DOMAIN wire : wire[i].op \in Ops /\ (wire[i].form # "short" => told)

\* Of a running reader, the core has at most one Enable, its last request;
\* the reader is parked for it, and no answer is under way.
EnableIsLast ==
    \A i \in DOMAIN requests :
        /\ requests[i].op # "minor"
        /\ pc # "stopped" /\ requests[i].op = "enable" =>
              /\ i = Len(requests)
              /\ pc = "barrier"
              /\ \A j \in DOMAIN control : control[j].what \notin Answers

\* An answer finds the reader parked, and is the only one.
AnswerIsAwaited ==
    \A i \in DOMAIN control :
        pc # "stopped" /\ control[i].what \in Answers =>
            /\ pc = "barrier"
            /\ \A j \in DOMAIN control : control[j].what \in Answers => i = j

\* Once the peer is told, the reader has switched or is about to.
ToldIsApplied ==
    told /\ pc # "stopped" =>
        big \/ (pc = "barrier" /\ \E i \in DOMAIN control : control[i].what = "apply")

FramingInv == TypeOK /\ WireOK /\ EnableIsLast /\ AnswerIsAwaited /\ ToldIsApplied
-------------------------------------------------------------------------------
\* What Settle leaves in the channels: the head request gone, its answers
\* and one last message of no consequence to the barrier added.
LEMMA SettleEffect ==
    ASSUME TypeOK, requests # << >>, NEW r \in Request, r = Head(requests),
           NEW signals \in Seq(Control), Settle(r, signals)
    PROVE  /\ requests' = Tail(requests)
           /\ control' \in Seq(Control)
           /\ Len(control') = Len(signals) + 1
           /\ \A i \in 1..Len(signals) : control'[i] = signals[i]
           /\ control'[Len(signals) + 1].what \notin Answers
           /\ connected' \in BOOLEAN
           /\ UNCHANGED <<peerVars, readerVars>>
<1>1. Bytes(r) \in Nat
  BY ClientReaderAssumption DEF Bytes, Request
<1>2. Grant(Bytes(r)) \in Control /\ Grant(Bytes(r)).what \notin Answers
  BY <1>1 DEF Grant, Control, Answers
<1>3. Signal("shutdown") \in Control /\ Signal("shutdown").what \notin Answers
  BY DEF Signal, Control, Answers
<1>4. PICK m \in Control : control' = signals \o <<m>> /\ m.what \notin Answers
  BY <1>2, <1>3 DEF Settle
<1>5. connected' \in BOOLEAN
  BY DEF Settle, TypeOK
<1>6. requests' = Tail(requests) /\ UNCHANGED <<peerVars, readerVars>>
  BY DEF Settle
<1> HIDE DEF Control, Answers
<1>7. control' = Append(signals, m)
  BY <1>4
<1> QED BY <1>4, <1>5, <1>6, <1>7

\* Appending one signal to the control channel.
LEMMA SignalAppended ==
    ASSUME control \in Seq(Control), NEW w \in {"apply", "ignore", "shutdown"}
    PROVE  /\ Append(control, Signal(w)) \in Seq(Control)
           /\ Len(Append(control, Signal(w))) = Len(control) + 1
           /\ \A i \in 1..Len(control) : Append(control, Signal(w))[i] = control[i]
           /\ Append(control, Signal(w))[Len(control) + 1].what = w
<1>1. Signal(w) \in Control /\ Signal(w).what = w
  BY DEF Signal, Control
<1> HIDE DEF Control, Signal
<1> QED BY <1>1

\* Every message a core step can send is well-typed.
LEMMA TypesPreserved == TypeOK /\ [Next]_vars => TypeOK'
<1> SUFFICES ASSUME TypeOK, [Next]_vars PROVE TypeOK'
  OBVIOUS
<1> USE DEF TypeOK
<1>1. CASE \E r \in Request : PeerWrites(r)
  BY <1>1, ClientReaderAssumption DEF PeerWrites, readerVars, coreVars
<1>2. CASE PeerCloses
  BY <1>2 DEF PeerCloses, readerVars, coreVars
<1>3. CASE TakeControl
  <2>1. Head(control) \in Control /\ Tail(control) \in Seq(Control)
    BY <1>3 DEF TakeControl
  <2>2. Head(control).what = "grant" => Head(control).bytes \in Nat
    BY <2>1 DEF Control
  <2> QED BY <1>3, <2>1, <2>2 DEF TakeControl, Complete, peerVars, coreVars
<1>4. CASE StartReading
  BY <1>4 DEF StartReading, peerVars, coreVars
<1>5. CASE ReadRequest
  <2>1. Head(wire) \in Request /\ Tail(wire) \in Seq(Request)
    BY <1>5 DEF ReadRequest
  <2>2. Bytes(Head(wire)) \in Nat
    BY <2>1, ClientReaderAssumption DEF Bytes, Request
  <2>3. outstanding' \in Nat
    BY <1>5, <2>2 DEF ReadRequest, Accept
  <2>4. requests' \in Seq(Request \cup {Eof})
    <3>1. requests' = Append(requests, Head(wire)) /\ Head(wire) \in Request \cup {Eof}
      BY <1>5, <2>1 DEF ReadRequest
    <3> HIDE DEF Request, Eof
    <3> QED BY <3>1
  <2> QED BY <1>5, <2>1, <2>3, <2>4 DEF ReadRequest, coreVars
<1>6. CASE ReadFails \/ ReadEof
  <2>1. requests' \in Seq(Request \cup {Eof})
    <3>1. requests' = Append(requests, Eof) /\ Eof \in Request \cup {Eof}
      BY <1>6 DEF ReadFails, ReadEof, ReportEof
    <3>2. requests \in Seq(Request \cup {Eof})
      OBVIOUS
    <3> HIDE DEF TypeOK
    <3> QED BY <3>1, <3>2
  <2> QED BY <1>6, <2>1 DEF ReadFails, ReadEof, ReportEof, peerVars, coreVars
<1>7. CASE TakeBarrierControl
  <2>1. Head(control) \in Control /\ Tail(control) \in Seq(Control)
    BY <1>7 DEF TakeBarrierControl
  <2>2. Head(control).what = "grant" => Head(control).bytes \in Nat
    BY <2>1 DEF Control
  <2>3. /\ control' = Tail(control)
        /\ UNCHANGED <<peerVars, requests, coreVars>>
    BY <1>7 DEF TakeBarrierControl
  <2>4. big' \in BOOLEAN /\ pc' \in {"control", "barrier", "stopped"}
    BY <1>7 DEF TakeBarrierControl
  <2>5. outstanding' \in Nat
    BY <1>7, <2>2 DEF TakeBarrierControl, Complete
  <2> QED BY <2>1, <2>3, <2>4, <2>5 DEF peerVars, coreVars
<1>8. CASE RejectLength \/ RejectPolicy \/ HandleEnable \/ HandleMinor \/ HandlePlain
  <2>1. requests # << >> /\ Head(requests) \in Request \cup {Eof}
        /\ Tail(requests) \in Seq(Request \cup {Eof})
    BY <1>8 DEF RejectLength, RejectPolicy, HandleEnable, HandleMinor, HandlePlain
  <2>2. Head(requests) \in Request
    BY <1>8, <2>1 DEF RejectLength, RejectPolicy, HandleEnable, HandleMinor, HandlePlain, Eof
  <2>3. PICK signals \in Seq(Control) : Settle(Head(requests), signals)
    <3>1. /\ control \in Seq(Control)
          /\ Append(control, Signal("apply")) \in Seq(Control)
          /\ Append(control, Signal("ignore")) \in Seq(Control)
      BY SignalAppended
    <3>2. \/ Settle(Head(requests), control)
          \/ Settle(Head(requests), Append(control, Signal("apply")))
          \/ Settle(Head(requests), Append(control, Signal("ignore")))
      BY <1>8 DEF RejectLength, RejectPolicy, HandleEnable, HandleMinor, HandlePlain
    <3> QED BY <3>1, <3>2
  <2>4. /\ requests' = Tail(requests)
        /\ control' \in Seq(Control)
        /\ connected' \in BOOLEAN
        /\ UNCHANGED <<peerVars, readerVars>>
    BY <2>1, <2>2, <2>3, SettleEffect
  <2>5. enabled' \in BOOLEAN /\ told' \in BOOLEAN
    BY <1>8 DEF RejectLength, RejectPolicy, HandleEnable, HandleMinor, HandlePlain
  <2> QED BY <2>1, <2>4, <2>5 DEF peerVars, readerVars
<1>9. CASE ReceiveEof \/ CoreDisconnects
  <2>1. /\ control' \in Seq(Control) /\ connected' \in BOOLEAN
        /\ UNCHANGED <<peerVars, readerVars, told, enabled>>
    <3>1. Append(control, Signal("shutdown")) \in Seq(Control) /\ control \in Seq(Control)
      BY SignalAppended
    <3>2. ProcessDisconnect
      BY <1>9 DEF ReceiveEof, CoreDisconnects
    <3> QED BY <3>1, <3>2 DEF ProcessDisconnect
  <2>2. requests' \in Seq(Request \cup {Eof})
    <3>1. \/ requests # << >> /\ requests' = Tail(requests)
          \/ requests' = requests
      BY <1>9 DEF ReceiveEof, CoreDisconnects
    <3>2. requests \in Seq(Request \cup {Eof})
      OBVIOUS
    <3> HIDE DEF TypeOK
    <3> QED BY <3>1, <3>2
  <2> QED BY <2>1, <2>2 DEF peerVars, readerVars
<1>10. CASE DropRequest
  BY <1>10 DEF DropRequest, peerVars, readerVars, coreVars
<1>11. CASE UNCHANGED vars
  BY <1>11 DEF vars, peerVars, readerVars, coreVars
<1> QED
  BY <1>1, <1>2, <1>3, <1>4, <1>5, <1>6, <1>7, <1>8, <1>9, <1>10, <1>11
     DEF Next, ReaderStep, CoreStep

\* Initially, every variable has its type.
LEMMA InitTypes == Init => TypeOK
<1> SUFFICES ASSUME Init PROVE TypeOK
  OBVIOUS
<1>1. /\ wire \in Seq(Request) /\ control \in Seq(Control)
      /\ requests \in Seq(Request \cup {Eof})
  BY DEF Init
<1>2. written \in 0..MaxRequests /\ outstanding \in Nat
  BY ClientReaderAssumption DEF Init
<1>3. /\ {peerOpen, told, big, enabled, connected} \subseteq BOOLEAN
      /\ pc \in {"control", "reading", "barrier", "stopped"}
  BY DEF Init
<1> QED BY <1>1, <1>2, <1>3 DEF TypeOK

\* Every variable keeps its type; in particular the outstanding bytes never
\* go below zero and the control channel holds reader controls only.
THEOREM TypeCorrect == Spec => []TypeOK
<1> QED BY InitTypes, TypesPreserved, PTL DEF Spec
-------------------------------------------------------------------------------
\* The parts of FramingInv that mention the channels, for a step that only
\* takes the head of the control channel, no answer of a running reader.
LEMMA ControlTaken ==
    ASSUME FramingInv, control # << >>, control' = Tail(control),
           UNCHANGED <<requests, big, told>>,
           pc' \in {pc, "stopped"},
           pc' # "stopped" => Head(control).what \notin Answers
    PROVE  EnableIsLast' /\ AnswerIsAwaited' /\ ToldIsApplied'
<1>1. control \in Seq(Control)
  BY DEF FramingInv, TypeOK
<1>2. /\ Len(control') = Len(control) - 1
      /\ \A i \in DOMAIN control' : i + 1 \in DOMAIN control /\ control'[i] = control[i + 1]
      /\ DOMAIN control' = 1..Len(control')
      /\ DOMAIN control = 1..Len(control)
      /\ Head(control) = control[1]
      /\ Len(control) \in Nat /\ Len(control') \in Nat
  <2> HIDE DEF Control
  <2> QED BY <1>1
<1>3. EnableIsLast'
  BY <1>2 DEF FramingInv, EnableIsLast
<1>4. AnswerIsAwaited'
  <2> SUFFICES ASSUME NEW i \in DOMAIN control', pc' # "stopped",
                      control'[i].what \in Answers
               PROVE  /\ pc' = "barrier"
                      /\ \A j \in DOMAIN control' : control'[j].what \in Answers => i = j
    BY DEF AnswerIsAwaited
  <2>1. /\ pc = "barrier"
        /\ \A j \in DOMAIN control : control[j].what \in Answers => i + 1 = j
    BY <1>2 DEF FramingInv, AnswerIsAwaited
  <2>2. ASSUME NEW j \in DOMAIN control', control'[j].what \in Answers PROVE i = j
    BY <1>2, <2>1, <2>2
  <2> QED BY <2>1, <2>2
<1>5. ToldIsApplied'
  <2> SUFFICES ASSUME told, pc' # "stopped", ~big
               PROVE  pc' = "barrier" /\ \E i \in DOMAIN control' : control'[i].what = "apply"
    BY DEF ToldIsApplied
  <2>1. PICK i \in DOMAIN control : control[i].what = "apply" /\ pc = "barrier"
    BY DEF FramingInv, ToldIsApplied
  <2>2. i # 1
    BY <1>2, <2>1 DEF Answers
  <2>3. i - 1 \in DOMAIN control' /\ control'[i - 1] = control[i]
    BY <1>2, <2>2
  <2> QED BY <2>1, <2>3
<1> QED BY <1>3, <1>4, <1>5

\* Shutdown is no answer.
LEMMA ShutdownAdded ==
    ASSUME FramingInv, ProcessDisconnect,
           requests' = requests \/ (requests # << >> /\ requests' = Tail(requests))
    PROVE  EnableIsLast' /\ AnswerIsAwaited' /\ ToldIsApplied'
<1>1. /\ control \in Seq(Control) /\ requests \in Seq(Request \cup {Eof})
      /\ UNCHANGED <<pc, big, told>>
  BY DEF FramingInv, TypeOK, ProcessDisconnect, readerVars
<1>2. control' = control \/ control' = Append(control, Signal("shutdown"))
  BY DEF ProcessDisconnect
<1>3. /\ DOMAIN control \subseteq DOMAIN control'
      /\ \A i \in DOMAIN control : control'[i] = control[i]
      /\ \A i \in DOMAIN control' : control'[i].what \in Answers => i \in DOMAIN control
  <2>1. CASE control' = Append(control, Signal("shutdown"))
    <3>1. /\ Len(control') = Len(control) + 1 /\ Len(control) \in Nat
          /\ control' \in Seq(Control)
          /\ \A i \in 1..Len(control) : control'[i] = control[i]
          /\ control'[Len(control) + 1].what = "shutdown"
      BY <1>1, <2>1, SignalAppended
    <3>2. DOMAIN control = 1..Len(control) /\ DOMAIN control' = 1..Len(control')
      <4> HIDE DEF Control
      <4> QED BY <1>1, <3>1
    <3> QED BY <3>1, <3>2 DEF Answers
  <2> QED BY <1>2, <2>1
<1>4. \A i \in DOMAIN requests' :
          \E k \in DOMAIN requests : /\ requests'[i] = requests[k]
                                    /\ k = Len(requests) => i = Len(requests')
  BY <1>1
<1>5. EnableIsLast'
  BY <1>1, <1>3, <1>4 DEF FramingInv, EnableIsLast
<1>6. AnswerIsAwaited'
  BY <1>1, <1>3 DEF FramingInv, AnswerIsAwaited
<1>7. ToldIsApplied'
  BY <1>1, <1>3 DEF FramingInv, ToldIsApplied
<1> QED BY <1>5, <1>6, <1>7

\* A core step that handles the head request and answers at most an Enable:
\* before it no answer was under way, and it leaves no Enable behind.
LEMMA RequestAnswered ==
    ASSUME FramingInv, requests # << >>, Head(requests) \in Request,
           NEW signals, Settle(Head(requests), signals),
           \/ /\ Head(requests).op # "enable"
              /\ signals = control
              /\ told' = told
           \/ /\ Head(requests).op = "enable"
              /\ \/ signals = Append(control, Signal("apply")) /\ told'
                 \/ signals = Append(control, Signal("ignore")) /\ told' = told
    PROVE  EnableIsLast' /\ AnswerIsAwaited' /\ ToldIsApplied'
<1>1. control \in Seq(Control) /\ requests \in Seq(Request \cup {Eof})
  BY DEF FramingInv, TypeOK
<1>2. /\ signals \in Seq(Control)
      /\ Append(control, Signal("apply")) \in Seq(Control)
      /\ Append(control, Signal("ignore")) \in Seq(Control)
  BY <1>1, SignalAppended
<1>3. /\ requests' = Tail(requests)
      /\ control' \in Seq(Control)
      /\ Len(control') = Len(signals) + 1
      /\ \A i \in 1..Len(signals) : control'[i] = signals[i]
      /\ control'[Len(signals) + 1].what \notin Answers
      /\ UNCHANGED <<pc, big>>
  <2>1. TypeOK
    BY DEF FramingInv
  <2> QED BY <1>2, <2>1, SettleEffect DEF readerVars
<1>4. /\ DOMAIN control = 1..Len(control) /\ DOMAIN control' = 1..Len(control')
      /\ Len(control) \in Nat /\ Len(signals) \in Nat
  <2> HIDE DEF Control
  <2> QED BY <1>1, <1>2, <1>3
<1>5. /\ Head(requests) = requests[1]
      /\ 1 \in DOMAIN requests
      /\ Len(requests) = 1 => DOMAIN requests' = {}
      /\ \A i \in DOMAIN requests' :
            /\ i + 1 \in DOMAIN requests /\ requests'[i] = requests[i + 1]
            /\ i + 1 = Len(requests) => i = Len(requests')
  BY <1>1, <1>3
<1>6. CASE Head(requests).op # "enable"
  <2>1. signals = control /\ told' = told
    BY <1>6
  <2>2. /\ DOMAIN control \subseteq DOMAIN control'
        /\ \A i \in DOMAIN control : control'[i] = control[i]
        /\ \A i \in DOMAIN control' : control'[i].what \in Answers => i \in DOMAIN control
    <3>1. /\ DOMAIN control = 1..Len(control) /\ DOMAIN control' = 1..(Len(control) + 1)
          /\ Len(control) \in Nat
          /\ \A i \in 1..Len(control) : control'[i] = control[i]
          /\ control'[Len(control) + 1].what \notin Answers
      BY <1>3, <1>4, <2>1
    <3> QED BY <3>1
  <2>3. EnableIsLast'
    BY <1>3, <1>5, <2>2 DEF FramingInv, EnableIsLast
  <2>4. AnswerIsAwaited'
    BY <1>3, <2>2 DEF FramingInv, AnswerIsAwaited
  <2>5. ToldIsApplied'
    BY <1>3, <2>1, <2>2 DEF FramingInv, ToldIsApplied
  <2> QED BY <2>3, <2>4, <2>5
<1>7. CASE Head(requests).op = "enable" /\ pc # "stopped"
  <2>1. /\ Len(requests) = 1
        /\ pc = "barrier"
        /\ \A j \in DOMAIN control : control[j].what \notin Answers
    BY <1>5, <1>7 DEF FramingInv, EnableIsLast
  <2>2. DOMAIN requests' = {}
    BY <1>5, <2>1
  <2>3. /\ Len(signals) = Len(control) + 1
        /\ \A i \in 1..Len(control) : signals[i] = control[i]
        /\ \/ signals[Len(control) + 1].what = "apply" /\ told'
           \/ signals[Len(control) + 1].what = "ignore" /\ told' = told
    <3>1. CASE signals = Append(control, Signal("apply")) /\ told'
      BY <1>1, <3>1, SignalAppended
    <3>2. CASE signals = Append(control, Signal("ignore")) /\ told' = told
      BY <1>1, <3>2, SignalAppended
    <3> QED BY <1>7, <3>1, <3>2
  <2>4. /\ \A i \in DOMAIN control' : control'[i].what \in Answers => i = Len(control) + 1
        /\ Len(control) + 1 \in DOMAIN control'
        /\ control'[Len(control) + 1] = signals[Len(control) + 1]
    BY <1>3, <1>4, <2>1, <2>3
  <2>5. EnableIsLast'
    BY <2>2 DEF EnableIsLast
  <2>6. AnswerIsAwaited'
    BY <1>3, <2>1, <2>4 DEF AnswerIsAwaited
  <2>7. ToldIsApplied'
    <3>1. CASE signals[Len(control) + 1].what = "apply"
      BY <1>3, <2>1, <2>4, <3>1 DEF ToldIsApplied
    <3>2. CASE told' = told
      <4>1. told => big
        BY <1>7, <2>1 DEF FramingInv, ToldIsApplied, Answers
      <4> QED BY <1>3, <3>2, <4>1 DEF ToldIsApplied
    <3> QED BY <2>3, <3>1, <3>2
  <2> QED BY <2>5, <2>6, <2>7
<1>8. CASE pc = "stopped"
  BY <1>3, <1>5, <1>8 DEF FramingInv, EnableIsLast, AnswerIsAwaited, ToldIsApplied
<1> QED BY <1>6, <1>7, <1>8

\* The barrier's invariant is inductive, without minors other than Enable.
LEMMA FramingInductive ==
    ASSUME "minor" \notin Ops, FramingInv, [Next]_vars PROVE FramingInv'
<1> USE DEF FramingInv
<1>1. TypeOK'
  BY TypesPreserved
<1>2. WireOK'
  <2>1. wire \in Seq(Request) /\ (told => told')
    BY DEF TypeOK, Next, vars, peerVars, readerVars, coreVars, ReaderStep, CoreStep, PeerWrites,
       PeerCloses, TakeControl, StartReading, ReadRequest, ReadFails, ReadEof,
       TakeBarrierControl, RejectLength, RejectPolicy, HandleEnable, HandleMinor, HandlePlain,
       ReceiveEof, DropRequest, CoreDisconnects, ProcessDisconnect
  <2>2. \/ wire' = wire
        \/ wire # << >> /\ wire' = Tail(wire)
        \/ \E r \in Request : /\ wire' = Append(wire, r) /\ r.op \in Ops
                              /\ r.form # "short" => told
    BY DEF Next, vars, peerVars, readerVars, coreVars, ReaderStep, CoreStep, PeerWrites, Settle,
       PeerCloses, TakeControl, StartReading, ReadRequest, ReadFails, ReadEof,
       TakeBarrierControl, RejectLength, RejectPolicy, HandleEnable, HandleMinor, HandlePlain,
       ReceiveEof, DropRequest, CoreDisconnects, ProcessDisconnect
  <2>3. CASE wire' = wire
    BY <2>1, <2>3 DEF WireOK
  <2>4. CASE wire # << >> /\ wire' = Tail(wire)
    <3>1. \A i \in DOMAIN wire' : i + 1 \in DOMAIN wire /\ wire'[i] = wire[i + 1]
      <4> HIDE DEF Request, FramingInv
      <4> QED BY <2>1, <2>4
    <3> QED BY <2>1, <3>1 DEF WireOK
  <2>5. CASE wire' # wire /\ ~(wire # << >> /\ wire' = Tail(wire))
    <3>1. PICK r \in Request : /\ wire' = Append(wire, r) /\ r.op \in Ops
                               /\ r.form # "short" => told
      BY <2>2, <2>5
    <3>2. \A i \in DOMAIN wire' : (i \in DOMAIN wire /\ wire'[i] = wire[i]) \/ wire'[i] = r
      <4> HIDE DEF Request, FramingInv
      <4> QED BY <2>1, <3>1
    <3> QED BY <2>1, <3>1, <3>2 DEF WireOK
  <2> QED BY <2>3, <2>4, <2>5
<1>3. EnableIsLast' /\ AnswerIsAwaited' /\ ToldIsApplied'
  <2>1. CASE PeerCloses \/ StartReading \/ (\E r \in Request : PeerWrites(r)) \/ UNCHANGED vars
    <3>1. /\ UNCHANGED <<requests, control, big, told>>
          /\ pc' = pc \/ (pc = "control" /\ pc' = "reading")
      BY <2>1 DEF PeerCloses, StartReading, PeerWrites, vars, peerVars, readerVars, coreVars
    <3> QED BY <3>1 DEF EnableIsLast, AnswerIsAwaited, ToldIsApplied
  <2>2. CASE TakeControl
    <3>1. Head(control) = control[1] /\ 1 \in DOMAIN control
      BY <2>2 DEF TakeControl, TypeOK
    <3>2. Head(control).what \notin Answers
      BY <2>2, <3>1 DEF TakeControl, AnswerIsAwaited
    <3> QED BY <2>2, <3>2, ControlTaken DEF TakeControl, coreVars
  <2>3. CASE ReadRequest
    <3>1. /\ pc = "reading" /\ wire # << >>
          /\ requests' = Append(requests, Head(wire))
          /\ pc' = IF Head(wire).op = "enable" THEN "barrier" ELSE "control"
          /\ UNCHANGED <<control, big, told>>
      BY <2>3 DEF ReadRequest, coreVars
    <3>2. /\ \A i \in DOMAIN requests : requests[i].op \notin {"minor", "enable"}
          /\ \A i \in DOMAIN control : control[i].what \notin Answers
          /\ told => big
      BY <3>1 DEF EnableIsLast, AnswerIsAwaited, ToldIsApplied
    <3>3. Head(wire) \in Request /\ Head(wire).op # "minor"
      BY <3>1 DEF WireOK, TypeOK
    <3>4. /\ \A i \in DOMAIN requests' :
              \/ i \in DOMAIN requests /\ requests'[i] = requests[i]
              \/ i = Len(requests') /\ requests'[i] = Head(wire)
      <4>1. requests \in Seq(Request \cup {Eof}) /\ Head(wire) \in Request \cup {Eof}
        BY <3>3 DEF TypeOK
      <4> HIDE DEF FramingInv
      <4> QED BY <3>1, <4>1
    <3>5. EnableIsLast'
      BY <3>1, <3>2, <3>3, <3>4 DEF EnableIsLast
    <3> QED BY <3>1, <3>2, <3>5 DEF AnswerIsAwaited, ToldIsApplied
  <2>4. CASE ReadFails \/ ReadEof
    <3>1. /\ pc' = "stopped" /\ requests' = Append(requests, Eof)
          /\ UNCHANGED <<control, big, told>>
      BY <2>4 DEF ReadFails, ReadEof, ReportEof, coreVars
    <3>2. \A i \in DOMAIN requests' : requests'[i].op # "minor"
      <4>1. requests \in Seq(Request \cup {Eof}) /\ Eof \in Request \cup {Eof}
        BY DEF TypeOK
      <4>2. \A i \in DOMAIN requests' :
              (i \in DOMAIN requests /\ requests'[i] = requests[i]) \/ requests'[i] = Eof
        <5> HIDE DEF FramingInv
        <5> QED BY <3>1, <4>1
      <4> QED BY <4>2 DEF EnableIsLast, Eof
    <3> QED BY <3>1, <3>2 DEF EnableIsLast, AnswerIsAwaited, ToldIsApplied
  <2>5. CASE TakeBarrierControl /\ Head(control).what \notin Answers
    BY <2>5, ControlTaken DEF TakeBarrierControl, Answers, coreVars
  <2>6. CASE TakeBarrierControl /\ Head(control).what \in Answers
    <3>1. /\ pc = "barrier" /\ pc' = "control"
          /\ control # << >> /\ control' = Tail(control)
          /\ UNCHANGED <<requests, told>>
          /\ big' = (big \/ Head(control).what = "apply")
      BY <2>6 DEF TakeBarrierControl, Answers, coreVars, TypeOK
    <3>2. /\ Head(control) = control[1] /\ 1 \in DOMAIN control
          /\ \A i \in DOMAIN control' :
                i + 1 # 1 /\ i + 1 \in DOMAIN control /\ control'[i] = control[i + 1]
      <4>1. control \in Seq(Control)
        BY DEF TypeOK
      <4> HIDE DEF Control
      <4> QED BY <3>1, <4>1
    <3>3. \A j \in DOMAIN control : control[j].what \in Answers => 1 = j
      BY <2>6, <3>1, <3>2 DEF AnswerIsAwaited
    <3>4. \A i \in DOMAIN control' : control'[i].what \notin Answers
      BY <3>2, <3>3
    <3>5. \A i \in DOMAIN requests : requests[i].op \notin {"minor", "enable"}
      BY <2>6, <3>1, <3>2 DEF EnableIsLast
    <3>6. told => big'
      BY <3>1, <3>2, <3>3 DEF ToldIsApplied, Answers
    <3> QED BY <3>1, <3>4, <3>5, <3>6 DEF EnableIsLast, AnswerIsAwaited, ToldIsApplied
  <2>7. CASE RejectLength \/ RejectPolicy \/ HandleEnable \/ HandleMinor \/ HandlePlain
    <3>1. requests # << >> /\ Head(requests).op \notin {"eof", "minor"}
      BY <2>7 DEF RejectLength, RejectPolicy, HandleEnable, HandleMinor, HandlePlain,
         EnableIsLast, TypeOK
    <3>2. Head(requests) \in Request
      BY <3>1 DEF TypeOK, Eof
    <3> HIDE DEF FramingInv
    <3> QED BY <2>7, <3>1, <3>2, RequestAnswered
       DEF RejectLength, RejectPolicy, HandleEnable, HandleMinor, HandlePlain
  <2>8. CASE ReceiveEof \/ CoreDisconnects
    BY <2>8, ShutdownAdded DEF ReceiveEof, CoreDisconnects
  <2>9. CASE DropRequest
    <3>1. requests' = Tail(requests) /\ requests # << >> /\ UNCHANGED <<control, pc, big, told>>
      BY <2>9 DEF DropRequest, readerVars, coreVars
    <3>2. \A i \in DOMAIN requests' :
             /\ i + 1 \in DOMAIN requests /\ requests'[i] = requests[i + 1]
             /\ i + 1 = Len(requests) => i = Len(requests')
      BY <3>1 DEF TypeOK
    <3> QED BY <3>1, <3>2 DEF EnableIsLast, AnswerIsAwaited, ToldIsApplied
  <2> QED
    BY <2>1, <2>2, <2>3, <2>4, <2>5, <2>6, <2>7, <2>8, <2>9 DEF Next, ReaderStep, CoreStep
<1> QED BY <1>1, <1>2, <1>3

\* Without stray answers, a peer that was told BIG-REQUESTS is on never has
\* an extended length refused by its reader.
THEOREM FramingPreserved ==
    ASSUME "minor" \notin Ops PROVE Spec => []FramingAgrees
<1>1. Init => FramingInv
  <2>1. Init => TypeOK
    BY InitTypes
  <2> QED BY <2>1 DEF Init, FramingInv, WireOK, EnableIsLast, AnswerIsAwaited, ToldIsApplied
<1>2. FramingInv /\ [Next]_vars => FramingInv'
  BY FramingInductive
<1>3. FramingInv => FramingAgrees
  <2> SUFFICES ASSUME FramingInv, pc = "reading", wire # << >>, Head(wire).form # "short"
               PROVE  big
    BY DEF FramingAgrees
  <2>1. 1 \in DOMAIN wire /\ Head(wire) = wire[1]
    BY DEF FramingInv, TypeOK
  <2>2. told
    BY <2>1 DEF FramingInv, WireOK
  <2> QED BY <2>2 DEF FramingInv, ToldIsApplied
<1> QED BY <1>1, <1>2, <1>3, PTL DEF Spec
-----------------------------------------------------------------------------
(***************************************************************************)
(* Induction, stated for sets.                                             *)
(***************************************************************************)
\* A set of natural numbers has a least element.
LEMMA LeastElement ==
    ASSUME NEW T, T \subseteq Nat, T # {}
    PROVE  \E x \in T : \A y \in T : x <= y
<1> DEFINE R == {p \in Nat \X Nat : p[1] < p[2]}
<1>1. IsWellFoundedOn(R, Nat)
  BY NatLessThanWellFounded DEF OpToRel
<1>2. \A x, y \in Nat : y < x => <<y, x>> \in R
  OBVIOUS
<1> HIDE DEF R
<1>3. PICK x \in T : \A y \in T : <<y, x>> \notin R
  BY <1>1, WFMin
<1>4. \A y \in T : x \in Nat /\ y \in Nat /\ ~(y < x)
  BY <1>2, <1>3
<1>5. \A y \in T : x <= y
  BY <1>4
<1> QED  BY <1>5

\* What holds of 0, and of n + 1 whenever it holds of n, holds of all.
LEMMA SetInduction ==
    ASSUME NEW T, 0 \in T, \A n \in Nat : n \in T => n + 1 \in T
    PROVE  Nat \subseteq T
<1> DEFINE U == Nat \ T
<1>1. ASSUME U # {} PROVE FALSE
  <2>1. PICK x \in U : \A y \in U : x <= y
    <3> HIDE DEF U
    <3>1. U \subseteq Nat  BY DEF U
    <3> QED  BY <1>1, <3>1, LeastElement
  <2>2. x # 0 /\ x - 1 \in Nat /\ (x - 1) + 1 = x /\ ~(x <= x - 1)
    BY <2>1
  <2>3. x - 1 \in T
    BY <2>1, <2>2
  <2> QED  BY <2>1, <2>2, <2>3
<1> QED  BY <1>1

-----------------------------------------------------------------------------
(***************************************************************************)
(* Sums.                                                                   *)
(***************************************************************************)
\* f[i] is the sum of the first i numbers of c.
PartialSums(f, c) ==
    /\ f \in [0 .. Len(c) -> Nat]
    /\ f[0] = 0
    /\ \A i \in 1 .. Len(c) : f[i] = f[i - 1] + c[i]

\* As the recursive function of Sum is written.
UptoOf(f, c) == f = [i \in 0 .. Len(c) |-> IF i = 0 THEN 0 ELSE f[i - 1] + c[i]]

LEMMA UptoExists ==
    ASSUME NEW c \in Seq(Nat)
    PROVE  \E f : UptoOf(f, c)
<1> DEFINE Made(f, n) == f = [i \in 0 .. n |-> IF i = 0 THEN 0 ELSE f[i - 1] + c[i]]
           T == {n \in Nat : \E f : Made(f, n)}
<1>1. 0 \in T
  <2>1. Made([i \in 0 .. 0 |-> 0], 0)  OBVIOUS
  <2> QED  BY <2>1
<1>2. ASSUME NEW n \in Nat, n \in T PROVE n + 1 \in T
  <2>1. PICK f : Made(f, n)
    BY <1>2
  <2> DEFINE g == [i \in 0 .. n + 1 |-> IF i <= n THEN f[i] ELSE f[n] + c[n + 1]]
  <2>2. g[0] = 0 /\ \A i \in 1 .. n + 1 : g[i] = g[i - 1] + c[i]
    <3>1. f[0] = 0 /\ \A i \in 1 .. n : f[i] = f[i - 1] + c[i]
      BY <2>1
    <3>2. g[0] = f[0]
      OBVIOUS
    <3>3. ASSUME NEW i \in 1 .. n PROVE g[i] = f[i] /\ g[i - 1] = f[i - 1]
      OBVIOUS
    <3>4. g[n + 1] = f[n] + c[n + 1] /\ g[n] = f[n] /\ (n + 1) - 1 = n
      OBVIOUS
    <3>5. \A i \in 1 .. n + 1 : i \in 1 .. n \/ i = n + 1
      OBVIOUS
    <3> HIDE DEF g
    <3> QED  BY <3>1, <3>2, <3>3, <3>4, <3>5
  <2>3. Made(g, n + 1)
    <3>1. g = [i \in 0 .. n + 1 |-> g[i]]  OBVIOUS
    <3> HIDE DEF g
    <3>2. \A i \in 0 .. n + 1 : g[i] = IF i = 0 THEN 0 ELSE g[i - 1] + c[i]
      BY <2>2
    <3> QED  BY <3>1, <3>2
  <2>4. n + 1 \in Nat  OBVIOUS
  <2> HIDE DEF g, Made
  <2> QED  BY <2>3, <2>4
<1>3. Len(c) \in T
  <2> HIDE DEF T
  <2>1. Nat \subseteq T  BY <1>1, <1>2, SetInduction
  <2> QED  BY <2>1
<1>4. PICK f : Made(f, Len(c))
  BY <1>3
<1> QED  BY <1>4 DEF UptoOf

LEMMA SumIsPartial ==
    ASSUME NEW c \in Seq(Nat)
    PROVE  \E f : PartialSums(f, c) /\ Sum(c) = f[Len(c)]
<1>1. Sum(c) = (CHOOSE f : f = [i \in 0 .. Len(c) |-> IF i = 0 THEN 0 ELSE f[i - 1] + c[i]])[Len(c)]
  BY Zenon DEF Sum
<1>2. Sum(c) = (CHOOSE f : UptoOf(f, c))[Len(c)]
  BY <1>1, Zenon DEF UptoOf
<1>3. PICK f : UptoOf(f, c) /\ Sum(c) = f[Len(c)]
  BY <1>2, UptoExists, Zenon
<1>4. /\ DOMAIN f = 0 .. Len(c)
      /\ f[0] = 0
      /\ \A i \in 1 .. Len(c) : f[i] = f[i - 1] + c[i]
      /\ f = [i \in 0 .. Len(c) |-> f[i]]
  BY <1>3 DEF UptoOf
<1> DEFINE T == {n \in Nat : n <= Len(c) => f[n] \in Nat}
<1>5. 0 \in T  BY <1>4
<1>6. ASSUME NEW n \in Nat, n \in T PROVE n + 1 \in T
  <2> SUFFICES ASSUME n + 1 <= Len(c) PROVE f[n + 1] \in Nat
    OBVIOUS
  <2>1. n + 1 \in 1 .. Len(c) /\ (n + 1) - 1 = n /\ n <= Len(c)  OBVIOUS
  <2>2. f[n + 1] = f[n] + c[n + 1]  BY <2>1, <1>4
  <2>3. f[n] \in Nat /\ c[n + 1] \in Nat  BY <1>6, <2>1
  <2> QED  BY <2>2, <2>3
<1>7. \A i \in 0 .. Len(c) : f[i] \in Nat
  <2>1. Nat \subseteq T
    <3> HIDE DEF T
    <3> QED  BY <1>5, <1>6, SetInduction
  <2> QED  BY <2>1
<1>8. f \in [0 .. Len(c) -> Nat]  BY <1>4, <1>7
<1> QED  BY <1>3, <1>4, <1>8 DEF PartialSums

\* c continues after its k-th number as d begins, for m numbers.
Alike(c, f, k, d, g, m) ==
    /\ c \in Seq(Nat) /\ PartialSums(f, c) /\ k \in Nat
    /\ d \in Seq(Nat) /\ PartialSums(g, d) /\ m \in Nat
    /\ k + m <= Len(c) /\ m <= Len(d)
    /\ \A i \in 1 .. m : c[k + i] = d[i]

\* Then the sums run in step.
LEMMA SumsInStep ==
    ASSUME NEW c, NEW f, NEW k, NEW d, NEW g, NEW m, Alike(c, f, k, d, g, m)
    PROVE  f[k + m] = f[k] + g[m]
<1> USE DEF Alike
<1> DEFINE T == {n \in Nat : n <= m => f[k + n] = f[k] + g[n]}
<1>0. k \in 0 .. Len(c)  OBVIOUS
<1>1. f[k] \in Nat /\ g[0] = 0  BY <1>0 DEF PartialSums
<1>2. 0 \in T
  <2>1. k + 0 = k /\ f[k] + 0 = f[k]  BY <1>1
  <2> QED  BY <1>1, <2>1
<1>3. ASSUME NEW n \in Nat, n \in T PROVE n + 1 \in T
  <2> SUFFICES ASSUME n + 1 <= m PROVE f[k + (n + 1)] = f[k] + g[n + 1]
    OBVIOUS
  <2>1. /\ k + (n + 1) \in 1 .. Len(c) /\ (k + (n + 1)) - 1 = k + n
        /\ n + 1 \in 1 .. Len(d) /\ (n + 1) - 1 = n /\ n + 1 \in 1 .. m
        /\ k + n \in 0 .. Len(c) /\ n \in 0 .. Len(d) /\ n <= m
    OBVIOUS
  <2>2. f[k + (n + 1)] = f[k + n] + c[k + (n + 1)]  BY <2>1 DEF PartialSums
  <2>3. g[n + 1] = g[n] + d[n + 1]  BY <2>1 DEF PartialSums
  <2>4. f[k + n] \in Nat /\ g[n] \in Nat  BY <2>1 DEF PartialSums
  <2>5. c[k + (n + 1)] = d[n + 1]  BY <2>1
  <2>51. d[n + 1] \in Nat  BY <2>1
  <2>6. f[k + n] = f[k] + g[n]  BY <1>3, <2>1
  <2> DEFINE x == f[k]
             y == g[n]
             z == d[n + 1]
  <2>7. x \in Nat /\ y \in Nat /\ z \in Nat  BY <1>1, <2>4, <2>51
  <2>8. f[k + (n + 1)] = (x + y) + z /\ g[n + 1] = y + z  BY <2>2, <2>3, <2>5, <2>6
  <2>9. f[k + (n + 1)] = x + g[n + 1]
    <3> HIDE DEF x, y, z
    <3> QED  BY <2>7, <2>8
  <2> QED  BY <2>9
<1>4. m \in T
  <2> HIDE DEF T
  <2>1. Nat \subseteq T  BY <1>2, <1>3, SetInduction
  <2> QED  BY <2>1
<1> QED  BY <1>4

LEMMA SumType ==
    ASSUME NEW c \in Seq(Nat)
    PROVE  Sum(c) \in Nat
<1>1. PICK f : PartialSums(f, c) /\ Sum(c) = f[Len(c)]  BY SumIsPartial
<1> QED  BY <1>1 DEF PartialSums

LEMMA SumEmpty == Sum(<<>>) = 0
<1>1. <<>> \in Seq(Nat) /\ Len(<<>>) = 0  OBVIOUS
<1>2. PICK f : PartialSums(f, <<>>) /\ Sum(<<>>) = f[Len(<<>>)]  BY <1>1, SumIsPartial
<1> QED  BY <1>1, <1>2 DEF PartialSums

LEMMA SumAppend ==
    ASSUME NEW c \in Seq(Nat), NEW n \in Nat
    PROVE  Sum(Append(c, n)) = Sum(c) + n
<1> DEFINE d == Append(c, n)
           l == Len(c)
<1>1. /\ d \in Seq(Nat) /\ Len(d) = l + 1 /\ d[l + 1] = n
      /\ \A i \in 1 .. l : d[i] = c[i]
      /\ l \in Nat
  OBVIOUS
<1> HIDE DEF d, l
<1>2. PICK f : PartialSums(f, d) /\ Sum(d) = f[l + 1]  BY <1>1, SumIsPartial
<1>3. PICK g : PartialSums(g, c) /\ Sum(c) = g[l]  BY SumIsPartial DEF l
<1>4. f[0] = 0 /\ g[l] \in Nat
  <2>1. l \in 0 .. Len(c)  BY <1>1 DEF l
  <2> QED  BY <1>2, <1>3, <2>1 DEF PartialSums
<1>5. f[0 + l] = f[0] + g[l]
  <2>1. /\ 0 \in Nat /\ l \in Nat /\ 0 + l <= Len(d) /\ l <= Len(c)
        /\ \A i \in 1 .. l : d[0 + i] = c[i]
    BY <1>1 DEF l
  <2>2. Alike(d, f, 0, c, g, l)  BY <2>1, <1>1, <1>2, <1>3 DEF Alike
  <2> QED  BY <2>2, SumsInStep
<1>6. f[l] = g[l]  BY <1>1, <1>4, <1>5
<1>7. f[l + 1] = f[l] + n
  <2>1. l + 1 \in 1 .. Len(d) /\ (l + 1) - 1 = l  BY <1>1
  <2>2. f[l + 1] = f[(l + 1) - 1] + d[l + 1]  BY <2>1, <1>2 DEF PartialSums
  <2> QED  BY <2>1, <2>2, <1>1
<1> QED  BY <1>2, <1>3, <1>6, <1>7 DEF d

LEMMA SumTail ==
    ASSUME NEW c \in Seq(Nat), c # <<>>
    PROVE  Sum(c) = Head(c) + Sum(Tail(c))
<1> DEFINE d == Tail(c)
           l == Len(c)
<1>1. /\ d \in Seq(Nat) /\ Len(d) = l - 1 /\ c[1] = Head(c) /\ Head(c) \in Nat
      /\ \A i \in 1 .. l - 1 : d[i] = c[1 + i]
      /\ l \in Nat /\ l >= 1
  OBVIOUS
<1> HIDE DEF d, l
<1>2. PICK f : PartialSums(f, c) /\ Sum(c) = f[l]  BY SumIsPartial DEF l
<1>3. PICK g : PartialSums(g, d) /\ Sum(d) = g[l - 1]  BY <1>1, SumIsPartial
<1>4. f[1] = Head(c)
  <2>1. 1 \in 1 .. Len(c) /\ 1 - 1 = 0  BY <1>1 DEF l
  <2>2. f[1] = f[1 - 1] + c[1] /\ f[0] = 0  BY <2>1, <1>2 DEF PartialSums
  <2> QED  BY <2>1, <2>2, <1>1
<1>5. f[1 + (l - 1)] = f[1] + g[l - 1]
  <2>1. /\ 1 \in Nat /\ l - 1 \in Nat /\ 1 + (l - 1) <= Len(c) /\ l - 1 <= Len(d)
        /\ \A i \in 1 .. l - 1 : c[1 + i] = d[i]
    BY <1>1 DEF l
  <2>2. Alike(c, f, 1, d, g, l - 1)  BY <2>1, <1>1, <1>2, <1>3 DEF Alike
  <2> QED  BY <2>2, SumsInStep
<1>6. 1 + (l - 1) = l  BY <1>1
<1> QED  BY <1>2, <1>3, <1>4, <1>5, <1>6 DEF d
-----------------------------------------------------------------------------
(***************************************************************************)
(* Bytes of requests and of control messages.                              *)
(***************************************************************************)
\* What a core's request may be.
Sent == Request \cup {Eof}

LEMMA CostType ==
    /\ \A r \in Sent : Cost(r) \in Nat
    /\ \A r \in Request : r # Eof /\ Cost(r) = Bytes(r) /\ Bytes(r) \in Nat
    /\ Cost(Eof) = 0
<1>1. \A r \in Request : Bytes(r) \in Nat
  BY ClientReaderAssumption DEF Bytes, Request
<1>2. \A r \in Request : r # Eof
  BY DEF Request, Eof
<1> QED  BY <1>1, <1>2 DEF Sent, Cost

LEMMA TotalFacts ==
    ASSUME NEW s \in Seq(Sent)
    PROVE  /\ Total(s) \in Nat
           /\ \A r \in Sent : Total(Append(s, r)) = Total(s) + Cost(r)
           /\ s # <<>> => Total(s) = Cost(Head(s)) + Total(Tail(s))
<1> DEFINE Costs(q) == [i \in DOMAIN q |-> Cost(q[i])]
<1>1. \A q \in Seq(Sent) : Costs(q) \in Seq(Nat) /\ Total(q) = Sum(Costs(q)) /\ Len(Costs(q)) = Len(q)
  BY CostType DEF Total
<1>2. ASSUME NEW r \in Sent PROVE Total(Append(s, r)) = Total(s) + Cost(r)
  <2>1. Append(s, r) \in Seq(Sent) /\ Cost(r) \in Nat  BY CostType
  <2>2. Costs(Append(s, r)) = Append(Costs(s), Cost(r))
    OBVIOUS
  <2> HIDE DEF Costs
  <2> QED  BY <1>1, <2>1, <2>2, SumAppend
<1>3. ASSUME s # <<>> PROVE Total(s) = Cost(Head(s)) + Total(Tail(s))
  <2>1. Tail(s) \in Seq(Sent) /\ Costs(s) # <<>>  BY <1>3
  <2>2. Costs(Tail(s)) = Tail(Costs(s)) /\ Head(Costs(s)) = Cost(Head(s))
    BY <1>3
  <2> HIDE DEF Costs
  <2> QED  BY <1>1, <2>1, <2>2, SumTail
<1>4. Total(s) \in Nat
  <2> HIDE DEF Costs
  <2> QED  BY <1>1, SumType
<1> QED  BY <1>2, <1>3, <1>4

LEMMA ReturnedFacts ==
    ASSUME NEW s \in Seq(Control)
    PROVE  /\ Returned(s) \in Nat
           /\ \A m \in Control : Returned(Append(s, m)) = Returned(s) + m.bytes
           /\ s # <<>> => Returned(s) = Head(s).bytes + Returned(Tail(s))
<1> DEFINE Costs(q) == [i \in DOMAIN q |-> q[i].bytes]
<1>0. \A m \in Control : m.bytes \in Nat  BY DEF Control
<1> HIDE DEF Control
<1>1. \A q \in Seq(Control) : Costs(q) \in Seq(Nat) /\ Returned(q) = Sum(Costs(q)) /\ Len(Costs(q)) = Len(q)
  BY <1>0 DEF Returned
<1>2. ASSUME NEW m \in Control PROVE Returned(Append(s, m)) = Returned(s) + m.bytes
  <2>1. Append(s, m) \in Seq(Control) /\ m.bytes \in Nat  BY <1>0
  <2>2. Costs(Append(s, m)) = Append(Costs(s), m.bytes)
    OBVIOUS
  <2> HIDE DEF Costs
  <2> QED  BY <1>1, <2>1, <2>2, SumAppend
<1>3. ASSUME s # <<>> PROVE Returned(s) = Head(s).bytes + Returned(Tail(s))
  <2>1. Tail(s) \in Seq(Control) /\ Costs(s) # <<>>  BY <1>3
  <2>2. Costs(Tail(s)) = Tail(Costs(s)) /\ Head(Costs(s)) = Head(s).bytes
    BY <1>3
  <2> HIDE DEF Costs
  <2> QED  BY <1>1, <2>1, <2>2, SumTail
<1>4. Returned(s) \in Nat
  <2> HIDE DEF Costs
  <2> QED  BY <1>1, SumType
<1> QED  BY <1>2, <1>3, <1>4
-----------------------------------------------------------------------------
(***************************************************************************)
(* What the window promises.                                               *)
(***************************************************************************)
\* Less than a window lies ahead of each request in s.
Ahead(s) == \A i \in DOMAIN s : s[i] # Eof => Total(SubSeq(s, 1, i - 1)) < Window

LEMMA AheadTail ==
    ASSUME NEW s \in Seq(Sent), s # <<>>, Ahead(s)
    PROVE  Ahead(Tail(s))
<1> SUFFICES ASSUME NEW i \in DOMAIN Tail(s), Tail(s)[i] # Eof
             PROVE  Total(SubSeq(Tail(s), 1, i - 1)) < Window
  BY DEF Ahead
<1> DEFINE q == SubSeq(s, 1, i)
<1>1. /\ i \in 1 .. Len(s) - 1 /\ i + 1 \in DOMAIN s /\ s[i + 1] = Tail(s)[i]
      /\ (i + 1) - 1 = i
  OBVIOUS
<1>2. q \in Seq(Sent) /\ q # <<>> /\ Len(q) = i
  BY <1>1
<1>3. Tail(q) = SubSeq(Tail(s), 1, i - 1)
  <2>1. /\ Tail(q) \in Seq(Sent) /\ Len(Tail(q)) = i - 1
        /\ \A j \in 1 .. i - 1 : Tail(q)[j] = s[j + 1]
    BY <1>1, <1>2
  <2>2. /\ SubSeq(Tail(s), 1, i - 1) \in Seq(Sent)
        /\ Len(SubSeq(Tail(s), 1, i - 1)) = i - 1
        /\ \A j \in 1 .. i - 1 : SubSeq(Tail(s), 1, i - 1)[j] = s[j + 1]
    BY <1>1
  <2> QED  BY <2>1, <2>2
<1>4. Total(q) < Window
  BY <1>1 DEF Ahead
<1>5. Total(q) = Cost(Head(q)) + Total(Tail(q)) /\ Total(Tail(q)) \in Nat
      /\ Cost(Head(q)) \in Nat
  <2>1. Tail(q) \in Seq(Sent) /\ Head(q) \in Sent  BY <1>2
  <2> HIDE DEF q
  <2> QED  BY <1>2, <2>1, TotalFacts, CostType
<1>6. Window \in Nat  BY ClientReaderAssumption
<1>7. Total(Tail(q)) < Window
  <2> DEFINE x == Total(Tail(q))
             y == Cost(Head(q))
  <2>1. y + x < Window /\ x \in Nat /\ y \in Nat  BY <1>4, <1>5
  <2> HIDE DEF x, y
  <2>2. x < Window  BY <2>1, <1>6
  <2> QED  BY <2>2 DEF x
<1> QED  BY <1>3, <1>7

LEMMA AheadAppend ==
    ASSUME NEW s \in Seq(Sent), NEW r \in Sent, Ahead(s), r # Eof => Total(s) < Window
    PROVE  Ahead(Append(s, r))
<1> SUFFICES ASSUME NEW i \in DOMAIN Append(s, r), Append(s, r)[i] # Eof
             PROVE  Total(SubSeq(Append(s, r), 1, i - 1)) < Window
  BY DEF Ahead
<1>1. CASE i = Len(s) + 1
  <2>1. SubSeq(Append(s, r), 1, i - 1) = s /\ Append(s, r)[i] = r
    BY <1>1
  <2> QED  BY <2>1
<1>2. CASE i # Len(s) + 1
  <2>1. i \in DOMAIN s /\ Append(s, r)[i] = s[i]
    BY <1>2
  <2>2. SubSeq(Append(s, r), 1, i - 1) = SubSeq(s, 1, i - 1)
    BY <2>1
  <2> QED  BY <2>1, <2>2 DEF Ahead
<1> QED  BY <1>1, <1>2

\* With t bytes of requests and g on their way back, o are outstanding: all of
\* them while the client is connected, and no fewer ever.
Counted(t, g, o, conn) ==
    /\ conn => o = t + g
    /\ t + g <= o

BytesInv ==
    /\ TypeOK
    /\ Counted(Total(requests), Returned(control), outstanding, connected)
    /\ pc = "reading" => outstanding < Window
    /\ Ahead(requests)

\* The types the steps below need, without the definitions they rest on.
LEMMA ByteTypes ==
    ASSUME TypeOK
    PROVE  /\ requests \in Seq(Sent) /\ control \in Seq(Control)
           /\ outstanding \in Nat /\ connected \in BOOLEAN
           /\ Total(requests) \in Nat /\ Returned(control) \in Nat
           /\ Window \in Nat
<1>1. requests \in Seq(Sent) /\ control \in Seq(Control) /\ outstanding \in Nat
      /\ connected \in BOOLEAN
  BY DEF TypeOK, Sent
<1> QED  BY <1>1, TotalFacts, ReturnedFacts, ClientReaderAssumption

\* The reader takes a control message.
LEMMA ControlMessageTaken ==
    ASSUME TypeOK, control # <<>>, control' = Tail(control),
           Counted(Total(requests), Returned(control), outstanding, connected),
           \/ Head(control).what = "grant" /\ Complete(Head(control).bytes)
           \/ Head(control).what # "grant" /\ UNCHANGED outstanding,
           UNCHANGED <<requests, connected>>
    PROVE  Counted(Total(requests), Returned(control), outstanding, connected)'
<1> DEFINE b == Head(control).bytes
           t == Total(requests)
           g2 == Returned(control')
<1>1. Head(control) \in Control /\ Tail(control) \in Seq(Control)
  BY ByteTypes
<1>2. b \in Nat /\ (Head(control).what # "grant" => b = 0)
  BY <1>1 DEF Control
<1>3. Returned(control) = b + g2 /\ g2 \in Nat
  BY <1>1, ByteTypes, ReturnedFacts
<1>4. t \in Nat /\ outstanding \in Nat
  BY ByteTypes
<1>5. outstanding' = IF b > outstanding THEN 0 ELSE outstanding - b
  BY <1>2, <1>4 DEF Complete
<1>6. Counted(t, b + g2, outstanding, connected)
  BY <1>3
<1> HIDE DEF b, t, g2
<1>7. Counted(t, g2, outstanding', connected)
  BY <1>2, <1>3, <1>4, <1>5, <1>6 DEF Counted
<1> QED  BY <1>7 DEF t, g2

\* The core is done with its first request r: it returns the bytes, or
\* disconnects.
LEMMA RequestSettled ==
    ASSUME TypeOK, requests # <<>>, Head(requests) \in Request,
           NEW signals \in Seq(Control), Returned(signals) = Returned(control),
           Settle(Head(requests), signals),
           Counted(Total(requests), Returned(control), outstanding, connected)
    PROVE  Counted(Total(requests), Returned(control), outstanding, connected)'
<1> DEFINE b == Bytes(Head(requests))
           t2 == Total(requests')
           g == Returned(control)
           g2 == Returned(control')
<1>1. requests' = Tail(requests) /\ UNCHANGED outstanding
  BY DEF Settle, readerVars
<1>2. Tail(requests) \in Seq(Sent) /\ requests \in Seq(Sent)
  BY ByteTypes
<1>3. Total(requests) = b + t2 /\ t2 \in Nat /\ b \in Nat
  BY <1>1, <1>2, TotalFacts, CostType
<1>4. g \in Nat /\ outstanding \in Nat
  BY ByteTypes
<1>5. \/ g2 = g + b /\ connected' = connected
      \/ g2 = g /\ connected' = FALSE
  <2>1. Grant(b) \in Control /\ Grant(b).bytes = b
        /\ Signal("shutdown") \in Control /\ Signal("shutdown").bytes = 0
    BY <1>3 DEF Grant, Signal, Control
  <2>2. Returned(Append(signals, Grant(b))) = g + b
        /\ Returned(Append(signals, Signal("shutdown"))) = g + 0
    BY <2>1, ReturnedFacts
  <2>3. \/ control' = signals \o <<Grant(b)>> /\ connected' = connected
        \/ control' = signals \o <<Signal("shutdown")>> /\ connected' = FALSE
    BY DEF Settle
  <2>4. signals \o <<Grant(b)>> = Append(signals, Grant(b))
        /\ signals \o <<Signal("shutdown")>> = Append(signals, Signal("shutdown"))
    <3> HIDE DEF b, Control
    <3> QED  BY <2>1
  <2>5. g + 0 = g  BY <1>4
  <2> HIDE DEF b, g
  <2> QED  BY <2>2, <2>3, <2>4, <2>5
<1>6. Counted(b + t2, g, outstanding, connected)
  BY <1>3
<1> HIDE DEF b, t2, g, g2
<1>7. Counted(t2, g2, outstanding, connected')
  BY <1>3, <1>4, <1>5, <1>6 DEF Counted
<1> QED  BY <1>1, <1>7 DEF t2, g2

\* Signals carry no bytes.
LEMMA SignalReturnsNothing ==
    ASSUME NEW s \in Seq(Control), NEW w \in {"apply", "ignore", "shutdown"}
    PROVE  Append(s, Signal(w)) \in Seq(Control) /\ Returned(Append(s, Signal(w))) = Returned(s)
<1>1. Signal(w) \in Control /\ Signal(w).bytes = 0
  BY DEF Signal, Control
<1>2. Returned(Append(s, Signal(w))) = Returned(s) + 0 /\ Returned(s) \in Nat
  BY <1>1, ReturnedFacts
<1>3. Append(s, Signal(w)) \in Seq(Control)
  <2> HIDE DEF Control
  <2> QED  BY <1>1
<1> QED  BY <1>2, <1>3

\* A client leaves; of its requests at most one is taken, which costs at least
\* nothing.
LEMMA ClientGone ==
    ASSUME TypeOK, control' \in Seq(Control), Returned(control') = Returned(control),
           connected' = FALSE, UNCHANGED outstanding,
           requests' = requests \/ (requests # <<>> /\ requests' = Tail(requests)),
           Counted(Total(requests), Returned(control), outstanding, connected)
    PROVE  Counted(Total(requests), Returned(control), outstanding, connected)'
<1> DEFINE t == Total(requests)
           t2 == Total(requests')
           g == Returned(control)
<1>1. t \in Nat /\ g \in Nat /\ outstanding \in Nat
  BY ByteTypes
<1>2. t2 \in Nat /\ t2 <= t
  <2>1. CASE requests' = requests
    BY <1>1, <2>1
  <2>2. CASE requests # <<>> /\ requests' = Tail(requests)
    <3>1. Tail(requests) \in Seq(Sent) /\ requests \in Seq(Sent) /\ Head(requests) \in Sent
      BY ByteTypes, <2>2
    <3>2. t = Cost(Head(requests)) + t2 /\ t2 \in Nat /\ Cost(Head(requests)) \in Nat
      BY <2>2, <3>1, TotalFacts, CostType
    <3> HIDE DEF t, t2
    <3> QED  BY <3>2
  <2> QED  BY <2>1, <2>2
<1>3. Counted(t, g, outstanding, connected)
  OBVIOUS
<1> HIDE DEF t, t2, g
<1>4. Counted(t2, g, outstanding, connected')
  BY <1>1, <1>2, <1>3 DEF Counted
<1> QED  BY <1>4 DEF t2, g

LEMMA BytesInductive ==
    ASSUME BytesInv, [Next]_vars
    PROVE  BytesInv'
<1>1. TypeOK /\ TypeOK'
  BY TypesPreserved DEF BytesInv
<1>2. /\ Counted(Total(requests), Returned(control), outstanding, connected)
      /\ pc = "reading" => outstanding < Window
      /\ Ahead(requests)
  BY DEF BytesInv
<1>3. SUFFICES /\ Counted(Total(requests), Returned(control), outstanding, connected)'
               /\ pc' = "reading" => outstanding' < Window
               /\ Ahead(requests')
  BY <1>1 DEF BytesInv
<1>4. CASE PeerCloses \/ StartReading \/ (\E r \in Request : PeerWrites(r)) \/ UNCHANGED vars
  <2>1. /\ UNCHANGED <<requests, control, outstanding, connected>>
        /\ pc' = pc \/ outstanding < Window
    BY <1>4 DEF PeerCloses, StartReading, CanRead, PeerWrites, vars, peerVars, readerVars, coreVars
  <2> QED  BY <1>2, <2>1
<1>5. CASE TakeControl
  <2>1. /\ control # <<>> /\ control' = Tail(control)
        /\ UNCHANGED <<requests, connected>>
        /\ pc' # "reading"
        /\ \/ Head(control).what = "grant" /\ Complete(Head(control).bytes)
           \/ Head(control).what # "grant" /\ UNCHANGED outstanding
    BY <1>5 DEF TakeControl, coreVars
  <2> QED  BY <1>1, <1>2, <2>1, ControlMessageTaken
<1>6. CASE TakeBarrierControl
  <2>1. /\ control # <<>> /\ control' = Tail(control)
        /\ UNCHANGED <<requests, connected>>
        /\ pc' # "reading"
        /\ \/ Head(control).what = "grant" /\ Complete(Head(control).bytes)
           \/ Head(control).what # "grant" /\ UNCHANGED outstanding
    BY <1>6 DEF TakeBarrierControl, coreVars
  <2> QED  BY <1>1, <1>2, <2>1, ControlMessageTaken
<1>7. CASE ReadRequest
  <2> DEFINE r == Head(wire)
             t == Total(requests)
             g == Returned(control)
  <2>1. /\ pc = "reading" /\ wire # <<>> /\ pc' # "reading"
        /\ requests' = Append(requests, r)
        /\ outstanding' = outstanding + Bytes(r)
        /\ UNCHANGED <<control, connected>>
    BY <1>7 DEF ReadRequest, Accept, coreVars
  <2>2. r \in Request /\ r \in Sent
    <3>1. wire \in Seq(Request)  BY <1>1 DEF TypeOK
    <3> HIDE DEF Request
    <3> QED  BY <2>1, <3>1 DEF Sent
  <2>3. /\ requests \in Seq(Sent) /\ outstanding \in Nat
        /\ t \in Nat /\ g \in Nat /\ Window \in Nat
    BY <1>1, ByteTypes
  <2>4. Total(requests') = t + Bytes(r) /\ Bytes(r) \in Nat
    BY <2>1, <2>2, <2>3, TotalFacts, CostType
  <2>5. Counted(t + Bytes(r), g, outstanding + Bytes(r), connected)
    <3> DEFINE b == Bytes(r)
    <3>1. (connected => outstanding = t + g) /\ t + g <= outstanding /\ b \in Nat
      BY <1>2, <2>4 DEF Counted
    <3> HIDE DEF t, g, b
    <3>2. outstanding = t + g => outstanding + b = (t + b) + g  BY <2>3, <3>1
    <3>3. (t + b) + g <= outstanding + b  BY <2>3, <3>1
    <3>4. Counted(t + b, g, outstanding + b, connected)  BY <3>1, <3>2, <3>3, Zenon DEF Counted
    <3> QED  BY <3>4 DEF b
  <2>6. t < Window
    <3>1. t + g <= outstanding /\ outstanding < Window  BY <1>2, <2>1 DEF Counted
    <3> HIDE DEF t, g
    <3> QED  BY <2>3, <3>1
  <2>7. Ahead(requests')
    BY <1>2, <2>1, <2>2, <2>3, <2>6, AheadAppend
  <2> QED  BY <2>1, <2>4, <2>5, <2>7
<1>8. CASE ReadFails \/ ReadEof
  <2>1. /\ pc' = "stopped" /\ requests' = Append(requests, Eof)
        /\ UNCHANGED <<control, outstanding, connected>>
    BY <1>8 DEF ReadFails, ReadEof, ReportEof, coreVars
  <2>2. requests \in Seq(Sent) /\ Eof \in Sent /\ Total(requests) \in Nat
    BY <1>1, ByteTypes DEF Sent
  <2>3. Total(requests') = Total(requests)
    <3>1. Total(requests') = Total(requests) + 0  BY <2>1, <2>2, TotalFacts, CostType
    <3> QED  BY <2>2, <3>1
  <2>4. Ahead(requests')
    BY <1>2, <2>1, <2>2, AheadAppend
  <2> QED  BY <1>2, <2>1, <2>3, <2>4
<1>9. CASE RejectLength \/ RejectPolicy \/ HandleEnable \/ HandleMinor \/ HandlePlain
  <2>1. requests # <<>> /\ requests \in Seq(Sent) /\ control \in Seq(Control)
    BY <1>1, <1>9, ByteTypes
       DEF RejectLength, RejectPolicy, HandleEnable, HandleMinor, HandlePlain
  <2>2. Head(requests) \in Request
    BY <1>9, <2>1 DEF RejectLength, RejectPolicy, HandleEnable, HandleMinor, HandlePlain, Eof, Sent
  <2>3. PICK signals \in Seq(Control) : /\ Settle(Head(requests), signals)
                                        /\ Returned(signals) = Returned(control)
    <3>1. /\ Append(control, Signal("apply")) \in Seq(Control)
          /\ Append(control, Signal("ignore")) \in Seq(Control)
          /\ Returned(Append(control, Signal("apply"))) = Returned(control)
          /\ Returned(Append(control, Signal("ignore"))) = Returned(control)
      BY <2>1, SignalReturnsNothing
    <3>2. \/ Settle(Head(requests), control)
          \/ Settle(Head(requests), Append(control, Signal("apply")))
          \/ Settle(Head(requests), Append(control, Signal("ignore")))
      BY <1>9 DEF RejectLength, RejectPolicy, HandleEnable, HandleMinor, HandlePlain
    <3> QED  BY <2>1, <3>1, <3>2
  <2>4. requests' = Tail(requests) /\ UNCHANGED <<pc, outstanding>>
    BY <2>3 DEF Settle, readerVars
  <2>5. Ahead(requests')
    BY <1>2, <2>1, <2>4, AheadTail
  <2>6. Counted(Total(requests), Returned(control), outstanding, connected)'
    BY <1>1, <1>2, <2>1, <2>2, <2>3, RequestSettled
  <2> QED  BY <1>2, <2>4, <2>5, <2>6
<1>10. CASE ReceiveEof \/ CoreDisconnects \/ DropRequest
  <2>1. /\ UNCHANGED <<pc, outstanding>>
        /\ connected' = FALSE
        /\ \/ control' = control
           \/ control' = Append(control, Signal("shutdown"))
        /\ requests' = requests \/ (requests # <<>> /\ requests' = Tail(requests))
    BY <1>1, <1>10 DEF ReceiveEof, CoreDisconnects, DropRequest, ProcessDisconnect, readerVars,
       coreVars, TypeOK
  <2>2. requests \in Seq(Sent) /\ control \in Seq(Control)
    BY <1>1, ByteTypes
  <2>3. control' \in Seq(Control) /\ Returned(control') = Returned(control)
    BY <2>1, <2>2, SignalReturnsNothing
  <2>4. Counted(Total(requests), Returned(control), outstanding, connected)'
    BY <1>1, <1>2, <2>1, <2>3, ClientGone
  <2>5. Ahead(requests')
    BY <1>2, <2>1, <2>2, AheadTail
  <2> QED  BY <1>2, <2>1, <2>4, <2>5
<1> QED
  BY <1>4, <1>5, <1>6, <1>7, <1>8, <1>9, <1>10 DEF Next, ReaderStep, CoreStep

LEMMA InitBytes == Init => BytesInv
<1> SUFFICES ASSUME Init PROVE BytesInv
  OBVIOUS
<1>1. requests = <<>> /\ control = <<>> /\ outstanding = 0 /\ pc = "control"
  BY DEF Init
<1>2. Total(<<>>) = 0 /\ Returned(<<>>) = 0
  <2>1. [i \in DOMAIN <<>> |-> Cost(<<>>[i])] = <<>> /\ [i \in DOMAIN <<>> |-> <<>>[i].bytes] = <<>>
    OBVIOUS
  <2> QED  BY <2>1, SumEmpty DEF Total, Returned
<1>3. Counted(0, 0, 0, connected)
  BY DEF Counted
<1>4. Ahead(<<>>)
  BY DEF Ahead
<1> QED  BY <1>1, <1>2, <1>3, <1>4, InitTypes DEF BytesInv

\* The invariant of flow control: what is outstanding is not dispatched or on
\* its way back, and the reader reads only below its window.
THEOREM FlowInvariant == Spec => []BytesInv
<1>1. BytesInv /\ [Next]_vars => BytesInv'
  BY BytesInductive
<1> QED  BY <1>1, InitBytes, PTL DEF Spec

\* No byte of a connected client is counted twice or lost, for any window and
\* any sizes: not over the barrier of an Enable, nor by a saturating
\* subtraction (ReaderIngressWindow::complete).
THEOREM BytesPreserved == Spec => []BytesConserved
<1>1. BytesInv => BytesConserved
  BY DEF BytesInv, Counted, BytesConserved
<1> QED  BY <1>1, FlowInvariant, PTL

\* The core never holds more than a window of a client's bytes and one more
\* request (ReaderIngressWindow::can_read).
THEOREM ReadAheadIsBounded == Spec => []ReadAheadBounded
<1>1. BytesInv => ReadAheadBounded
  BY DEF BytesInv, Ahead, ReadAheadBounded
<1> QED  BY <1>1, FlowInvariant, PTL
===============================================================================
