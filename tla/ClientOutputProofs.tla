-------------------------- MODULE ClientOutputProofs --------------------------
(***************************************************************************)
(* What a client receives and what the core loop sleeps on, for any number *)
(* of clients and messages and any sizes of the buffers.                   *)
(***************************************************************************)
EXTENDS ClientOutput, SequenceTheorems, TLAPS

Fd == [at : Nat, len : Nat, fd : Nat]

Msg == [len : Lengths, fd : BOOLEAN]

LEMMA ConcatParts ==
    ASSUME NEW S, NEW s \in Seq(S), NEW t \in Seq(S)
    PROVE  /\ s \o t \in Seq(S)
           /\ Len(s \o t) = Len(s) + Len(t)
           /\ Len(s) \in Nat /\ Len(t) \in Nat
           /\ \A i \in 1 .. Len(s) : (s \o t)[i] = s[i]
           /\ \A i \in 1 .. Len(t) : (s \o t)[Len(s) + i] = t[i]
OBVIOUS

\* v is s followed by t.
Followed(v, s, t) ==
    /\ Len(v) = Len(s) + Len(t) /\ Len(s) \in Nat /\ Len(t) \in Nat
    /\ \A i \in 1 .. Len(s) : v[i] = s[i]
    /\ \A i \in 1 .. Len(t) : v[Len(s) + i] = t[i]

LEMMA ConcatFollowed ==
    ASSUME NEW S, NEW s \in Seq(S), NEW t \in Seq(S)
    PROVE  s \o t \in Seq(S) /\ Followed(s \o t, s, t)
BY DEF Followed

\* Bytes of a message as a sequence.
LEMMA BytesType ==
    ASSUME NEW m \in Nat, NEW p \in Nat \ {0}, NEW len \in Nat, p <= len + 1
    PROVE  /\ Bytes(m, p, len) \in Seq(Byte)
           /\ Len(Bytes(m, p, len)) = len + 1 - p
           /\ \A i \in 1 .. (len + 1 - p) : Bytes(m, p, len)[i] = [msg |-> m, pos |-> p + i - 1]
<1> DEFINE n == len + 1 - p
<1>1. n \in Nat
  OBVIOUS
<1>2. \A i \in 1 .. n : [msg |-> m, pos |-> p + i - 1] \in Byte
  BY DEF Byte
<1>3. Bytes(m, p, len) \in [1 .. n -> Byte]
  BY <1>1, <1>2 DEF Bytes
<1> HIDE DEF n
<1>4. Bytes(m, p, len) \in Seq(Byte) /\ Len(Bytes(m, p, len)) = n
  BY <1>1, <1>3
<1> QED BY <1>4 DEF Bytes, n

\* The first bytes of a message.
LEMMA PrefixBytes ==
    ASSUME NEW m \in Nat, NEW len \in Nat
    PROVE  /\ Bytes(m, 1, len) \in Seq(Byte)
           /\ Len(Bytes(m, 1, len)) = len
           /\ \A i \in 1 .. len : Bytes(m, 1, len)[i] = [msg |-> m, pos |-> i]
<1>1. 1 <= len + 1 /\ len + 1 - 1 = len /\ \A i \in 1 .. len : 1 + i - 1 = i
  OBVIOUS
<1>2. 1 \in Nat \ {0} /\ len \in Nat
  OBVIOUS
<1>3. /\ Bytes(m, 1, len) \in Seq(Byte)
      /\ Len(Bytes(m, 1, len)) = len + 1 - 1
      /\ \A i \in 1 .. (len + 1 - 1) : Bytes(m, 1, len)[i] = [msg |-> m, pos |-> 1 + i - 1]
  BY <1>1, <1>2, BytesType, Zenon
<1> QED BY <1>1, <1>3

\* All bytes of a message.
LEMMA WholeBytes ==
    ASSUME NEW m \in Nat, NEW len \in Lengths
    PROVE  /\ len \in Nat \ {0}
           /\ Bytes(m, 1, len) \in Seq(Byte)
           /\ Len(Bytes(m, 1, len)) = len
           /\ \A i \in 1 .. len : Bytes(m, 1, len)[i] = [msg |-> m, pos |-> i]
<1>1. len \in Nat \ {0}
  BY OutputAssumption
<1> QED BY <1>1, PrefixBytes

\* The bytes of a message after its first n.
LEMMA SuffixBytes ==
    ASSUME NEW m \in Nat, NEW len \in Nat, NEW n \in 1 .. len
    PROVE  /\ Bytes(m, n + 1, len) \in Seq(Byte)
           /\ Len(Bytes(m, n + 1, len)) = len - n
           /\ \A i \in 1 .. (len - n) : Bytes(m, n + 1, len)[i] = [msg |-> m, pos |-> n + i]
<1>1. /\ n + 1 \in Nat \ {0} /\ n + 1 <= len + 1 /\ len + 1 - (n + 1) = len - n
      /\ \A i \in 1 .. (len - n) : (n + 1) + i - 1 = n + i
  OBVIOUS
<1>2. /\ Bytes(m, n + 1, len) \in Seq(Byte)
      /\ Len(Bytes(m, n + 1, len)) = len + 1 - (n + 1)
      /\ \A i \in 1 .. (len + 1 - (n + 1)) :
            Bytes(m, n + 1, len)[i] = [msg |-> m, pos |-> (n + 1) + i - 1]
  BY <1>1, BytesType, Zenon
<1> QED BY <1>1, <1>2

\* Bytes on the wire as a sequence.
LEMMA OnWireType ==
    ASSUME NEW b \in Seq(Byte), NEW f \in Nat
    PROVE  /\ OnWire(b, f) \in Seq(WireByte)
           /\ Len(OnWire(b, f)) = Len(b)
           /\ \A i \in 1 .. Len(b) : OnWire(b, f)[i] =
                 [msg |-> b[i].msg, pos |-> b[i].pos, fd |-> IF i = 1 THEN f ELSE 0]
<1>1. \A i \in 1 .. Len(b) :
        [msg |-> b[i].msg, pos |-> b[i].pos, fd |-> IF i = 1 THEN f ELSE 0] \in WireByte
  <2> SUFFICES ASSUME NEW i \in 1 .. Len(b)
               PROVE  [msg |-> b[i].msg, pos |-> b[i].pos, fd |-> IF i = 1 THEN f ELSE 0] \in WireByte
    OBVIOUS
  <2>1. b[i] \in Byte
    OBVIOUS
  <2> QED BY <2>1 DEF Byte, WireByte
<1>2. OnWire(b, f) \in [1 .. Len(b) -> WireByte]
  BY <1>1 DEF OnWire
<1>3. OnWire(b, f) \in Seq(WireByte) /\ Len(OnWire(b, f)) = Len(b)
  BY <1>2
<1> QED BY <1>3 DEF OnWire

StreamOf(wr, ob) ==
    [i \in 1 .. (Len(wr) + Len(ob)) |->
        IF i <= Len(wr) THEN [msg |-> wr[i].msg, pos |-> wr[i].pos]
        ELSE ob[i - Len(wr)]]

LEMMA StreamType ==
    ASSUME NEW wr \in Seq(WireByte), NEW ob \in Seq(Byte)
    PROVE  /\ StreamOf(wr, ob) \in Seq(Byte)
           /\ Len(StreamOf(wr, ob)) = Len(wr) + Len(ob)
           /\ \A i \in 1 .. Len(wr) : StreamOf(wr, ob)[i] = [msg |-> wr[i].msg, pos |-> wr[i].pos]
           /\ \A i \in 1 .. Len(ob) : StreamOf(wr, ob)[Len(wr) + i] = ob[i]
<1> DEFINE n == Len(wr) + Len(ob)
           e(i) == IF i <= Len(wr) THEN [msg |-> wr[i].msg, pos |-> wr[i].pos]
                   ELSE ob[i - Len(wr)]
<1>1. n \in Nat
  OBVIOUS
<1>2. \A i \in 1 .. n : e(i) \in Byte
  <2> SUFFICES ASSUME NEW i \in 1 .. n PROVE e(i) \in Byte
    OBVIOUS
  <2>1. CASE i <= Len(wr)
    <3>1. wr[i] \in WireByte
      BY <2>1
    <3> QED BY <2>1, <3>1 DEF Byte, WireByte
  <2>2. CASE ~(i <= Len(wr))
    <3>1. i - Len(wr) \in 1 .. Len(ob)
      BY <2>2
    <3> QED BY <2>2, <3>1
  <2> QED BY <2>1, <2>2
<1>3. StreamOf(wr, ob) \in [1 .. n -> Byte]
  BY <1>1, <1>2 DEF StreamOf
<1> HIDE DEF n
<1>4. StreamOf(wr, ob) \in Seq(Byte) /\ Len(StreamOf(wr, ob)) = n
  BY <1>1, <1>3
<1>5. \A i \in 1 .. Len(ob) : StreamOf(wr, ob)[Len(wr) + i] = ob[i]
  <2> SUFFICES ASSUME NEW i \in 1 .. Len(ob) PROVE StreamOf(wr, ob)[Len(wr) + i] = ob[i]
    OBVIOUS
  <2>1. Len(wr) + i \in 1 .. (Len(wr) + Len(ob)) /\ ~(Len(wr) + i <= Len(wr))
        /\ Len(wr) + i - Len(wr) = i
    OBVIOUS
  <2> QED BY <2>1 DEF StreamOf
<1>6. \A i \in 1 .. Len(wr) : StreamOf(wr, ob)[i] = [msg |-> wr[i].msg, pos |-> wr[i].pos]
  <2> SUFFICES ASSUME NEW i \in 1 .. Len(wr)
               PROVE  StreamOf(wr, ob)[i] = [msg |-> wr[i].msg, pos |-> wr[i].pos]
    OBVIOUS
  <2>1. i \in 1 .. (Len(wr) + Len(ob)) /\ i <= Len(wr)
    OBVIOUS
  <2> QED BY <2>1 DEF StreamOf
<1> QED BY <1>4, <1>5, <1>6 DEF n

-------------------------------------------------------------------------------
(***************************************************************************)
(* The bytes of a list w of messages, in order                             *)
(***************************************************************************)

ByteAfter(w, b) ==
    IF b.pos < w[b.msg].len THEN [msg |-> b.msg, pos |-> b.pos + 1]
    ELSE [msg |-> b.msg + 1, pos |-> 1]

\* s is a beginning of the bytes of w.
Chain(s, w) ==
    /\ s # <<>> => s[1] = [msg |-> 1, pos |-> 1]
    /\ \A i \in 1 .. (Len(s) - 1) : s[i + 1] = ByteAfter(w, s[i])
    /\ \A i \in 1 .. Len(s) : s[i].msg \in 1 .. Len(w) /\ s[i].pos \in 1 .. w[s[i].msg].len

\* s ends with the last byte of message q.
EndsWith(s, w, q) ==
    IF q = 0 THEN s = <<>>
    ELSE s # <<>> /\ s[Len(s)] = [msg |-> q, pos |-> w[q].len]

\* A message that was handed over but not queued changes nothing.
LEMMA ChainKept ==
    ASSUME NEW s \in Seq(Byte), NEW w \in Seq(Msg), NEW m \in Msg, Chain(s, w)
    PROVE  /\ Chain(s, Append(w, m))
           /\ \A q \in 0 .. Len(w) : EndsWith(s, w, q) => EndsWith(s, Append(w, m), q)
<1> DEFINE v == Append(w, m)
<1>1. Len(v) = Len(w) + 1 /\ \A k \in 1 .. Len(w) : v[k] = w[k]
  OBVIOUS
<1> HIDE DEF v
<1>2. ASSUME NEW i \in 1 .. Len(s)
      PROVE  /\ s[i].msg \in 1 .. Len(v) /\ v[s[i].msg] = w[s[i].msg]
             /\ s[i].pos \in 1 .. v[s[i].msg].len
  BY <1>1 DEF Chain
<1>3. ASSUME NEW i \in 1 .. (Len(s) - 1) PROVE s[i + 1] = ByteAfter(v, s[i])
  <2>1. i \in 1 .. Len(s) /\ s[i + 1] = ByteAfter(w, s[i])
    BY DEF Chain
  <2> QED BY <2>1, <1>2 DEF ByteAfter
<1>4. Chain(s, v)
  BY <1>2, <1>3 DEF Chain
<1>5. ASSUME NEW q \in 0 .. Len(w), EndsWith(s, w, q) PROVE EndsWith(s, v, q)
  BY <1>1, <1>5 DEF EndsWith
<1> QED BY <1>4, <1>5 DEF v

\* Queuing the last message continues the chain.
LEMMA ChainExtended ==
    ASSUME NEW s \in Seq(Byte), NEW w \in Seq(Msg), NEW t \in Seq(Byte), w # <<>>,
           Chain(s, w), EndsWith(s, w, Len(w) - 1),
           Len(t) = Len(s) + w[Len(w)].len,
           \A i \in 1 .. Len(s) : t[i] = s[i],
           \A k \in 1 .. w[Len(w)].len : t[Len(s) + k] = [msg |-> Len(w), pos |-> k]
    PROVE  Chain(t, w) /\ EndsWith(t, w, Len(w))
<1> DEFINE m == Len(w)
           n == w[m].len
<1>1. m \in Nat \ {0} /\ n \in Nat \ {0} /\ Len(s) \in Nat
  <2>1. m \in Nat \ {0} /\ Len(s) \in Nat
    OBVIOUS
  <2>2. w[m] \in Msg
    BY <2>1
  <2>3. w[m].len \in Lengths
    BY <2>2 DEF Msg
  <2> QED BY <2>1, <2>3, OutputAssumption
<1> HIDE DEF m, n
<1>2. /\ Len(t) = Len(s) + n
      /\ \A k \in 1 .. n : t[Len(s) + k] = [msg |-> m, pos |-> k]
      /\ Chain(s, w) /\ EndsWith(s, w, m - 1)
  BY DEF m, n
<1>3. ASSUME NEW i \in 1 .. Len(t), i > Len(s)
      PROVE  t[i] = [msg |-> m, pos |-> i - Len(s)] /\ i - Len(s) \in 1 .. n
  <2>1. i - Len(s) \in 1 .. n
    BY <1>1, <1>2, <1>3
  <2>2. Len(s) + (i - Len(s)) = i
    BY <1>1
  <2> QED BY <1>2, <2>1, <2>2
<1>4. \A i \in 1 .. Len(t) : t[i].msg \in 1 .. Len(w) /\ t[i].pos \in 1 .. w[t[i].msg].len
  <2> SUFFICES ASSUME NEW i \in 1 .. Len(t)
               PROVE  t[i].msg \in 1 .. Len(w) /\ t[i].pos \in 1 .. w[t[i].msg].len
    OBVIOUS
  <2>1. CASE i <= Len(s)
    <3>1. i \in 1 .. Len(s)
      BY <2>1, <1>1
    <3> QED BY <3>1 DEF Chain
  <2>2. CASE i > Len(s)
    <3>0. t[i] = [msg |-> m, pos |-> i - Len(s)] /\ i - Len(s) \in 1 .. n
      BY <2>2, <1>3
    <3>1. t[i].msg = m /\ t[i].pos \in 1 .. n
      BY <3>0
    <3> QED BY <3>1, <1>1 DEF m, n
  <2> QED BY <2>1, <2>2, <1>1
<1>5. t # <<>> => t[1] = [msg |-> 1, pos |-> 1]
  <2>1. CASE s = <<>>
    <3>1. m = 1
      BY <2>1, <1>1, <1>2 DEF EndsWith
    <3>2. Len(s) = 0 /\ 1 \in 1 .. n
      BY <2>1, <1>1
    <3>3. t[Len(s) + 1] = [msg |-> m, pos |-> 1]
      BY <1>2, <3>2
    <3> QED BY <3>1, <3>2, <3>3
  <2>2. CASE s # <<>>
    <3>1. 1 \in 1 .. Len(s)
      BY <2>2
    <3> QED BY <3>1, <2>2 DEF Chain
  <2> QED BY <2>1, <2>2
<1>6. ASSUME NEW i \in 1 .. (Len(t) - 1) PROVE t[i + 1] = ByteAfter(w, t[i])
  <2>0. i \in Nat /\ i \in 1 .. Len(t) /\ i + 1 \in 1 .. Len(t)
    OBVIOUS
  <2>1. CASE i + 1 <= Len(s)
    <3>1. i \in 1 .. (Len(s) - 1) /\ i \in 1 .. Len(s) /\ i + 1 \in 1 .. Len(s)
      BY <2>1, <2>0, <1>1
    <3>2. s[i + 1] = ByteAfter(w, s[i])
      BY <3>1 DEF Chain
    <3> QED BY <3>1, <3>2
  <2>2. CASE i = Len(s)
    <3>1. s # <<>> /\ i \in 1 .. Len(s)
      BY <2>2, <2>0
    <3>2. m - 1 # 0 /\ s[i] = [msg |-> m - 1, pos |-> w[m - 1].len]
      BY <3>1, <2>2, <1>2 DEF EndsWith
    <3>3. t[i] = s[i]
      BY <3>1
    <3>4. t[i + 1] = [msg |-> m, pos |-> 1]
      <4>1. i + 1 > Len(s) /\ i + 1 - Len(s) = 1
        BY <2>2, <2>0
      <4> QED BY <1>3, <2>0, <4>1
    <3>5. m - 1 \in 1 .. Len(w) /\ w[m - 1].len \in Nat
      <4>0. m = Len(w)
        BY DEF m
      <4>1. m - 1 \in 1 .. Len(w)
        BY <1>1, <3>2, <4>0
      <4>2. w[m - 1] \in Msg
        BY <4>1
      <4> QED BY <4>1, <4>2, OutputAssumption DEF Msg
    <3>6. ByteAfter(w, s[i]) = [msg |-> m, pos |-> 1]
      BY <3>2, <3>5, <1>1 DEF ByteAfter
    <3> QED BY <3>3, <3>4, <3>6
  <2>3. CASE i > Len(s)
    <3>1. t[i] = [msg |-> m, pos |-> i - Len(s)]
      BY <1>3, <2>0, <2>3
    <3>2. t[i + 1] = [msg |-> m, pos |-> i + 1 - Len(s)] /\ i + 1 - Len(s) \in 1 .. n
      <4>1. i + 1 > Len(s)
        BY <2>3, <2>0, <1>1
      <4> QED BY <1>3, <2>0, <4>1
    <3>3. i - Len(s) < w[m].len
      BY <3>2, <2>0, <1>1 DEF n
    <3>4. i - Len(s) + 1 = i + 1 - Len(s)
      BY <2>0, <1>1
    <3> QED BY <3>1, <3>2, <3>3, <3>4 DEF ByteAfter
  <2> QED BY <2>0, <2>1, <2>2, <2>3, <1>1
<1>7. EndsWith(t, w, m)
  <2>0. Len(t) \in Nat /\ Len(t) = Len(s) + n
    BY <1>2
  <2>1. Len(t) \in 1 .. Len(t) /\ Len(t) > Len(s) /\ Len(t) - Len(s) = n
    BY <1>1, <2>0
  <2>3. t # <<>>
    BY <2>1
  <2>2. t[Len(t)] = [msg |-> m, pos |-> n]
    BY <2>1, <1>3
  <2> QED BY <2>2, <2>3, <1>1 DEF EndsWith, n
<1> QED BY <1>4, <1>5, <1>6, <1>7 DEF Chain, m
-------------------------------------------------------------------------------
(***************************************************************************)
(* Descriptors: fds is the queue of the descriptors in the bytes ob, wr    *)
(* the bytes sent                                                          *)
(***************************************************************************)

\* Every queued descriptor lies at the first byte of its reply, whole in ob.
FdAtReply(ob, fds, w) ==
    \A i \in 1 .. Len(fds) :
        /\ fds[i].fd \in 1 .. Len(w) /\ w[fds[i].fd].fd
        /\ fds[i].at + fds[i].len <= Len(ob)
        /\ \A k \in 1 .. fds[i].len : ob[fds[i].at + k] = [msg |-> fds[i].fd, pos |-> k]

\* The replies with a descriptor lie one behind the other.
FdsInOrder(fds) ==
    \A i, j \in 1 .. Len(fds) : i < j => fds[i].at + fds[i].len <= fds[j].at

\* Every reply that begins in ob and has a descriptor has it queued.
ReplyHasFd(ob, fds, w) ==
    \A j \in 1 .. Len(ob) :
        /\ ob[j].msg \in 1 .. Len(w)
        /\ ob[j].pos = 1 /\ w[ob[j].msg].fd => \E i \in 1 .. Len(fds) : fds[i].at = j - 1

FdsOK(ob, fds, w) == FdAtReply(ob, fds, w) /\ FdsInOrder(fds) /\ ReplyHasFd(ob, fds, w)

SentOK(wr, w) ==
    \A i \in 1 .. Len(wr) :
        /\ wr[i].msg \in 1 .. Len(w)
        /\ wr[i].fd = IF wr[i].pos = 1 /\ w[wr[i].msg].fd THEN wr[i].msg ELSE 0

\* Positions in a reply of length l at a, in L bytes, n of which go.
LEMMA ReplyPositions ==
    ASSUME NEW a \in Nat, NEW l \in Nat, NEW L \in Nat, NEW n \in Nat, a + l <= L
    PROVE  /\ \A k \in 1 .. l : a + k \in 1 .. L
           /\ n <= a => /\ a - n + l <= L - n
                        /\ \A k \in 1 .. l : a - n + k \in 1 .. (L - n) /\ n + (a - n + k) = a + k
           /\ \A b \in Nat : a + l <= b => (a - n) + l <= b - n
OBVIOUS

\* A message handed over leaves the descriptors of the others alone.
LEMMA FdsKept ==
    ASSUME NEW ob \in Seq(Byte), NEW fds \in Seq(Fd), NEW wr \in Seq(WireByte),
           NEW w \in Seq(Msg), NEW m \in Msg
    PROVE  /\ FdsOK(ob, fds, w) => FdsOK(ob, fds, Append(w, m))
           /\ SentOK(wr, w) => SentOK(wr, Append(w, m))
<1> DEFINE v == Append(w, m)
<1>1. Len(v) = Len(w) + 1 /\ Len(w) \in Nat /\ \A k \in 1 .. Len(w) : v[k] = w[k]
  OBVIOUS
<1> HIDE DEF v
<1>2. \A k \in 1 .. Len(w) : k \in 1 .. Len(v)
  BY <1>1
<1>3. FdAtReply(ob, fds, w) => FdAtReply(ob, fds, v)
  BY <1>1, <1>2 DEF FdAtReply
<1>4. ReplyHasFd(ob, fds, w) => ReplyHasFd(ob, fds, v)
  BY <1>1, <1>2 DEF ReplyHasFd
<1>5. SentOK(wr, w) => SentOK(wr, v)
  BY <1>1, <1>2 DEF SentOK
<1> QED BY <1>3, <1>4, <1>5 DEF FdsOK, v

\* Queuing bytes of a message without a descriptor.
LEMMA PlainQueued ==
    ASSUME NEW ob \in Seq(Byte), NEW fds \in Seq(Fd), NEW w \in Seq(Msg), NEW x \in Seq(Byte),
           FdsOK(ob, fds, w), NEW m \in 1 .. Len(w), ~w[m].fd,
           \A i \in 1 .. Len(x) : x[i].msg = m
    PROVE  FdsOK(ob \o x, fds, w)
<1> DEFINE o == ob \o x
<1>1. /\ Len(o) = Len(ob) + Len(x) /\ Len(ob) \in Nat /\ Len(x) \in Nat
      /\ \A i \in 1 .. Len(ob) : o[i] = ob[i]
      /\ \A i \in 1 .. Len(x) : o[Len(ob) + i] = x[i]
  OBVIOUS
<1> HIDE DEF o
<1>2. FdAtReply(o, fds, w)
  <2> SUFFICES ASSUME NEW i \in 1 .. Len(fds)
               PROVE  /\ fds[i].fd \in 1 .. Len(w) /\ w[fds[i].fd].fd
                      /\ fds[i].at + fds[i].len <= Len(o)
                      /\ \A k \in 1 .. fds[i].len :
                            o[fds[i].at + k] = [msg |-> fds[i].fd, pos |-> k]
    BY DEF FdAtReply
  <2>1. fds[i].at \in Nat /\ fds[i].len \in Nat
    <3>1. fds[i] \in Fd
      OBVIOUS
    <3> QED BY <3>1 DEF Fd
  <2>2. /\ fds[i].fd \in 1 .. Len(w) /\ w[fds[i].fd].fd
        /\ fds[i].at + fds[i].len <= Len(ob)
        /\ \A k \in 1 .. fds[i].len : ob[fds[i].at + k] = [msg |-> fds[i].fd, pos |-> k]
    BY DEF FdsOK, FdAtReply
  <2>3. \A k \in 1 .. fds[i].len : fds[i].at + k \in 1 .. Len(ob)
    BY <2>1, <2>2, <1>1
  <2>4. fds[i].at + fds[i].len <= Len(o)
    <3>1. Len(ob) <= Len(o) /\ Len(o) \in Nat
      BY <1>1
    <3> QED BY <2>1, <2>2, <3>1, <1>1
  <2> QED BY <2>2, <2>3, <2>4, <1>1
<1>3. ReplyHasFd(o, fds, w)
  <2> SUFFICES ASSUME NEW j \in 1 .. Len(o)
               PROVE  /\ o[j].msg \in 1 .. Len(w)
                      /\ o[j].pos = 1 /\ w[o[j].msg].fd => \E i \in 1 .. Len(fds) : fds[i].at = j - 1
    BY DEF ReplyHasFd
  <2>1. CASE j <= Len(ob)
    <3>1. j \in 1 .. Len(ob)
      BY <2>1, <1>1
    <3> QED BY <3>1, <1>1 DEF FdsOK, ReplyHasFd
  <2>2. CASE j > Len(ob)
    <3>1. j - Len(ob) \in 1 .. Len(x) /\ Len(ob) + (j - Len(ob)) = j
      BY <2>2, <1>1
    <3>2. o[j].msg = m
      BY <3>1, <1>1
    <3> QED BY <3>2
  <2> QED BY <2>1, <2>2, <1>1
<1> QED BY <1>2, <1>3 DEF FdsOK, o

\* write_with_fd queues a reply with its descriptor.
LEMMA ReplyQueued ==
    ASSUME NEW ob \in Seq(Byte), NEW fds \in Seq(Fd), NEW w \in Seq(Msg), NEW x \in Seq(Byte),
           FdsOK(ob, fds, w), NEW m \in 1 .. Len(w), w[m].fd,
           \A i \in 1 .. Len(x) : x[i] = [msg |-> m, pos |-> i]
    PROVE  FdsOK(ob \o x, Append(fds, [at |-> Len(ob), len |-> Len(x), fd |-> m]), w)
<1> DEFINE o == ob \o x
           f == [at |-> Len(ob), len |-> Len(x), fd |-> m]
           g == Append(fds, f)
<1>0. f \in Fd /\ f.at = Len(ob) /\ f.len = Len(x) /\ f.fd = m
  BY DEF Fd
<1>1. /\ Len(o) = Len(ob) + Len(x) /\ Len(ob) \in Nat /\ Len(x) \in Nat
      /\ \A i \in 1 .. Len(ob) : o[i] = ob[i]
      /\ \A i \in 1 .. Len(x) : o[Len(ob) + i] = x[i]
  OBVIOUS
<1> HIDE DEF f, o
<1>2. /\ Len(g) = Len(fds) + 1 /\ Len(fds) \in Nat /\ g[Len(fds) + 1] = f
      /\ \A i \in 1 .. Len(fds) : g[i] = fds[i]
  BY <1>0
<1> HIDE DEF g
<1>3. \A i \in 1 .. Len(fds) : fds[i].at \in Nat /\ fds[i].len \in Nat
  <2> SUFFICES ASSUME NEW i \in 1 .. Len(fds) PROVE fds[i].at \in Nat /\ fds[i].len \in Nat
    OBVIOUS
  <2>1. fds[i] \in Fd
    OBVIOUS
  <2> QED BY <2>1 DEF Fd
<1>4. \A i \in 1 .. Len(g) : (i \in 1 .. Len(fds) /\ g[i] = fds[i]) \/ (i = Len(fds) + 1 /\ g[i] = f)
  BY <1>2
<1>5. FdAtReply(o, g, w)
  <2> SUFFICES ASSUME NEW i \in 1 .. Len(g)
               PROVE  /\ g[i].fd \in 1 .. Len(w) /\ w[g[i].fd].fd
                      /\ g[i].at + g[i].len <= Len(o)
                      /\ \A k \in 1 .. g[i].len : o[g[i].at + k] = [msg |-> g[i].fd, pos |-> k]
    BY DEF FdAtReply
  <2>1. CASE i \in 1 .. Len(fds) /\ g[i] = fds[i]
    <3>1. /\ fds[i].fd \in 1 .. Len(w) /\ w[fds[i].fd].fd
          /\ fds[i].at + fds[i].len <= Len(ob)
          /\ \A k \in 1 .. fds[i].len : ob[fds[i].at + k] = [msg |-> fds[i].fd, pos |-> k]
      BY <2>1 DEF FdsOK, FdAtReply
    <3>2. \A k \in 1 .. fds[i].len : fds[i].at + k \in 1 .. Len(ob)
      <4>1. fds[i].at \in Nat /\ fds[i].len \in Nat
        BY <2>1, <1>3
      <4> QED BY <3>1, <4>1, <1>1, ReplyPositions
    <3>3. fds[i].at + fds[i].len <= Len(o)
      <4>1. Len(ob) <= Len(o) /\ Len(o) \in Nat
        BY <1>1
      <4>2. fds[i].at \in Nat /\ fds[i].len \in Nat
        BY <2>1, <1>3
      <4> QED BY <3>1, <4>1, <4>2, <1>1
    <3> QED BY <2>1, <3>1, <3>2, <3>3, <1>1
  <2>2. CASE g[i] = f
    <3>1. g[i].fd = m /\ g[i].at = Len(ob) /\ g[i].len = Len(x)
      BY <2>2, <1>0
    <3>2. \A k \in 1 .. Len(x) : o[Len(ob) + k] = [msg |-> m, pos |-> k]
      BY <1>1
    <3>3. Len(ob) + Len(x) <= Len(o)
      BY <1>1
    <3> QED BY <3>1, <3>2, <3>3
  <2> QED BY <2>1, <2>2, <1>4
<1>6. FdsInOrder(g)
  <2> SUFFICES ASSUME NEW i \in 1 .. Len(g), NEW j \in 1 .. Len(g), i < j
               PROVE  g[i].at + g[i].len <= g[j].at
    BY DEF FdsInOrder
  <2>1. i \in 1 .. Len(fds) /\ g[i] = fds[i]
    BY <1>2
  <2>2. CASE j \in 1 .. Len(fds) /\ g[j] = fds[j]
    BY <2>1, <2>2 DEF FdsOK, FdsInOrder
  <2>3. CASE g[j] = f
    BY <2>1, <2>3, <1>0 DEF FdsOK, FdAtReply
  <2> QED BY <2>2, <2>3, <1>4
<1>7. ReplyHasFd(o, g, w)
  <2> SUFFICES ASSUME NEW j \in 1 .. Len(o)
               PROVE  /\ o[j].msg \in 1 .. Len(w)
                      /\ o[j].pos = 1 /\ w[o[j].msg].fd => \E i \in 1 .. Len(g) : g[i].at = j - 1
    BY DEF ReplyHasFd
  <2>1. CASE j <= Len(ob)
    <3>1. j \in 1 .. Len(ob) /\ o[j] = ob[j]
      BY <2>1, <1>1
    <3>2. o[j].msg \in 1 .. Len(w)
      BY <3>1 DEF FdsOK, ReplyHasFd
    <3>3. ASSUME o[j].pos = 1, w[o[j].msg].fd PROVE \E i \in 1 .. Len(g) : g[i].at = j - 1
      <4>1. PICK i \in 1 .. Len(fds) : fds[i].at = j - 1
        BY <3>1, <3>3 DEF FdsOK, ReplyHasFd
      <4>2. i \in 1 .. Len(g) /\ g[i] = fds[i]
        BY <1>2
      <4> QED BY <4>1, <4>2
    <3> QED BY <3>2, <3>3
  <2>2. CASE j > Len(ob)
    <3>1. j - Len(ob) \in 1 .. Len(x) /\ Len(ob) + (j - Len(ob)) = j
      BY <2>2, <1>1
    <3>2. o[j] = [msg |-> m, pos |-> j - Len(ob)]
      BY <3>1, <1>1
    <3>3. ASSUME o[j].pos = 1 PROVE \E i \in 1 .. Len(g) : g[i].at = j - 1
      <4>1. Len(ob) = j - 1
        BY <3>2, <3>3, <1>1
      <4>2. Len(fds) + 1 \in 1 .. Len(g) /\ g[Len(fds) + 1].at = Len(ob)
        BY <1>0, <1>2
      <4> QED BY <4>1, <4>2
    <3> QED BY <3>2, <3>3
  <2> QED BY <2>1, <2>2, <1>1
<1> QED BY <1>5, <1>6, <1>7 DEF FdsOK, o, g, f

\* A chunk of a drain, up to where the next descriptor's reply begins or, if
\* that descriptor is due, ends: what it takes along is what its bytes should
\* carry, and the queue it leaves is right for the bytes that stay.
LEMMA ChunkSent ==
    ASSUME NEW ob \in Seq(Byte), NEW fds \in Seq(Fd), NEW w \in Seq(Msg), NEW wr \in Seq(WireByte),
           FdsOK(ob, fds, w), SentOK(wr, w),
           NEW n \in 1 .. Len(ob), NEW due \in BOOLEAN,
           due <=> (fds # <<>> /\ fds[1].at = 0),
           fds # <<>> => n <= IF due THEN fds[1].len ELSE fds[1].at
    PROVE  /\ Sent(fds, n, due) \in Seq(Fd)
           /\ FdsOK(SubSeq(ob, n + 1, Len(ob)), Sent(fds, n, due), w)
           /\ SentOK(wr \o OnWire(SubSeq(ob, 1, n), IF due THEN fds[1].fd ELSE 0), w)
<1> DEFINE rest == IF due THEN Tail(fds) ELSE fds
           a == IF due THEN 1 ELSE 0
           o == SubSeq(ob, n + 1, Len(ob))
           g == Sent(fds, n, due)
           head == SubSeq(ob, 1, n)
           carried == IF due THEN fds[1].fd ELSE 0
           new == OnWire(head, carried)
<1>1. /\ o \in Seq(Byte) /\ Len(o) = Len(ob) - n /\ \A j \in 1 .. Len(o) : o[j] = ob[n + j]
      /\ head \in Seq(Byte) /\ Len(head) = n /\ \A j \in 1 .. n : head[j] = ob[j]
      /\ Len(ob) \in Nat /\ n \in Nat
  OBVIOUS
<1>2. \A i \in 1 .. Len(fds) : fds[i] \in Fd /\ fds[i].at \in Nat /\ fds[i].len \in Nat /\ fds[i].fd \in Nat
  <2> SUFFICES ASSUME NEW i \in 1 .. Len(fds)
               PROVE  fds[i] \in Fd /\ fds[i].at \in Nat /\ fds[i].len \in Nat /\ fds[i].fd \in Nat
    OBVIOUS
  <2>1. fds[i] \in Fd
    OBVIOUS
  <2> QED BY <2>1 DEF Fd
<1>3. /\ rest \in Seq(Fd) /\ Len(rest) = Len(fds) - a /\ a \in {0, 1}
      /\ \A i \in 1 .. Len(rest) : rest[i] = fds[a + i] /\ a + i \in 1 .. Len(fds)
      /\ Len(fds) \in Nat /\ Len(rest) \in Nat
  OBVIOUS
<1>4. \A i \in (a + 1) .. Len(fds) : n <= fds[i].at
  <2> SUFFICES ASSUME NEW i \in (a + 1) .. Len(fds) PROVE n <= fds[i].at
    OBVIOUS
  <2>1. i \in 1 .. Len(fds) /\ 1 \in 1 .. Len(fds) /\ fds # <<>>
    BY <1>3
  <2>2. /\ fds[i].at \in Nat
        /\ fds[1].at \in Nat /\ fds[1].len \in Nat
    BY <1>2, <2>1
  <2>3. 1 < i => fds[1].at + fds[1].len <= fds[i].at
    BY <2>1 DEF FdsOK, FdsInOrder
  <2>4. CASE due
    <3>1. 1 < i /\ n <= fds[1].len
      BY <2>1, <2>4
    <3> QED BY <2>2, <2>3, <3>1, <1>1
  <2>5. CASE ~due
    <3>1. n <= fds[1].at
      BY <2>1, <2>5
    <3>2. CASE i = 1
      BY <3>1, <3>2
    <3>3. CASE 1 < i
      BY <2>2, <2>3, <3>1, <3>3, <1>1
    <3> QED BY <3>2, <3>3, <2>1
  <2> QED BY <2>4, <2>5
<1> HIDE DEF o, head, a
<1>5. ASSUME NEW i \in 1 .. Len(rest)
      PROVE  /\ rest[i].at \in Nat /\ rest[i].len \in Nat /\ rest[i].fd \in Nat
             /\ n <= rest[i].at
             /\ [rest[i] EXCEPT !.at = @ - n] = [at |-> rest[i].at - n, len |-> rest[i].len,
                                                   fd |-> rest[i].fd]
             /\ [rest[i] EXCEPT !.at = @ - n] \in Fd
  <2>1. rest[i] = fds[a + i] /\ a + i \in 1 .. Len(fds) /\ a + i \in (a + 1) .. Len(fds)
    BY <1>3
  <2>2. rest[i] \in Fd /\ rest[i].at \in Nat /\ rest[i].len \in Nat /\ rest[i].fd \in Nat
    BY <2>1, <1>2
  <2>3. n <= rest[i].at
    BY <2>1, <1>4
  <2> HIDE DEF rest
  <2>4. [rest[i] EXCEPT !.at = @ - n] = [at |-> rest[i].at - n, len |-> rest[i].len,
                                        fd |-> rest[i].fd]
    BY <2>2 DEF Fd
  <2>5. rest[i].at - n \in Nat
    BY <2>2, <2>3, <1>1
  <2>6. [at |-> rest[i].at - n, len |-> rest[i].len, fd |-> rest[i].fd] \in Fd
    BY <2>2, <2>5 DEF Fd
  <2> QED BY <2>2, <2>3, <2>4, <2>6
<1>6. g = [i \in DOMAIN rest |-> [rest[i] EXCEPT !.at = @ - n]]
  BY DEF Sent
<1> HIDE DEF rest, g
<1>7. DOMAIN rest = 1 .. Len(rest)
  BY <1>3
<1>8. g \in Seq(Fd) /\ Len(g) = Len(rest)
  <2> DEFINE l == Len(rest)
  <2>1. g \in [1 .. l -> Fd]
    BY <1>5, <1>6, <1>7
  <2>2. l \in Nat
    BY <1>3
  <2> HIDE DEF l
  <2>3. g \in Seq(Fd) /\ Len(g) = l
    BY <2>1, <2>2
  <2> QED BY <2>3 DEF l
<1>9. \A i \in 1 .. Len(g) : /\ g[i].at = rest[i].at - n /\ g[i].len = rest[i].len
                             /\ g[i].fd = rest[i].fd
  <2> SUFFICES ASSUME NEW i \in 1 .. Len(g)
               PROVE  g[i].at = rest[i].at - n /\ g[i].len = rest[i].len /\ g[i].fd = rest[i].fd
    OBVIOUS
  <2>1. g[i] = [at |-> rest[i].at - n, len |-> rest[i].len, fd |-> rest[i].fd]
    BY <1>5, <1>6, <1>7, <1>8
  <2> QED BY <2>1
<1>10. FdAtReply(o, g, w)
  <2> SUFFICES ASSUME NEW i \in 1 .. Len(g)
               PROVE  /\ g[i].fd \in 1 .. Len(w) /\ w[g[i].fd].fd
                      /\ g[i].at + g[i].len <= Len(o)
                      /\ \A k \in 1 .. g[i].len : o[g[i].at + k] = [msg |-> g[i].fd, pos |-> k]
    BY DEF FdAtReply
  <2>1. /\ rest[i].at \in Nat /\ rest[i].len \in Nat /\ n <= rest[i].at
        /\ g[i].at = rest[i].at - n /\ g[i].len = rest[i].len /\ g[i].fd = rest[i].fd
    BY <1>5, <1>8, <1>9
  <2>2. /\ rest[i].fd \in 1 .. Len(w) /\ w[rest[i].fd].fd
        /\ rest[i].at + rest[i].len <= Len(ob)
        /\ \A k \in 1 .. rest[i].len : ob[rest[i].at + k] = [msg |-> rest[i].fd, pos |-> k]
    <3>1. rest[i] = fds[a + i] /\ a + i \in 1 .. Len(fds)
      BY <1>3, <1>8
    <3> QED BY <3>1 DEF FdsOK, FdAtReply
  <2>0. /\ rest[i].at - n + rest[i].len <= Len(ob) - n
        /\ \A k \in 1 .. rest[i].len : /\ rest[i].at - n + k \in 1 .. (Len(ob) - n)
                                       /\ n + (rest[i].at - n + k) = rest[i].at + k
    <3> DEFINE x == rest[i].at
               l == rest[i].len
               L == Len(ob)
    <3>1. L \in Nat /\ n \in Nat /\ x \in Nat /\ l \in Nat /\ x + l <= L /\ n <= x
      BY <1>1, <2>1, <2>2
    <3> HIDE DEF x, l, L
    <3>2. x - n + l <= L - n
      BY <3>1, SMTT(30)
    <3>3. \A k \in 1 .. l : x - n + k \in 1 .. (L - n) /\ n + (x - n + k) = x + k
      BY <3>1, SMTT(30)
    <3> QED BY <3>2, <3>3 DEF x, l, L
  <2>3. rest[i].at - n + rest[i].len <= Len(o)
    BY <2>0, <1>1
  <2>4. ASSUME NEW k \in 1 .. rest[i].len
        PROVE  o[rest[i].at - n + k] = [msg |-> rest[i].fd, pos |-> k]
    <3>1. rest[i].at - n + k \in 1 .. Len(o)
      BY <2>0, <1>1
    <3>2. n + (rest[i].at - n + k) = rest[i].at + k
      BY <2>0
    <3>3. o[rest[i].at - n + k] = ob[n + (rest[i].at - n + k)]
      BY <3>1, <1>1
    <3> QED BY <2>2, <3>2, <3>3
  <2> QED BY <2>1, <2>2, <2>3, <2>4
<1>11. FdsInOrder(g)
  <2> SUFFICES ASSUME NEW i \in 1 .. Len(g), NEW j \in 1 .. Len(g), i < j
               PROVE  g[i].at + g[i].len <= g[j].at
    BY DEF FdsInOrder
  <2>1. /\ rest[i].at \in Nat /\ rest[i].len \in Nat /\ rest[j].at \in Nat
        /\ g[i].at = rest[i].at - n /\ g[i].len = rest[i].len /\ g[j].at = rest[j].at - n
    BY <1>5, <1>8, <1>9
  <2>2. rest[i].at + rest[i].len <= rest[j].at
    <3>1. /\ rest[i] = fds[a + i] /\ a + i \in 1 .. Len(fds)
          /\ rest[j] = fds[a + j] /\ a + j \in 1 .. Len(fds)
      BY <1>3, <1>8
    <3>2. a + i < a + j
      BY <1>3
    <3> QED BY <3>1, <3>2 DEF FdsOK, FdsInOrder
  <2>3. (rest[i].at - n) + rest[i].len <= rest[j].at - n
    BY <2>1, <2>2, <1>1, ReplyPositions
  <2> QED BY <2>1, <2>3
<1>12. ReplyHasFd(o, g, w)
  <2> SUFFICES ASSUME NEW j \in 1 .. Len(o)
               PROVE  /\ o[j].msg \in 1 .. Len(w)
                      /\ o[j].pos = 1 /\ w[o[j].msg].fd => \E i \in 1 .. Len(g) : g[i].at = j - 1
    BY DEF ReplyHasFd
  <2>1. o[j] = ob[n + j] /\ n + j \in 1 .. Len(ob)
    BY <1>1
  <2>2. o[j].msg \in 1 .. Len(w)
    BY <2>1 DEF FdsOK, ReplyHasFd
  <2>3. ASSUME o[j].pos = 1, w[o[j].msg].fd PROVE \E i \in 1 .. Len(g) : g[i].at = j - 1
    <3>1. PICK i \in 1 .. Len(fds) : fds[i].at = (n + j) - 1
      BY <2>1, <2>3 DEF FdsOK, ReplyHasFd
    <3>2. i # 1 \/ ~due
      BY <3>1, <1>1
    <3>3. i - a \in 1 .. Len(rest) /\ a + (i - a) = i
      BY <3>2, <1>3 DEF a
    <3>4. rest[i - a] = fds[i]
      BY <3>3, <1>3
    <3>5. g[i - a].at = fds[i].at - n
      BY <3>3, <3>4, <1>8, <1>9
    <3>6. g[i - a].at = j - 1
      BY <3>1, <3>5, <1>1
    <3> QED BY <3>3, <3>6, <1>8
  <2> QED BY <2>2, <2>3
<1>13. carried \in Nat
  <2>1. due => 1 \in 1 .. Len(fds)
    OBVIOUS
  <2> QED BY <2>1, <1>2
<1> HIDE DEF carried
<1>14. /\ new \in Seq(WireByte) /\ Len(new) = n
       /\ \A i \in 1 .. n : new[i] = [msg |-> ob[i].msg, pos |-> ob[i].pos,
                                     fd |-> IF i = 1 THEN carried ELSE 0]
  <2>1. /\ new \in Seq(WireByte) /\ Len(new) = Len(head)
        /\ \A i \in 1 .. Len(head) : new[i] = [msg |-> head[i].msg, pos |-> head[i].pos,
                                              fd |-> IF i = 1 THEN carried ELSE 0]
    BY <1>1, <1>13, OnWireType
  <2> QED BY <2>1, <1>1
<1> HIDE DEF new
<1>15. ASSUME NEW i \in 1 .. n
       PROVE  /\ ob[i].msg \in 1 .. Len(w)
              /\ (IF i = 1 THEN carried ELSE 0) =
                    IF ob[i].pos = 1 /\ w[ob[i].msg].fd THEN ob[i].msg ELSE 0
  <2>0. i \in 1 .. Len(ob)
    BY <1>1
  <2>1. /\ ob[i].msg \in 1 .. Len(w)
        /\ ob[i].pos = 1 /\ w[ob[i].msg].fd => \E k \in 1 .. Len(fds) : fds[k].at = i - 1
    BY <2>0 DEF FdsOK, ReplyHasFd
  <2>2. CASE due
    <3>1. 1 \in 1 .. Len(fds) /\ fds[1].at = 0 /\ n <= fds[1].len
      BY <2>2
    <3>2. /\ fds[1].fd \in 1 .. Len(w) /\ w[fds[1].fd].fd
          /\ \A k \in 1 .. fds[1].len : ob[fds[1].at + k] = [msg |-> fds[1].fd, pos |-> k]
      BY <3>1 DEF FdsOK, FdAtReply
    <3>3. i \in 1 .. fds[1].len /\ fds[1].at + i = i
      <4>1. fds[1].len \in Nat
        BY <3>1, <1>2
      <4> QED BY <3>1, <4>1, <1>1
    <3>4. ob[i] = [msg |-> fds[1].fd, pos |-> i]
      BY <3>2, <3>3
    <3> QED BY <2>1, <2>2, <3>2, <3>4 DEF carried
  <2>3. CASE ~due
    <3>1. ~(ob[i].pos = 1 /\ w[ob[i].msg].fd)
      <4> SUFFICES ASSUME ob[i].pos = 1, w[ob[i].msg].fd PROVE FALSE
        OBVIOUS
      <4>1. PICK k \in 1 .. Len(fds) : fds[k].at = i - 1
        BY <2>1
      <4>2. k \in (a + 1) .. Len(fds)
        BY <2>3 DEF a
      <4>3. n <= fds[k].at
        BY <4>2, <1>4
      <4> QED BY <4>1, <4>3, <1>1
    <3> QED BY <2>1, <2>3, <3>1 DEF carried
  <2> QED BY <2>2, <2>3
<1>16. SentOK(wr \o new, w)
  <2> DEFINE v == wr \o new
  <2>1. /\ Len(v) = Len(wr) + n /\ Len(wr) \in Nat
        /\ \A i \in 1 .. Len(wr) : v[i] = wr[i]
        /\ \A i \in 1 .. n : v[Len(wr) + i] = new[i]
    <3>1. new \in Seq(WireByte) /\ Len(new) = n
      BY <1>14
    <3> HIDE DEF new
    <3>2. new \in Seq(WireByte)
      BY <3>1
    <3>3. Followed(v, wr, new)
      BY <3>2, ConcatFollowed, Zenon
    <3> HIDE DEF v
    <3> QED BY <3>1, <3>3 DEF Followed
  <2> HIDE DEF v
  <2> SUFFICES ASSUME NEW i \in 1 .. Len(v)
               PROVE  /\ v[i].msg \in 1 .. Len(w)
                      /\ v[i].fd = IF v[i].pos = 1 /\ w[v[i].msg].fd THEN v[i].msg ELSE 0
    BY DEF SentOK, v
  <2>2. CASE i <= Len(wr)
    <3>1. i \in 1 .. Len(wr) /\ v[i] = wr[i]
      BY <2>1, <2>2
    <3> QED BY <3>1 DEF SentOK
  <2>3. CASE i > Len(wr)
    <3> DEFINE k == i - Len(wr)
    <3>1. k \in 1 .. n /\ Len(wr) + k = i
      BY <2>1, <2>3, <1>1
    <3> HIDE DEF k
    <3>2. v[i] = new[k]
      BY <2>1, <3>1
    <3>3. v[i] = [msg |-> ob[k].msg, pos |-> ob[k].pos, fd |-> IF k = 1 THEN carried ELSE 0]
      BY <1>14, <3>1, <3>2
    <3> QED BY <1>15, <3>1, <3>3
  <2> QED BY <2>1, <2>2, <2>3
<1> QED BY <1>8, <1>10, <1>11, <1>12, <1>16 DEF FdsOK, g, o, new, head, carried
-------------------------------------------------------------------------------
(***************************************************************************)
(* The steps of the core loop, as they appear in the output of one client  *)
(***************************************************************************)

Handlers == {"dispatch", "fanout", "tail"}

\* The write or drain in progress fits the place the core loop is at; a plain
\* write has its message in the history and not yet in the buffer.
OpInv ==
    \/ op = Idle
    \/ /\ op.c \in live
       /\ \/ /\ op.kind = "write" /\ op.step \in {"drain", "direct"} /\ at \in Handlers
             /\ ~writeFailed[op.c] /\ written[op.c] # <<>>
             /\ written[op.c][Len(written[op.c])] = [len |-> op.len, fd |-> FALSE]
             /\ op.step = "direct" => outbound[op.c] = <<>>
          \/ op.kind = "fd" /\ op.step = "drain" /\ at \in Handlers
          \/ op.kind = "event" /\ op.step = "drain" /\ at = "dispatch"
          \/ op.kind = "reconcile" /\ op.step \in {"drain", "watch"} /\ at = "reconcile"

\* Nothing of c's output changes.
Same(c) ==
    /\ UNCHANGED <<outbound[c], wire[c], outboundFds[c], written[c], writeFailed[c]>>
    /\ Queued(c)' = Queued(c)

\* A write fails.
Failing(c) ==
    /\ UNCHANGED <<outbound[c], wire[c], outboundFds[c]>>
    /\ writeFailed[c]' = TRUE
    /\ written[c]' = written[c] \/ \E m \in Msg : written[c]' = Append(written[c], m)

\* A plain message is handed over.
Handed(c) ==
    /\ \E m \in Msg : written[c]' = Append(written[c], m)
    /\ UNCHANGED <<outbound[c], wire[c], outboundFds[c], writeFailed[c]>>
    /\ Queued(c) = Len(written[c]) /\ Queued(c)' = Queued(c)

\* A plain message goes behind the backlog, or, if there is none, in part to
\* the socket.
PlainGoes(c, m, len) ==
    /\ m = Len(written[c]) /\ written[c] # <<>> /\ written[c][m] = [len |-> len, fd |-> FALSE]
    /\ Queued(c) = m - 1 /\ Queued(c)' = m
    /\ ~writeFailed[c]
    /\ UNCHANGED <<written[c], outboundFds[c], writeFailed[c]>>
    /\ \/ /\ ~OverCap(c, len)
          /\ UNCHANGED wire[c]
          /\ outbound[c]' = outbound[c] \o Bytes(m, 1, len)
       \/ /\ outbound[c] = <<>>
          /\ \E n \in 1 .. len :
                /\ wire[c]' = wire[c] \o OnWire(Bytes(m, 1, n), 0)
                /\ outbound[c]' = Bytes(m, n + 1, len)

\* A reply is queued with its descriptor.
ReplyGoes(c, len) ==
    /\ ~OverCap(c, len)
    /\ ~writeFailed[c]
    /\ written[c]' = Append(written[c], [len |-> len, fd |-> TRUE])
    /\ outboundFds[c]' = Append(outboundFds[c], [at |-> Len(outbound[c]), len |-> len,
                                                 fd |-> Len(written[c]) + 1])
    /\ outbound[c]' = outbound[c] \o Bytes(Len(written[c]) + 1, 1, len)
    /\ UNCHANGED <<wire[c], writeFailed[c]>>
    /\ Queued(c) = Len(written[c]) /\ Queued(c)' = Len(written[c]) + 1

\* A chunk of the backlog is sent.
ChunkGoes(c, n) ==
    /\ n <= ChunkEnd(c)
    /\ wire[c]' = wire[c] \o OnWire(SubSeq(outbound[c], 1, n),
                                    IF FdDue(c) THEN outboundFds[c][1].fd ELSE 0)
    /\ outbound[c]' = SubSeq(outbound[c], n + 1, Len(outbound[c]))
    /\ outboundFds[c]' = Sent(outboundFds[c], n, FdDue(c))
    /\ UNCHANGED <<written[c], writeFailed[c]>>
    /\ Queued(c)' = Queued(c)

DataStep(c) ==
    \/ Same(c) \/ Failing(c) \/ Handed(c)
    \/ \E m \in Nat, len \in Lengths : PlainGoes(c, m, len)
    \/ \E len \in Lengths : ReplyGoes(c, len)
    \/ \E n \in 1 .. Len(outbound[c]) : ChunkGoes(c, n)

\* The per-client sequences stay functions on Client.
Functional ==
    /\ outbound = [c \in Client |-> outbound[c]]
    /\ wire = [c \in Client |-> wire[c]]
    /\ outboundFds = [c \in Client |-> outboundFds[c]]
    /\ written = [c \in Client |-> written[c]]

\* g is f but for its value at one client.
Updated(f, g) == g = f \/ \E d, v : g = [f EXCEPT ![d] = v]

LEMMA UpdateFunctional ==
    ASSUME NEW f, NEW g, f = [c \in Client |-> f[c]], Updated(f, g)
    PROVE  g = [c \in Client |-> g[c]]
BY DEF Updated

LEMMA StaysFunctional ==
    ASSUME TypeOK, [Next]_vars PROVE Functional'
<1>1. Functional
  BY DEF TypeOK, Functional
<1>2. CASE Write
  BY <1>1, <1>2 DEF Write, WriteOrBuffer, WriteWithFd, Functional, socket
<1>3. CASE DirectWrite
  <2>1. Updated(wire, wire') /\ Updated(outbound, outbound')
    BY <1>3, Zenon DEF DirectWrite, BufferOrDisconnect, Updated
  <2>2. UNCHANGED <<outboundFds, written>>
    BY <1>3 DEF DirectWrite
  <2> QED BY <1>1, <2>1, <2>2, UpdateFunctional DEF Functional
<1>4. CASE DrainBlocks
  <2>1. Updated(outbound, outbound')
    BY <1>4, Zenon DEF DrainBlocks, BufferOrDisconnect, Updated
  <2>2. UNCHANGED <<outboundFds, written, wire>>
    BY <1>4 DEF DrainBlocks
  <2> QED BY <1>1, <2>1, <2>2, UpdateFunctional DEF Functional
<1>5. CASE DrainChunk
  <2>1. Updated(wire, wire') /\ Updated(outbound, outbound') /\ Updated(outboundFds, outboundFds')
    BY <1>5, Zenon DEF DrainChunk, Updated
  <2>2. UNCHANGED written
    BY <1>5 DEF DrainChunk
  <2> QED BY <1>1, <2>1, <2>2, UpdateFunctional DEF Functional
<1>6. CASE DrainFails
  BY <1>1, <1>6 DEF DrainFails, Functional, socket
<1>7. CASE UNCHANGED <<buffers, wire>>
  BY <1>1, <1>7 DEF Functional, buffers
<1>8. [Next]_vars => \/ Write \/ DirectWrite \/ DrainBlocks \/ DrainChunk \/ DrainFails
                     \/ UNCHANGED <<buffers, wire>>
  BY DEF Next, vars, IoStep, Iteration, Poll, DrainDone, NotRewatched, WatchWritable,
         WritableEvent, ReaderEof,
         Reconcile, DisconnectFailedWriter, EndDispatch, EndTail, EndFanout, BeginReconcile,
         EndReconcile, PeerRead, PeerClose, socket
<1> QED BY <1>2, <1>3, <1>4, <1>5, <1>6, <1>7, <1>8

\* The end of a plain write: it fails over the cap, or its bytes join the backlog.
LEMMA BlockedWrite ==
    ASSUME TypeOK, OpInv, op.kind = "write", op.step \in {"drain", "direct"},
           BufferOrDisconnect(op.c, 1), op' = Idle,
           UNCHANGED <<outboundFds, written, wire>>
    PROVE  \A c \in Client : DataStep(c)
<1> SUFFICES ASSUME NEW c \in Client PROVE DataStep(c)
  OBVIOUS
<1> DEFINE m == Len(written[c])
<1>0. op.c \in Client /\ op # Idle
  BY DEF OpInv, TypeOK, Idle
<1>1. CASE c # op.c
  <2>1. UNCHANGED <<outbound[c], wire[c], outboundFds[c], written[c], writeFailed[c]>>
    BY <1>0, <1>1 DEF BufferOrDisconnect, TypeOK
  <2>2. Queued(c)' = Queued(c)
    BY <2>1, <1>1 DEF Queued, Idle
  <2> QED BY <2>1, <2>2 DEF DataStep, Same
<1>2. CASE c = op.c
  <2>1. /\ ~writeFailed[c] /\ written[c] # <<>>
        /\ written[c][m] = [len |-> op.len, fd |-> FALSE]
    BY <1>0, <1>2 DEF OpInv
  <2>2. m \in Nat \ {0} /\ op.len \in Lengths
    <3>1. written[c] \in Seq(Msg)
      BY DEF TypeOK, Msg
    <3>2. m \in Nat \ {0} /\ written[c][m] \in Msg
      BY <3>1, <2>1
    <3> QED BY <2>1, <3>2 DEF Msg
  <2>3. Len(Bytes(m, 1, op.len)) = op.len
    BY <2>2, WholeBytes
  <2>4. CASE OverCap(c, op.len)
    <3>1. /\ writeFailed' = [writeFailed EXCEPT ![c] = TRUE] /\ UNCHANGED outbound
      BY <1>2, <2>3, <2>4 DEF BufferOrDisconnect
    <3>2. Failing(c)
      BY <3>1 DEF Failing, TypeOK
    <3> QED BY <3>2 DEF DataStep
  <2>5. CASE ~OverCap(c, op.len)
    <3>1. /\ outbound' = [outbound EXCEPT ![c] = @ \o Bytes(m, 1, op.len)]
          /\ UNCHANGED writeFailed
      BY <1>2, <2>3, <2>5 DEF BufferOrDisconnect
    <3>2. outbound[c]' = outbound[c] \o Bytes(m, 1, op.len)
      BY <3>1 DEF TypeOK
    <3>3. Queued(c) = m - 1 /\ Queued(c)' = m
      BY <1>2, <2>2 DEF Queued, Idle
    <3>4. PlainGoes(c, m, op.len)
      BY <2>1, <2>2, <2>5, <3>1, <3>2, <3>3 DEF PlainGoes
    <3> QED BY <2>2, <3>4 DEF DataStep
  <2> QED BY <2>4, <2>5
<1> QED BY <1>1, <1>2

\* A step that leaves the output of all clients alone.
LEMMA OutputSame ==
    ASSUME UNCHANGED <<outbound, wire, outboundFds, written, writeFailed>>,
           op' = op \/ (op.kind # "write" /\ op'.kind # "write") \/ (op'.kind = op.kind /\ op'.c = op.c)
    PROVE  \A c \in Client : DataStep(c)
<1> SUFFICES ASSUME NEW c \in Client PROVE Same(c)
  BY DEF DataStep
<1>1. Queued(c)' = Queued(c)
  BY DEF Queued
<1> QED BY <1>1 DEF Same

LEMMA Writing ==
    ASSUME NEW c, CanWrite(c)
    PROVE  op = Idle /\ at \in Handlers /\ c \in live /\ ~writeFailed[c]
BY Zenon DEF CanWrite, Working, Handlers

LEMMA WriteOrBufferData ==
    ASSUME TypeOK, OpInv, NEW d \in Client, NEW len \in Lengths, WriteOrBuffer(d, len)
    PROVE  \A c \in Client : DataStep(c)
<1> SUFFICES ASSUME NEW c \in Client PROVE DataStep(c)
  OBVIOUS
<1> DEFINE e == [len |-> len, fd |-> FALSE]
<1>1. /\ op = Idle /\ op'.kind = "write" /\ op'.c = d
      /\ written' = [written EXCEPT ![d] = Append(@, e)]
      /\ UNCHANGED <<outbound, wire, outboundFds, writeFailed>>
  BY Writing DEF WriteOrBuffer, socket
<1>2. CASE c # d
  <2>1. written[c]' = written[c] /\ Queued(c)' = Queued(c)
    BY <1>1, <1>2 DEF Queued, TypeOK, Idle
  <2> QED BY <1>1, <2>1 DEF DataStep, Same
<1>3. CASE c = d
  <2>1. e \in Msg /\ written[c] \in Seq(Msg)
    BY DEF Msg, TypeOK
  <2>2. written[c]' = Append(written[c], e)
    BY <1>1, <1>3 DEF TypeOK
  <2> HIDE DEF e
  <2>3. Len(written[c]') = Len(written[c]) + 1 /\ Len(written[c]) \in Nat
    BY <2>1, <2>2
  <2>4. Queued(c)' = Len(written[c]') - 1 /\ Queued(c) = Len(written[c])
    BY <1>1, <1>3, <2>3 DEF Queued, Idle
  <2>5. Queued(c)' = Queued(c)
    BY <2>3, <2>4
  <2> QED BY <1>1, <2>1, <2>2, <2>4, <2>5 DEF DataStep, Handed
<1> QED BY <1>2, <1>3

LEMMA WriteWithFdData ==
    ASSUME TypeOK, OpInv, NEW d \in Client, NEW len \in Lengths, WriteWithFd(d, len)
    PROVE  \A c \in Client : DataStep(c)
<1> SUFFICES ASSUME NEW c \in Client PROVE DataStep(c)
  OBVIOUS
<1> DEFINE e == [len |-> len, fd |-> TRUE]
<1>1. /\ op = Idle /\ op'.kind # "write" /\ ~writeFailed[d]
      /\ written' = [written EXCEPT ![d] = Append(@, e)]
      /\ UNCHANGED wire
  BY Writing DEF WriteWithFd, socket, Idle
<1>2. CASE c # d
  <2>1. written[c]' = written[c] /\ Queued(c)' = Queued(c)
    BY <1>1, <1>2 DEF Queued, TypeOK, Idle
  <2>2. UNCHANGED <<outbound[c], outboundFds[c], writeFailed[c]>>
    BY <1>2 DEF WriteWithFd, TypeOK
  <2> QED BY <1>1, <2>1, <2>2 DEF DataStep, Same
<1>3. CASE c = d
  <2>1. e \in Msg /\ written[c] \in Seq(Msg)
    BY DEF Msg, TypeOK
  <2>2. written[c]' = Append(written[c], e)
    BY <1>1, <1>3 DEF TypeOK
  <2>3. CASE writeFailed' = [writeFailed EXCEPT ![d] = TRUE] /\ UNCHANGED <<outbound, outboundFds>>
    <3>1. Failing(c)
      BY <1>1, <1>3, <2>1, <2>2, <2>3 DEF Failing, TypeOK
    <3> QED BY <3>1 DEF DataStep
  <2>4. CASE /\ ~OverCap(d, len)
             /\ outboundFds' = [outboundFds EXCEPT ![d] =
                    Append(@, [at |-> Len(outbound[d]), len |-> len, fd |-> Message(d)])]
             /\ outbound' = [outbound EXCEPT ![d] = @ \o Bytes(Message(d), 1, len)]
             /\ UNCHANGED writeFailed
    <3>1. Message(d) = Len(written[c]) + 1
      BY <1>3 DEF Message
    <3>2. /\ outboundFds[c]' = Append(outboundFds[c], [at |-> Len(outbound[c]), len |-> len,
                                                       fd |-> Len(written[c]) + 1])
          /\ outbound[c]' = outbound[c] \o Bytes(Len(written[c]) + 1, 1, len)
      BY <1>3, <2>4, <3>1 DEF TypeOK
    <3>3. Len(written[c]') = Len(written[c]) + 1
      <4> HIDE DEF e
      <4> QED BY <2>1, <2>2
    <3>4. Queued(c) = Len(written[c]) /\ Queued(c)' = Len(written[c]) + 1
      <4>1. Len(written[c]) \in Nat
        BY <2>1
      <4> QED BY <1>1, <3>3, <4>1 DEF Queued, Idle
    <3>5. ReplyGoes(c, len)
      BY <1>1, <1>3, <2>2, <2>4, <3>2, <3>4 DEF ReplyGoes
    <3> QED BY <3>5 DEF DataStep
  <2> QED BY <2>3, <2>4 DEF WriteWithFd
<1> QED BY <1>2, <1>3

LEMMA DirectWriteData ==
    ASSUME TypeOK, OpInv, DirectWrite
    PROVE  \A c \in Client : DataStep(c)
<1>0. /\ op # Idle /\ op.kind = "write" /\ op.step = "direct" /\ op' = Idle
      /\ op.c \in Client /\ outbound[op.c] = <<>>
      /\ UNCHANGED <<outboundFds, written>>
  BY DEF DirectWrite, OpInv, Idle, TypeOK
<1>1. CASE closed[op.c] /\ writeFailed' = [writeFailed EXCEPT ![op.c] = TRUE]
           /\ UNCHANGED <<outbound, wire, noSpace>>
  <2> SUFFICES ASSUME NEW c \in Client PROVE DataStep(c)
    OBVIOUS
  <2>1. CASE c = op.c
    <3>1. Failing(c)
      BY <1>0, <1>1, <2>1 DEF Failing, TypeOK
    <3> QED BY <3>1 DEF DataStep
  <2>2. CASE c # op.c
    <3>1. Same(c)
      BY <1>0, <1>1, <2>2 DEF Same, Queued, Idle, TypeOK
    <3> QED BY <3>1 DEF DataStep
  <2> QED BY <2>1, <2>2
<1>2. CASE BufferOrDisconnect(op.c, 1) /\ UNCHANGED wire
  BY <1>0, <1>2, BlockedWrite
<1>3. ASSUME NEW n \in 1 .. op.len,
             wire' = [wire EXCEPT ![op.c] = @ \o OnWire(Bytes(Len(written[op.c]), 1, n), 0)],
             IF n = op.len THEN UNCHANGED <<outbound, writeFailed>>
             ELSE BufferOrDisconnect(op.c, n + 1)
      PROVE  \A c \in Client : DataStep(c)
  <2> SUFFICES ASSUME NEW c \in Client PROVE DataStep(c)
    OBVIOUS
  <2> DEFINE m == Len(written[op.c])
  <2>1. /\ ~writeFailed[op.c] /\ written[op.c] # <<>>
        /\ written[op.c][m] = [len |-> op.len, fd |-> FALSE]
    BY <1>0 DEF OpInv
  <2>2. m \in Nat \ {0} /\ op.len \in Lengths /\ op.len \in Nat /\ n \in Nat
    <3>1. written[op.c] \in Seq(Msg)
      BY <1>0 DEF TypeOK, Msg
    <3>2. m \in Nat \ {0} /\ written[op.c][m] \in Msg
      BY <3>1, <2>1
    <3>3. op.len \in Lengths
      BY <2>1, <3>2 DEF Msg
    <3> QED BY <3>2, <3>3, WholeBytes
  <2> HIDE DEF m
  <2>3. /\ outbound' = [outbound EXCEPT ![op.c] = Bytes(m, n + 1, op.len)]
        /\ writeFailed' = writeFailed
    <3>1. CASE n = op.len
      <4>1. Bytes(m, n + 1, op.len) \in Seq(Byte) /\ Len(Bytes(m, n + 1, op.len)) = 0
        <5>1. n + 1 \in Nat \ {0} /\ n + 1 <= op.len + 1 /\ op.len + 1 - (n + 1) = 0
          BY <3>1, <2>2
        <5>2. m \in Nat
          BY <2>2
        <5>3. Len(Bytes(m, n + 1, op.len)) = op.len + 1 - (n + 1)
              /\ Bytes(m, n + 1, op.len) \in Seq(Byte)
          BY <2>2, <5>1, <5>2, BytesType, Zenon
        <5> QED BY <5>1, <5>3
      <4>2. Bytes(m, n + 1, op.len) = outbound[op.c]
        BY <1>0, <4>1
      <4> QED BY <1>0, <1>3, <3>1, <4>2 DEF TypeOK
    <3>2. CASE n # op.len
      <4>1. BufferOrDisconnect(op.c, n + 1) /\ \A k : ~OverCap(op.c, k)
        BY <1>0, <1>3, <3>2 DEF OverCap
      <4>2. /\ outbound' = [outbound EXCEPT ![op.c] = @ \o Bytes(m, n + 1, op.len)]
            /\ writeFailed' = writeFailed
        BY <4>1 DEF BufferOrDisconnect, m
      <4>3. outbound[op.c] \o Bytes(m, n + 1, op.len) = Bytes(m, n + 1, op.len)
        <5>1. n + 1 \in Nat \ {0} /\ n + 1 <= op.len + 1 /\ m \in Nat
          BY <2>2
        <5>2. Bytes(m, n + 1, op.len) \in Seq(Byte)
          BY <2>2, <5>1, BytesType, Zenon
        <5> QED BY <1>0, <5>2
      <4> QED BY <4>2, <4>3
    <3> QED BY <3>1, <3>2
  <2>4. CASE c # op.c
    <3>1. UNCHANGED <<outbound[c], wire[c], outboundFds[c], written[c], writeFailed[c]>>
      BY <1>0, <1>3, <2>3, <2>4 DEF TypeOK
    <3>2. Queued(c)' = Queued(c)
      BY <1>0, <2>4 DEF Queued, Idle
    <3> QED BY <3>1, <3>2 DEF DataStep, Same
  <2>5. CASE c = op.c
    <3>1. /\ wire[c]' = wire[c] \o OnWire(Bytes(m, 1, n), 0)
          /\ outbound[c]' = Bytes(m, n + 1, op.len)
      BY <1>0, <1>3, <2>3, <2>5 DEF TypeOK, m
    <3>2. Queued(c) = m - 1 /\ Queued(c)' = m
      BY <1>0, <2>2, <2>5 DEF Queued, Idle, m
    <3>3. m = Len(written[c])
      BY <2>5 DEF m
    <3>4. PlainGoes(c, m, op.len)
      BY <1>0, <2>1, <2>3, <2>5, <3>1, <3>2, <3>3 DEF PlainGoes
    <3> QED BY <2>2, <3>4 DEF DataStep
  <2> QED BY <2>4, <2>5
<1> QED BY <1>1, <1>2, <1>3 DEF DirectWrite

LEMMA DrainFailsData ==
    ASSUME TypeOK, OpInv, DrainFails PROVE \A c \in Client : DataStep(c)
<1>1. /\ op # Idle /\ op.c \in Client /\ op' = Idle
      /\ writeFailed' = [writeFailed EXCEPT ![op.c] = TRUE]
      /\ UNCHANGED <<outbound, outboundFds, written, wire>>
  BY DEF DrainFails, OpInv, Idle, TypeOK, socket
<1> SUFFICES ASSUME NEW c \in Client PROVE Failing(c) \/ Same(c)
  BY DEF DataStep
<1>2. CASE c = op.c
  BY <1>1, <1>2 DEF Failing, TypeOK
<1>3. CASE c # op.c
  BY <1>1, <1>3 DEF Same, Queued, Idle, TypeOK
<1> QED BY <1>2, <1>3

LEMMA DrainChunkData ==
    ASSUME TypeOK, OpInv, DrainChunk PROVE \A c \in Client : DataStep(c)
<1> SUFFICES ASSUME NEW c \in Client PROVE DataStep(c)
  OBVIOUS
<1>1. /\ op # Idle /\ op.c \in Client /\ op' = op
      /\ UNCHANGED <<writeFailed, written>>
  BY DEF DrainChunk, OpInv, Idle, TypeOK
<1>2. PICK n \in 1 .. Len(outbound[op.c]) :
        /\ n <= ChunkEnd(op.c)
        /\ wire' = [wire EXCEPT ![op.c] =
               @ \o OnWire(SubSeq(outbound[op.c], 1, n),
                           IF FdDue(op.c) THEN outboundFds[op.c][1].fd ELSE 0)]
        /\ outbound' = [outbound EXCEPT ![op.c] = SubSeq(@, n + 1, Len(@))]
        /\ outboundFds' = [outboundFds EXCEPT ![op.c] = Sent(@, n, FdDue(op.c))]
  BY Zenon DEF DrainChunk
<1>3. Queued(c)' = Queued(c)
  BY <1>1 DEF Queued
<1>4. CASE c = op.c
  <2>1. ChunkGoes(c, n)
    BY <1>1, <1>2, <1>3, <1>4 DEF ChunkGoes, TypeOK
  <2> QED BY <1>4, <2>1 DEF DataStep
<1>5. CASE c # op.c
  <2>1. Same(c)
    BY <1>1, <1>2, <1>3, <1>5 DEF Same, TypeOK
  <2> QED BY <2>1 DEF DataStep
<1> QED BY <1>4, <1>5

\* Every step is one of these to every client.
LEMMA DataSteps ==
    ASSUME TypeOK, OpInv, [Next]_vars PROVE \A c \in Client : DataStep(c)
<1>1. CASE Write
  BY <1>1, WriteOrBufferData, WriteWithFdData DEF Write
<1>2. CASE DirectWrite
  BY <1>2, DirectWriteData
<1>3. CASE DrainFails
  BY <1>3, DrainFailsData
<1>4. CASE DrainChunk
  BY <1>4, DrainChunkData
<1>5. CASE DrainBlocks
  <2>1. CASE op.kind = "write"
    BY <1>5, <2>1, BlockedWrite DEF DrainBlocks
  <2>2. CASE op.kind # "write"
    BY <1>5, <2>2, OutputSame DEF DrainBlocks, Idle
  <2> QED BY <2>1, <2>2
<1>6. CASE DrainDone
  <2>1. UNCHANGED <<outbound, wire, outboundFds, written, writeFailed>>
    BY <1>6 DEF DrainDone, buffers, socket
  <2>2. (op'.kind = op.kind /\ op'.c = op.c) \/ (op.kind # "write" /\ op'.kind # "write")
    <3>1. op \in Op
      BY DEF TypeOK
    <3>2. \A x : [op EXCEPT !.step = x].kind = op.kind /\ [op EXCEPT !.step = x].c = op.c
      BY <3>1 DEF Op
    <3>3. op' = Idle \/ \E x : op' = [op EXCEPT !.step = x]
      BY <1>6 DEF DrainDone
    <3>4. op' = Idle => op.kind # "write"
      BY <1>6, <3>2 DEF DrainDone, Idle
    <3>5. CASE op' = Idle
      BY <3>4, <3>5 DEF Idle
    <3>6. CASE \E x : op' = [op EXCEPT !.step = x]
      <4>1. PICK x : op' = [op EXCEPT !.step = x]
        BY <3>6
      <4>2. op'.kind = op.kind /\ op'.c = op.c
        BY <3>1, <4>1 DEF Op
      <4> QED BY <4>2
    <3> QED BY <3>3, <3>5, <3>6
  <2> QED BY <2>1, <2>2, OutputSame
<1>7. CASE NotRewatched \/ WatchWritable
  <2>1. op.kind # "write" /\ op' = Idle
    BY <1>7 DEF NotRewatched, WatchWritable, OpInv, Idle
  <2>2. UNCHANGED <<buffers, wire>>
    BY <1>7 DEF NotRewatched, WatchWritable, socket
  <2> QED BY <2>1, <2>2, OutputSame DEF buffers, Idle
<1>8. CASE \E c \in Client : WritableEvent(c) \/ Reconcile(c)
  <2>1. op = Idle /\ (op' = op \/ op'.kind # "write")
    BY <1>8 DEF WritableEvent, Reconcile
  <2> QED BY <1>8, <2>1, OutputSame DEF WritableEvent, Reconcile, buffers, socket, Idle
<1>9. CASE UNCHANGED <<buffers, wire, op>>
  BY <1>9, OutputSame DEF buffers
<1>10. [Next]_vars => \/ Write \/ DirectWrite \/ DrainFails \/ DrainChunk \/ DrainBlocks \/ DrainDone
                      \/ (NotRewatched \/ WatchWritable)
                      \/ (\E c \in Client : WritableEvent(c) \/ Reconcile(c))
                      \/ UNCHANGED <<buffers, wire, op>>
  BY DEF Next, vars, IoStep, Iteration, Poll, ReaderEof, DisconnectFailedWriter, EndDispatch,
         EndTail, EndFanout, BeginReconcile, EndReconcile, PeerRead, PeerClose, socket
<1> QED BY <1>1, <1>2, <1>3, <1>4, <1>5, <1>6, <1>7, <1>8, <1>9, <1>10
-------------------------------------------------------------------------------
(***************************************************************************)
(* Byte order, descriptors and the bound, client by client                 *)
(***************************************************************************)

\* What holds of a client's bytes wr on the wire, its backlog ob and queued
\* descriptors fds, of the messages w handed over, of which q are queued whole
\* unless a write failed (f).
DataOK(wr, ob, fds, w, f, q) ==
    /\ Chain(StreamOf(wr, ob), w)
    /\ ~f => EndsWith(StreamOf(wr, ob), w, q)
    /\ FdsOK(ob, fds, w)
    /\ SentOK(wr, w)
    /\ Len(ob) > Cap => \A i, j \in 1 .. Len(ob) : ob[i].msg = ob[j].msg

DataTyped(wr, ob, fds, w) ==
    wr \in Seq(WireByte) /\ ob \in Seq(Byte) /\ fds \in Seq(Fd) /\ w \in Seq(Msg)

DataInv(c) == DataOK(wire[c], outbound[c], outboundFds[c], written[c], writeFailed[c], Queued(c))

DataTypes(c) == DataTyped(wire[c], outbound[c], outboundFds[c], written[c])

LEMMA StreamIs == \A c : Stream(c) = StreamOf(wire[c], outbound[c])
BY DEF Stream, StreamOf

\* A chunk moves bytes from the buffer to the wire.
LEMMA ChunkStream ==
    ASSUME NEW wr \in Seq(WireByte), NEW ob \in Seq(Byte), NEW n \in 1 .. Len(ob), NEW f \in Nat
    PROVE  /\ wr \o OnWire(SubSeq(ob, 1, n), f) \in Seq(WireByte)
           /\ SubSeq(ob, n + 1, Len(ob)) \in Seq(Byte)
           /\ StreamOf(wr \o OnWire(SubSeq(ob, 1, n), f), SubSeq(ob, n + 1, Len(ob))) = StreamOf(wr, ob)
<1> DEFINE h == SubSeq(ob, 1, n)
           o == SubSeq(ob, n + 1, Len(ob))
           x == OnWire(h, f)
           v == wr \o x
           s == StreamOf(wr, ob)
           t == StreamOf(v, o)
<1>1. /\ h \in Seq(Byte) /\ Len(h) = n /\ \A i \in 1 .. n : h[i] = ob[i]
      /\ o \in Seq(Byte) /\ Len(o) = Len(ob) - n /\ \A i \in 1 .. (Len(ob) - n) : o[i] = ob[n + i]
      /\ Len(ob) \in Nat /\ n \in Nat /\ Len(wr) \in Nat
  OBVIOUS
<1> HIDE DEF h, o
<1>2. x \in Seq(WireByte) /\ Len(x) = n /\ \A i \in 1 .. n : x[i].msg = ob[i].msg /\ x[i].pos = ob[i].pos
  <2>1. /\ x \in Seq(WireByte) /\ Len(x) = Len(h)
        /\ \A i \in 1 .. Len(h) : x[i] = [msg |-> h[i].msg, pos |-> h[i].pos,
                                         fd |-> IF i = 1 THEN f ELSE 0]
    BY <1>1, OnWireType
  <2> QED BY <2>1, <1>1
<1> HIDE DEF x
<1>3. /\ v \in Seq(WireByte) /\ Len(v) = Len(wr) + n
      /\ \A i \in 1 .. Len(wr) : v[i] = wr[i]
      /\ \A i \in 1 .. n : v[Len(wr) + i] = x[i]
  <2>1. x \in Seq(WireByte) /\ Len(x) = n /\ n \in Nat /\ Len(wr) \in Nat
    BY <1>1, <1>2
  <2>2. /\ v \in Seq(WireByte) /\ Len(v) = Len(wr) + Len(x)
        /\ \A i \in 1 .. Len(wr) + Len(x) : v[i] = IF i <= Len(wr) THEN wr[i] ELSE x[i - Len(wr)]
    BY <2>1, ConcatProperties
  <2> HIDE DEF v
  <2>3. \A i \in 1 .. n : /\ Len(wr) + i \in 1 .. Len(wr) + Len(x) /\ ~(Len(wr) + i <= Len(wr))
                          /\ Len(wr) + i - Len(wr) = i
    BY <2>1
  <2> QED BY <2>1, <2>2, <2>3
<1> HIDE DEF v
<1>4. /\ s \in Seq(Byte) /\ Len(s) = Len(wr) + Len(ob)
      /\ \A i \in 1 .. Len(wr) : s[i] = [msg |-> wr[i].msg, pos |-> wr[i].pos]
      /\ \A i \in 1 .. Len(ob) : s[Len(wr) + i] = ob[i]
  BY StreamType
<1>5. /\ t \in Seq(Byte) /\ Len(t) = Len(v) + Len(o)
      /\ \A i \in 1 .. Len(v) : t[i] = [msg |-> v[i].msg, pos |-> v[i].pos]
      /\ \A i \in 1 .. Len(o) : t[Len(v) + i] = o[i]
  BY <1>1, <1>3, StreamType
<1> HIDE DEF s, t
<1>6. Len(t) = Len(s)
  BY <1>1, <1>3, <1>4, <1>5
<1>7. ASSUME NEW i \in 1 .. Len(s) PROVE t[i] = s[i]
  <2>0. i \in Nat /\ i >= 1 /\ i <= Len(wr) + Len(ob)
    BY <1>1, <1>4
  <2>1. CASE i <= Len(wr)
    <3>1. i \in 1 .. Len(wr) /\ i \in 1 .. Len(v)
      BY <2>0, <2>1, <1>1, <1>3
    <3> QED BY <3>1, <1>3, <1>4, <1>5
  <2>2. CASE Len(wr) < i /\ i <= Len(wr) + n
    <3> DEFINE k == i - Len(wr)
    <3>1. k \in 1 .. n /\ k \in 1 .. Len(ob) /\ Len(wr) + k = i /\ i \in 1 .. Len(v)
      BY <2>0, <2>2, <1>1, <1>3
    <3> HIDE DEF k
    <3>2. s[i] = ob[k]
      BY <3>1, <1>4
    <3>3. v[i] = x[k]
      BY <3>1, <1>3
    <3>4. t[i] = [msg |-> ob[k].msg, pos |-> ob[k].pos]
      BY <3>1, <3>3, <1>2, <1>5
    <3>5. ob[k] \in Byte
      BY <3>1
    <3> QED BY <3>2, <3>4, <3>5 DEF Byte
  <2>3. CASE Len(wr) + n < i
    <3> DEFINE k == i - (Len(wr) + n)
    <3>1. k \in 1 .. Len(o) /\ k \in 1 .. (Len(ob) - n) /\ Len(v) + k = i
          /\ n + k \in 1 .. Len(ob) /\ Len(wr) + (n + k) = i
      <4> DEFINE a == Len(wr)
                 b == Len(ob)
      <4>1. a \in Nat /\ b \in Nat /\ n \in Nat /\ i \in Nat /\ i <= a + b /\ a + n < i
        BY <2>0, <2>3, <1>1
      <4>2. Len(o) = b - n /\ Len(v) = a + n
        BY <1>1, <1>3
      <4> HIDE DEF a, b
      <4>3. /\ i - (a + n) \in 1 .. (b - n) /\ (a + n) + (i - (a + n)) = i
            /\ n + (i - (a + n)) \in 1 .. b /\ a + (n + (i - (a + n))) = i
        BY <4>1
      <4> QED BY <4>2, <4>3 DEF a, b
    <3> HIDE DEF k
    <3>2. t[i] = o[k] /\ o[k] = ob[n + k]
      BY <3>1, <1>1, <1>5
    <3>3. s[i] = ob[n + k]
      BY <3>1, <1>4
    <3> QED BY <3>2, <3>3
  <2> QED BY <2>0, <2>1, <2>2, <2>3, <1>1
<1>8. t = s
  BY <1>4, <1>5, <1>6, <1>7, SeqEqual
<1> QED BY <1>1, <1>3, <1>8 DEF t, s, v, x, h, o

\* Message m goes behind the backlog or, if there is none, in part to the wire.
Joined(wr, ob, v, o, m, len) ==
    \/ v = wr /\ o = ob \o Bytes(m, 1, len)
    \/ /\ ob = <<>>
       /\ \E n \in 1 .. len : v = wr \o OnWire(Bytes(m, 1, n), 0) /\ o = Bytes(m, n + 1, len)

\* t is s and the bytes of message m.
ExtendedBy(s, t, m, len) ==
    /\ Len(t) = Len(s) + len
    /\ \A i \in 1 .. Len(s) : t[i] = s[i]
    /\ \A k \in 1 .. len : t[Len(s) + k] = [msg |-> m, pos |-> k]

\* Bytes of one message, of which n go to the wire, continue the stream.
LEMMA StreamContinues ==
    ASSUME NEW wr \in Seq(WireByte), NEW ob \in Seq(Byte), NEW v \in Seq(WireByte), NEW o \in Seq(Byte),
           NEW m \in Nat, NEW len \in Nat, Joined(wr, ob, v, o, m, len)
    PROVE  ExtendedBy(StreamOf(wr, ob), StreamOf(v, o), m, len)
<1> DEFINE s == StreamOf(wr, ob)
           t == StreamOf(v, o)
           a == Len(wr)
           b == Len(ob)
<1>0. a \in Nat /\ b \in Nat
  OBVIOUS
<1>1. /\ s \in Seq(Byte) /\ Len(s) = a + b
      /\ \A i \in 1 .. a : s[i] = [msg |-> wr[i].msg, pos |-> wr[i].pos]
      /\ \A i \in 1 .. b : s[a + i] = ob[i]
  BY StreamType
<1>2. /\ t \in Seq(Byte) /\ Len(t) = Len(v) + Len(o)
      /\ \A i \in 1 .. Len(v) : t[i] = [msg |-> v[i].msg, pos |-> v[i].pos]
      /\ \A i \in 1 .. Len(o) : t[Len(v) + i] = o[i]
  BY StreamType
<1>3. /\ Bytes(m, 1, len) \in Seq(Byte) /\ Len(Bytes(m, 1, len)) = len
      /\ \A i \in 1 .. len : Bytes(m, 1, len)[i] = [msg |-> m, pos |-> i]
  BY PrefixBytes
<1>4. CASE v = wr /\ o = ob \o Bytes(m, 1, len)
  <2> DEFINE x == Bytes(m, 1, len)
  <2> HIDE DEF x, s, t
  <2>1. x \in Seq(Byte) /\ Len(x) = len /\ o = ob \o x /\ Len(v) = a
    BY <1>3, <1>4 DEF x
  <2>2. /\ Len(o) = b + len
        /\ \A i \in 1 .. b : o[i] = ob[i]
        /\ \A i \in 1 .. len : o[b + i] = x[i]
    <3>1. /\ Len(ob \o x) = Len(ob) + Len(x)
          /\ \A i \in 1 .. Len(ob) : (ob \o x)[i] = ob[i]
          /\ \A i \in 1 .. Len(x) : (ob \o x)[Len(ob) + i] = x[i]
      <4>1. x \in Seq(Byte)
        BY <2>1
      <4> HIDE DEF a, b
      <4> QED BY <4>1, ConcatParts
    <3> QED BY <2>1, <3>1
  <2> HIDE DEF a, b
  <2>3. Len(t) = Len(s) + len
    BY <1>0, <1>1, <1>2, <2>1, <2>2
  <2>4. ASSUME NEW i \in 1 .. Len(s) PROVE t[i] = s[i]
    <3>1. CASE i <= a
      <4>1. i \in 1 .. a
        BY <3>1, <1>0
      <4> QED BY <4>1, <1>1, <1>2, <1>4, <2>1
    <3>2. CASE i > a
      <4> DEFINE k == i - a
      <4>0. i \in 1 .. a + b
        BY <1>1
      <4>1. k \in 1 .. b /\ k \in 1 .. (b + len) /\ a + k = i
        BY <3>2, <4>0, <1>0
      <4> HIDE DEF k
      <4>2. t[i] = o[k] /\ o[k] = ob[k] /\ s[i] = ob[k]
        BY <4>1, <1>1, <1>2, <2>1, <2>2
      <4> QED BY <4>2
    <3> QED BY <3>1, <3>2, <1>0
  <2>5. ASSUME NEW k \in 1 .. len PROVE t[Len(s) + k] = [msg |-> m, pos |-> k]
    <3>0. b + k \in 1 .. (b + len) /\ (a + b) + k = a + (b + k)
      BY <1>0
    <3>1. b + k \in 1 .. Len(o) /\ Len(s) + k = a + (b + k)
      BY <3>0, <1>1, <2>2
    <3>2. t[Len(s) + k] = o[b + k]
      BY <3>1, <1>2, <2>1
    <3>3. o[b + k] = x[k]
      BY <2>2
    <3> QED BY <3>2, <3>3, <1>3 DEF x
  <2> QED BY <2>3, <2>4, <2>5 DEF s, t, ExtendedBy
<1>5. CASE ob = <<>> /\ \E n \in 1 .. len : v = wr \o OnWire(Bytes(m, 1, n), 0)
                                          /\ o = Bytes(m, n + 1, len)
  <2>1. PICK n \in 1 .. len : v = wr \o OnWire(Bytes(m, 1, n), 0) /\ o = Bytes(m, n + 1, len)
    BY <1>5
  <2> DEFINE x == OnWire(Bytes(m, 1, n), 0)
  <2>2. x \in Seq(WireByte) /\ Len(x) = n /\ \A i \in 1 .. n : x[i].msg = m /\ x[i].pos = i
    <3>0. n \in Nat
      OBVIOUS
    <3>1. /\ Bytes(m, 1, n) \in Seq(Byte) /\ Len(Bytes(m, 1, n)) = n
          /\ \A i \in 1 .. n : Bytes(m, 1, n)[i] = [msg |-> m, pos |-> i]
      BY <3>0, PrefixBytes
    <3>2. /\ x \in Seq(WireByte) /\ Len(x) = n
          /\ \A i \in 1 .. n : x[i] = [msg |-> Bytes(m, 1, n)[i].msg, pos |-> Bytes(m, 1, n)[i].pos,
                                      fd |-> IF i = 1 THEN 0 ELSE 0]
      BY <3>1, OnWireType
    <3> HIDE DEF x
    <3>3. ASSUME NEW i \in 1 .. n
          PROVE  x[i].msg = m /\ x[i].pos = i
      <4>1. Bytes(m, 1, n)[i] = [msg |-> m, pos |-> i]
        BY <3>1
      <4>2. Bytes(m, 1, n)[i].msg = m /\ Bytes(m, 1, n)[i].pos = i
        BY <4>1
      <4>3. x[i] = [msg |-> Bytes(m, 1, n)[i].msg, pos |-> Bytes(m, 1, n)[i].pos,
                    fd |-> IF i = 1 THEN 0 ELSE 0]
        BY <3>2
      <4> QED BY <4>2, <4>3
    <3>4. x \in Seq(WireByte) /\ Len(x) = n
      BY <3>2
    <3> QED BY <3>3, <3>4
  <2>3. /\ Len(o) = len - n
        /\ \A i \in 1 .. (len - n) : o[i] = [msg |-> m, pos |-> n + i]
    BY <2>1, SuffixBytes
  <2> HIDE DEF x, s, t
  <2>4. /\ Len(v) = a + n
        /\ \A i \in 1 .. a : v[i] = wr[i]
        /\ \A i \in 1 .. n : v[a + i] = x[i]
    <3>1. x \in Seq(WireByte) /\ Len(x) = n /\ v = wr \o x
      BY <2>1, <2>2 DEF x
    <3>2. /\ Len(wr \o x) = Len(wr) + Len(x)
          /\ \A i \in 1 .. Len(wr) : (wr \o x)[i] = wr[i]
          /\ \A i \in 1 .. Len(x) : (wr \o x)[Len(wr) + i] = x[i]
      <4>1. x \in Seq(WireByte)
        BY <3>1
      <4> HIDE DEF a, b
      <4> QED BY <4>1, ConcatParts
    <3> QED BY <3>1, <3>2
  <2>5. b = 0 /\ n \in Nat /\ len \in Nat /\ n <= len
    BY <1>5
  <2> HIDE DEF a, b
  <2>6. Len(t) = Len(s) + len /\ Len(s) = a
    BY <1>0, <1>1, <1>2, <2>3, <2>4, <2>5
  <2>7. ASSUME NEW i \in 1 .. Len(s) PROVE t[i] = s[i]
    <3>1. i \in 1 .. a /\ i \in 1 .. Len(v)
      BY <1>0, <2>4, <2>5, <2>6
    <3>2. t[i] = [msg |-> v[i].msg, pos |-> v[i].pos]
      BY <3>1, <1>2
    <3>3. s[i] = [msg |-> wr[i].msg, pos |-> wr[i].pos]
      BY <3>1, <1>1
    <3>4. v[i] = wr[i]
      BY <3>1, <2>4
    <3> QED BY <3>2, <3>3, <3>4
  <2>8. ASSUME NEW k \in 1 .. len PROVE t[Len(s) + k] = [msg |-> m, pos |-> k]
    <3>1. CASE k <= n
      <4>1. a + k \in 1 .. Len(v) /\ k \in 1 .. n
        BY <3>1, <1>0, <2>4, <2>5
      <4>2. v[a + k] = x[k] /\ x[k].msg = m /\ x[k].pos = k
        BY <4>1, <2>2, <2>4
      <4>3. t[a + k] = [msg |-> v[a + k].msg, pos |-> v[a + k].pos]
        BY <4>1, <1>2
      <4> QED BY <4>2, <4>3, <2>6
    <3>2. CASE k > n
      <4> DEFINE j == k - n
      <4>1. j \in 1 .. (len - n) /\ j \in 1 .. Len(o) /\ n + j = k /\ Len(s) + k = Len(v) + j
        BY <3>2, <1>0, <2>3, <2>4, <2>5, <2>6
      <4> HIDE DEF j
      <4> QED BY <4>1, <1>2, <2>3
    <3> QED BY <3>1, <3>2, <2>5
  <2> QED BY <2>6, <2>7, <2>8 DEF s, t, ExtendedBy
<1> QED BY <1>4, <1>5 DEF Joined

\* Joining a backlog within the cap, or an empty one.
LEMMA JoinBounded ==
    ASSUME NEW ob \in Seq(Byte), NEW x \in Seq(Byte), NEW m,
           ob # <<>> => Len(ob) + Len(x) <= Cap,
           \A i \in 1 .. Len(x) : x[i].msg = m
    PROVE  Len(ob \o x) > Cap => \A i, j \in 1 .. Len(ob \o x) : (ob \o x)[i].msg = (ob \o x)[j].msg
<1>1. CASE ob = <<>>
  <2>1. ob \o x = x
    BY <1>1
  <2> QED BY <2>1
<1>2. CASE ob # <<>>
  <2>1. Len(ob \o x) = Len(ob) + Len(x) /\ Len(ob) \in Nat /\ Len(x) \in Nat /\ Cap \in Nat
    BY OutputAssumption
  <2> QED BY <1>2, <2>1
<1> QED BY <1>1, <1>2

\* A message handed over and not queued.
LEMMA HandedOK ==
    ASSUME NEW wr, NEW ob, NEW fds, NEW w, DataTyped(wr, ob, fds, w), NEW f \in BOOLEAN, NEW q \in 0 .. Len(w),
           DataOK(wr, ob, fds, w, f, q), NEW m \in Msg
    PROVE  DataTyped(wr, ob, fds, Append(w, m)) /\ DataOK(wr, ob, fds, Append(w, m), f, q)
<1> USE DEF DataTyped
<1>1. StreamOf(wr, ob) \in Seq(Byte)
  BY StreamType
<1>2. /\ Chain(StreamOf(wr, ob), Append(w, m))
      /\ EndsWith(StreamOf(wr, ob), w, q) => EndsWith(StreamOf(wr, ob), Append(w, m), q)
  BY <1>1, ChainKept DEF DataOK
<1>3. FdsOK(ob, fds, Append(w, m)) /\ SentOK(wr, Append(w, m))
  BY FdsKept DEF DataOK
<1>4. Append(w, m) \in Seq(Msg)
  OBVIOUS
<1> QED BY <1>2, <1>3, <1>4 DEF DataOK

\* n bytes go, with the front descriptor if it is due.
ChunkTaken(wr, ob, fds, n, due, v, o, g) ==
    /\ due <=> (fds # <<>> /\ fds[1].at = 0)
    /\ fds # <<>> => n <= IF due THEN fds[1].len ELSE fds[1].at
    /\ v = wr \o OnWire(SubSeq(ob, 1, n), IF due THEN fds[1].fd ELSE 0)
    /\ o = SubSeq(ob, n + 1, Len(ob))
    /\ g = Sent(fds, n, due)

\* A chunk of the backlog is sent.
LEMMA ChunkOK ==
    ASSUME NEW wr, NEW ob, NEW fds, NEW w, DataTyped(wr, ob, fds, w), NEW f \in BOOLEAN, NEW q,
           DataOK(wr, ob, fds, w, f, q),
           NEW n \in 1 .. Len(ob), NEW due \in BOOLEAN,
           NEW v, NEW o, NEW g, ChunkTaken(wr, ob, fds, n, due, v, o, g)
    PROVE  DataTyped(v, o, g, w) /\ DataOK(v, o, g, w, f, q)
<1> USE DEF ChunkTaken
<1>0. wr \in Seq(WireByte) /\ ob \in Seq(Byte) /\ fds \in Seq(Fd) /\ w \in Seq(Msg)
  BY DEF DataTyped
<1>1. g \in Seq(Fd) /\ FdsOK(o, g, w) /\ SentOK(v, w)
  BY <1>0, ChunkSent DEF DataOK
<1> DEFINE d == IF due THEN fds[1].fd ELSE 0
<1>2. d \in Nat
  <2>1. CASE due
    <3>1. fds # <<>>
      BY <2>1
    <3>2. fds[1] \in Fd
      BY <1>0, <3>1
    <3> QED BY <2>1, <3>2 DEF Fd
  <2> QED BY <2>1
<1> HIDE DEF d
<1>3. v = wr \o OnWire(SubSeq(ob, 1, n), d)
  BY DEF d
<1>4. /\ wr \o OnWire(SubSeq(ob, 1, n), d) \in Seq(WireByte)
      /\ SubSeq(ob, n + 1, Len(ob)) \in Seq(Byte)
      /\ StreamOf(wr \o OnWire(SubSeq(ob, 1, n), d), SubSeq(ob, n + 1, Len(ob))) = StreamOf(wr, ob)
  BY <1>0, <1>2, ChunkStream
<1>5. v \in Seq(WireByte) /\ o \in Seq(Byte) /\ StreamOf(v, o) = StreamOf(wr, ob)
  BY <1>3, <1>4
<1>6. Len(o) > Cap => \A i, j \in 1 .. Len(o) : o[i].msg = o[j].msg
  <2>1. /\ Len(o) = Len(ob) - n /\ Len(ob) \in Nat /\ n \in Nat /\ Cap \in Nat
        /\ \A i \in 1 .. Len(o) : o[i] = ob[n + i] /\ n + i \in 1 .. Len(ob)
    BY <1>0, OutputAssumption
  <2>2. Len(ob) > Cap => \A i, j \in 1 .. Len(ob) : ob[i].msg = ob[j].msg
    BY DEF DataOK
  <2> QED BY <2>1, <2>2
<1> QED BY <1>0, <1>1, <1>5, <1>6 DEF DataTyped, DataOK

\* A plain message joins the backlog, or goes in part to the socket.
LEMMA PlainOK ==
    ASSUME NEW wr, NEW ob, NEW fds, NEW w, DataTyped(wr, ob, fds, w), NEW len \in Lengths,
           w # <<>>, w[Len(w)] = [len |-> len, fd |-> FALSE],
           DataOK(wr, ob, fds, w, FALSE, Len(w) - 1),
           NEW v, NEW o,
           \/ /\ ~(ob # <<>> /\ Len(ob) + len > Cap)
              /\ v = wr /\ o = ob \o Bytes(Len(w), 1, len)
           \/ /\ ob = <<>>
              /\ \E n \in 1 .. len : v = wr \o OnWire(Bytes(Len(w), 1, n), 0)
                                     /\ o = Bytes(Len(w), n + 1, len)
    PROVE  DataTyped(v, o, fds, w) /\ DataOK(v, o, fds, w, FALSE, Len(w))
<1>0. wr \in Seq(WireByte) /\ ob \in Seq(Byte) /\ fds \in Seq(Fd) /\ w \in Seq(Msg)
  BY DEF DataTyped
<1> DEFINE m == Len(w)
<1>1. m \in Nat /\ m \in 1 .. Len(w) /\ len \in Nat /\ ~w[m].fd /\ w[m].len = len
  BY <1>0, WholeBytes
<1> HIDE DEF m
<1>2. FdsOK(ob, fds, w) /\ SentOK(wr, w)
  BY DEF DataOK
<1>3. /\ v \in Seq(WireByte) /\ o \in Seq(Byte) /\ FdsOK(o, fds, w) /\ SentOK(v, w)
      /\ Len(o) > Cap => \A i, j \in 1 .. Len(o) : o[i].msg = o[j].msg
  <2>1. CASE /\ ~(ob # <<>> /\ Len(ob) + len > Cap)
             /\ v = wr /\ o = ob \o Bytes(Len(w), 1, len)
    <3> DEFINE x == Bytes(m, 1, len)
    <3>1. x \in Seq(Byte) /\ Len(x) = len /\ \A i \in 1 .. Len(x) : x[i].msg = m
      <4>1. x \in Seq(Byte) /\ Len(x) = len /\ \A i \in 1 .. len : x[i] = [msg |-> m, pos |-> i]
        BY <1>1, WholeBytes
      <4> HIDE DEF x
      <4>2. ASSUME NEW i \in 1 .. Len(x) PROVE x[i].msg = m
        <5>1. x[i] = [msg |-> m, pos |-> i]
          BY <4>1
        <5> QED BY <5>1
      <4> QED BY <4>1, <4>2
    <3>2. o = ob \o x
      BY <2>1 DEF m
    <3> HIDE DEF x
    <3>3. o \in Seq(Byte) /\ FdsOK(o, fds, w)
      <4>1. x \in Seq(Byte) /\ \A i \in 1 .. Len(x) : x[i].msg = m
        BY <3>1
      <4>2. FdsOK(ob \o x, fds, w)
        BY <1>0, <1>1, <1>2, <4>1, PlainQueued, Zenon
      <4> QED BY <4>1, <4>2, <3>2, <1>0
    <3>4. ob # <<>> => Len(ob) + Len(x) <= Cap
      BY <2>1, <3>1, <1>0, <1>1, OutputAssumption
    <3>5. Len(o) > Cap => \A i, j \in 1 .. Len(o) : o[i].msg = o[j].msg
      <4>1. x \in Seq(Byte) /\ (\A i \in 1 .. Len(x) : x[i].msg = m)
            /\ (ob # <<>> => Len(ob) + Len(x) <= Cap)
        BY <3>1, <3>4
      <4>2. Len(ob \o x) > Cap => \A i, j \in 1 .. Len(ob \o x) : (ob \o x)[i].msg = (ob \o x)[j].msg
        BY <4>1, <1>0, JoinBounded, Zenon
      <4> QED BY <4>2, <3>2
    <3> QED BY <2>1, <3>3, <3>5, <1>0, <1>2
  <2>2. CASE /\ ob = <<>>
             /\ \E n \in 1 .. len : v = wr \o OnWire(Bytes(Len(w), 1, n), 0)
                                    /\ o = Bytes(Len(w), n + 1, len)
    <3>1. PICK n \in 1 .. len : v = wr \o OnWire(Bytes(m, 1, n), 0) /\ o = Bytes(m, n + 1, len)
      BY <2>2 DEF m
    <3>2. o \in Seq(Byte) /\ \A i \in 1 .. Len(o) : o[i].msg = m
      <4>1. /\ o \in Seq(Byte) /\ Len(o) = len - n
            /\ \A i \in 1 .. (len - n) : o[i] = [msg |-> m, pos |-> n + i]
        BY <3>1, <1>1, SuffixBytes
      <4>2. ASSUME NEW i \in 1 .. Len(o) PROVE o[i].msg = m
        <5>1. o[i] = [msg |-> m, pos |-> n + i]
          BY <4>1
        <5> QED BY <5>1
      <4> QED BY <4>1, <4>2
    <3>3. ob \o o = o
      BY <2>2, <3>2
    <3>4. FdsOK(o, fds, w)
      BY <1>0, <1>1, <1>2, <3>2, <3>3, PlainQueued
    <3> DEFINE x == OnWire(Bytes(m, 1, n), 0)
    <3>5. x \in Seq(WireByte) /\ \A i \in 1 .. Len(x) : x[i].msg = m /\ x[i].fd = 0
      <4>0. n \in Nat
        BY <1>1
      <4>1. /\ Bytes(m, 1, n) \in Seq(Byte) /\ Len(Bytes(m, 1, n)) = n
            /\ \A i \in 1 .. n : Bytes(m, 1, n)[i] = [msg |-> m, pos |-> i]
        BY <1>1, <4>0, PrefixBytes
      <4>2. /\ x \in Seq(WireByte) /\ Len(x) = n
            /\ \A i \in 1 .. n : x[i] = [msg |-> Bytes(m, 1, n)[i].msg, pos |-> Bytes(m, 1, n)[i].pos,
                                        fd |-> IF i = 1 THEN 0 ELSE 0]
        BY <4>1, OnWireType
      <4> HIDE DEF x
      <4>3. ASSUME NEW i \in 1 .. n PROVE x[i].msg = m /\ x[i].fd = 0
        <5>0. Bytes(m, 1, n)[i] = [msg |-> m, pos |-> i]
          BY <4>1
        <5>1. Bytes(m, 1, n)[i].msg = m
          BY <5>0
        <5>2. x[i] = [msg |-> Bytes(m, 1, n)[i].msg, pos |-> Bytes(m, 1, n)[i].pos,
                      fd |-> IF i = 1 THEN 0 ELSE 0]
          BY <4>2
        <5> QED BY <5>1, <5>2
      <4> QED BY <4>2, <4>3
    <3> HIDE DEF x
    <3>6. v = wr \o x
      BY <3>1 DEF x
    <3>7. v \in Seq(WireByte) /\ SentOK(v, w)
      <4>1. /\ v \in Seq(WireByte) /\ Len(v) = Len(wr) + Len(x) /\ Len(wr) \in Nat /\ Len(x) \in Nat
            /\ \A i \in 1 .. Len(wr) : v[i] = wr[i]
            /\ \A i \in 1 .. Len(x) : v[Len(wr) + i] = x[i]
        BY <3>5, <3>6, <1>0, ConcatParts
      <4>2. ASSUME NEW i \in 1 .. Len(v)
            PROVE  /\ v[i].msg \in 1 .. Len(w)
                   /\ v[i].fd = IF v[i].pos = 1 /\ w[v[i].msg].fd THEN v[i].msg ELSE 0
        <5>1. CASE i <= Len(wr)
          <6>1. i \in 1 .. Len(wr) /\ v[i] = wr[i]
            BY <5>1, <4>1
          <6> QED BY <6>1, <1>2 DEF SentOK
        <5>2. CASE i > Len(wr)
          <6> DEFINE k == i - Len(wr)
          <6>1. k \in 1 .. Len(x) /\ Len(wr) + k = i
            BY <5>2, <4>1
          <6> HIDE DEF k
          <6>2. v[i].msg = m /\ v[i].fd = 0
            BY <6>1, <4>1, <3>5
          <6> QED BY <6>2, <1>1
        <5> QED BY <5>1, <5>2, <4>1
      <4> QED BY <4>1, <4>2 DEF SentOK
    <3> QED BY <3>2, <3>4, <3>7
  <2> QED BY <2>1, <2>2
<1>4. Chain(StreamOf(v, o), w) /\ EndsWith(StreamOf(v, o), w, Len(w))
  <2>1. StreamOf(v, o) \in Seq(Byte) /\ StreamOf(wr, ob) \in Seq(Byte)
    BY <1>0, <1>3, StreamType
  <2>2. Joined(wr, ob, v, o, m, len)
    BY DEF m, Joined
  <2>3. ExtendedBy(StreamOf(wr, ob), StreamOf(v, o), m, len)
    <3>1. v \in Seq(WireByte) /\ o \in Seq(Byte) /\ m \in Nat /\ len \in Nat
      BY <1>1, <1>3
    <3>2. wr \in Seq(WireByte) /\ ob \in Seq(Byte)
      BY <1>0
    <3> QED BY <3>1, <3>2, <2>2, StreamContinues, Zenon
  <2>4. Chain(StreamOf(wr, ob), w) /\ EndsWith(StreamOf(wr, ob), w, Len(w) - 1)
    BY DEF DataOK
  <2>5. w[Len(w)].len = len /\ m = Len(w)
    BY <1>1 DEF m
  <2> QED BY <1>0, <2>1, <2>3, <2>4, <2>5, ChainExtended DEF ExtendedBy
<1> QED BY <1>0, <1>3, <1>4 DEF DataTyped, DataOK

\* A reply is queued with its descriptor.
LEMMA ReplyOK ==
    ASSUME NEW wr, NEW ob, NEW fds, NEW w, DataTyped(wr, ob, fds, w), NEW len \in Lengths,
           ~(ob # <<>> /\ Len(ob) + len > Cap),
           DataOK(wr, ob, fds, w, FALSE, Len(w)),
           NEW o, o = ob \o Bytes(Len(w) + 1, 1, len),
           NEW g, g = Append(fds, [at |-> Len(ob), len |-> len, fd |-> Len(w) + 1]),
           NEW z, z = Append(w, [len |-> len, fd |-> TRUE])
    PROVE  DataTyped(wr, o, g, z) /\ DataOK(wr, o, g, z, FALSE, Len(w) + 1)
<1>0. wr \in Seq(WireByte) /\ ob \in Seq(Byte) /\ fds \in Seq(Fd) /\ w \in Seq(Msg)
  BY DEF DataTyped
<1>1. [len |-> len, fd |-> TRUE] \in Msg
  BY DEF Msg
<1>2. DataTyped(wr, ob, fds, z) /\ DataOK(wr, ob, fds, z, FALSE, Len(w))
  <2>1. Len(w) \in 0 .. Len(w) /\ FALSE \in BOOLEAN
    BY <1>0
  <2> QED BY <1>1, <2>1, HandedOK
<1> DEFINE m == Len(w) + 1
<1>3. /\ z \in Seq(Msg) /\ Len(z) = m /\ z # <<>> /\ z[m] = [len |-> len, fd |-> TRUE]
      /\ m \in Nat /\ m \in 1 .. Len(z) /\ Len(z) - 1 = Len(w) /\ len \in Nat /\ Len(ob) \in Nat
  <2>1. Len(w) \in Nat /\ Len(ob) \in Nat /\ len \in Nat
    BY <1>0, OutputAssumption
  <2>2. z \in Seq(Msg) /\ Len(z) = Len(w) + 1 /\ z[Len(w) + 1] = [len |-> len, fd |-> TRUE]
    BY <1>0, <1>1
  <2> QED BY <2>1, <2>2
<1>4. o = ob \o Bytes(m, 1, len)
  OBVIOUS
<1>5. g = Append(fds, [at |-> Len(ob), len |-> len, fd |-> m])
  OBVIOUS
<1> HIDE DEF m
<1> DEFINE x == Bytes(m, 1, len)
<1>6. /\ x \in Seq(Byte) /\ Len(x) = len
      /\ \A i \in 1 .. len : x[i] = [msg |-> m, pos |-> i]
  BY <1>3, WholeBytes
<1>7. o = ob \o x
  BY <1>4
<1> HIDE DEF x
<1>8. o \in Seq(Byte) /\ g \in Seq(Fd)
  <2>1. [at |-> Len(ob), len |-> len, fd |-> m] \in Fd
    BY <1>3 DEF Fd
  <2>2. g \in Seq(Fd)
    BY <1>0, <1>5, <2>1
  <2>3. x \in Seq(Byte)
    BY <1>6
  <2>4. ob \o x \in Seq(Byte)
    BY <1>0, <2>3
  <2> QED BY <1>7, <2>2, <2>4
<1>9. FdsOK(o, g, z)
  <2>1. FdsOK(ob, fds, z)
    BY <1>2 DEF DataOK
  <2>2. m \in 1 .. Len(z) /\ z[m].fd /\ z \in Seq(Msg)
    BY <1>3
  <2>3. x \in Seq(Byte) /\ \A i \in 1 .. Len(x) : x[i] = [msg |-> m, pos |-> i]
    BY <1>6
  <2>4. FdsOK(ob \o x, Append(fds, [at |-> Len(ob), len |-> Len(x), fd |-> m]), z)
    BY <1>0, <2>1, <2>2, <2>3, ReplyQueued, Zenon
  <2> QED BY <2>4, <1>5, <1>6, <1>7
<1>10. Len(o) > Cap => \A i, j \in 1 .. Len(o) : o[i].msg = o[j].msg
  <2>1. ob # <<>> => Len(ob) + Len(x) <= Cap
    BY <1>3, <1>6, OutputAssumption
  <2>2. ASSUME NEW i \in 1 .. Len(x) PROVE x[i].msg = m
    <3>1. x[i] = [msg |-> m, pos |-> i]
      BY <1>6
    <3> QED BY <3>1
  <2>3. x \in Seq(Byte) /\ \A i \in 1 .. Len(x) : x[i].msg = m
    BY <1>6, <2>2
  <2>4. Len(ob \o x) > Cap => \A i, j \in 1 .. Len(ob \o x) : (ob \o x)[i].msg = (ob \o x)[j].msg
    BY <1>0, <2>1, <2>3, JoinBounded, Zenon
  <2> QED BY <2>4, <1>7
<1>11. Chain(StreamOf(wr, o), z) /\ EndsWith(StreamOf(wr, o), z, Len(z))
  <2>1. StreamOf(wr, o) \in Seq(Byte) /\ StreamOf(wr, ob) \in Seq(Byte)
    BY <1>0, <1>8, StreamType
  <2>2. Joined(wr, ob, wr, o, m, len)
    BY <1>4 DEF Joined
  <2>3. ExtendedBy(StreamOf(wr, ob), StreamOf(wr, o), m, len)
    <3>1. wr \in Seq(WireByte) /\ ob \in Seq(Byte) /\ o \in Seq(Byte) /\ m \in Nat /\ len \in Nat
      BY <1>0, <1>3, <1>8
    <3> QED BY <3>1, <2>2, StreamContinues, Zenon
  <2>4. Chain(StreamOf(wr, ob), z) /\ EndsWith(StreamOf(wr, ob), z, Len(z) - 1)
    BY <1>2, <1>3 DEF DataOK
  <2>5. z[Len(z)].len = len /\ m = Len(z) /\ z # <<>> /\ z \in Seq(Msg)
    BY <1>3
  <2> DEFINE s == StreamOf(wr, ob)
             t == StreamOf(wr, o)
  <2>6. /\ Len(t) = Len(s) + z[Len(z)].len
        /\ \A i \in 1 .. Len(s) : t[i] = s[i]
        /\ \A k \in 1 .. z[Len(z)].len : t[Len(s) + k] = [msg |-> Len(z), pos |-> k]
    BY <2>3, <2>5 DEF ExtendedBy
  <2> HIDE DEF s, t
  <2>7. Chain(t, z) /\ EndsWith(t, z, Len(z))
    <3>1. s \in Seq(Byte) /\ t \in Seq(Byte) /\ Chain(s, z) /\ EndsWith(s, z, Len(z) - 1)
      BY <2>1, <2>4 DEF s, t
    <3> QED BY <2>5, <2>6, <3>1, ChainExtended, Zenon
  <2> QED BY <2>7 DEF t
<1>12. SentOK(wr, z)
  BY <1>2 DEF DataOK
<1> QED BY <1>0, <1>3, <1>8, <1>9, <1>10, <1>11, <1>12 DEF DataTyped, DataOK, m

\* Every step keeps what holds of a client's output.
LEMMA DataPreserved ==
    ASSUME NEW c \in Client, DataTypes(c), DataInv(c), DataStep(c),
           writeFailed[c] \in BOOLEAN
    PROVE  DataTypes(c)' /\ DataInv(c)'
<1> DEFINE wr == wire[c]
           ob == outbound[c]
           fds == outboundFds[c]
           w == written[c]
           f == writeFailed[c]
           q == Queued(c)
<1>0. DataTyped(wr, ob, fds, w) /\ DataOK(wr, ob, fds, w, f, q)
  BY DEF DataTypes, DataInv
<1> SUFFICES DataTyped(wr', ob', fds', w') /\ DataOK(wr', ob', fds', w', f', q')
  BY DEF DataTypes, DataInv
<1>t. /\ wr \in Seq(WireByte) /\ ob \in Seq(Byte) /\ fds \in Seq(Fd) /\ w \in Seq(Msg)
      /\ f \in BOOLEAN /\ Len(w) \in Nat /\ Len(w) \in 0 .. Len(w)
  BY <1>0 DEF DataTyped
<1>1. CASE Same(c)
  <2>1. wr' = wr /\ ob' = ob /\ fds' = fds /\ w' = w /\ f' = f /\ q' = q
    BY <1>1 DEF Same
  <2> QED BY <1>0, <2>1
<1>2. CASE Failing(c)
  <2>1. wr' = wr /\ ob' = ob /\ fds' = fds /\ f' = TRUE
    BY <1>2 DEF Failing
  <2> HIDE DEF wr, ob, fds, f, q
  <2>2. \A y : DataOK(wr, ob, fds, w, TRUE, y)
    BY <1>0 DEF DataOK
  <2>3. CASE w' = w
    BY <1>0, <2>1, <2>2, <2>3
  <2>4. CASE \E m \in Msg : w' = Append(w, m)
    <3>1. PICK m \in Msg : w' = Append(w, m)
      BY <2>4
    <3>2. DataTyped(wr, ob, fds, Append(w, m)) /\ DataOK(wr, ob, fds, Append(w, m), TRUE, Len(w))
      <4> HIDE DEF w
      <4> QED BY <1>0, <1>t, <2>2, HandedOK
    <3>3. DataOK(wr, ob, fds, Append(w, m), TRUE, q')
      BY <3>2 DEF DataOK
    <3> QED BY <2>1, <3>1, <3>2, <3>3
  <2> QED BY <1>2, <2>3, <2>4 DEF Failing
<1>3. CASE Handed(c)
  <2>1. /\ wr' = wr /\ ob' = ob /\ fds' = fds /\ f' = f /\ q = Len(w) /\ q' = q
        /\ \E m \in Msg : w' = Append(w, m)
    BY <1>3 DEF Handed
  <2>2. PICK m \in Msg : w' = Append(w, m)
    BY <2>1
  <2> HIDE DEF wr, ob, fds, f, q, w
  <2>3. DataTyped(wr, ob, fds, Append(w, m)) /\ DataOK(wr, ob, fds, Append(w, m), f, q)
    BY <1>0, <1>t, <2>1, HandedOK
  <2> QED BY <2>1, <2>2, <2>3
<1>4. CASE \E m \in Nat, len \in Lengths : PlainGoes(c, m, len)
  <2>1. PICK m \in Nat, len \in Lengths : PlainGoes(c, m, len)
    BY <1>4
  <2>2. /\ w # <<>> /\ w[Len(w)] = [len |-> len, fd |-> FALSE]
        /\ q = Len(w) - 1 /\ q' = Len(w) /\ f = FALSE
        /\ w' = w /\ fds' = fds /\ f' = f
    BY <2>1, <1>t DEF PlainGoes
  <2>3. \/ /\ ~(ob # <<>> /\ Len(ob) + len > Cap)
           /\ wr' = wr /\ ob' = ob \o Bytes(Len(w), 1, len)
        \/ /\ ob = <<>>
           /\ \E n \in 1 .. len : wr' = wr \o OnWire(Bytes(Len(w), 1, n), 0)
                                  /\ ob' = Bytes(Len(w), n + 1, len)
    BY <2>1 DEF PlainGoes, OverCap
  <2>4. PICK v, o : v = wr' /\ o = ob'
    OBVIOUS
  <2>5. \/ /\ ~(ob # <<>> /\ Len(ob) + len > Cap)
           /\ v = wr /\ o = ob \o Bytes(Len(w), 1, len)
        \/ /\ ob = <<>>
           /\ \E n \in 1 .. len : v = wr \o OnWire(Bytes(Len(w), 1, n), 0)
                                  /\ o = Bytes(Len(w), n + 1, len)
    BY <2>3, <2>4
  <2>6. DataOK(wr, ob, fds, w, FALSE, Len(w) - 1)
    BY <1>0, <2>2
  <2> HIDE DEF wr, ob, fds, f, q, w
  <2>7. DataTyped(v, o, fds, w) /\ DataOK(v, o, fds, w, FALSE, Len(w))
    BY <1>0, <2>2, <2>5, <2>6, PlainOK
  <2> QED BY <2>2, <2>4, <2>7
<1>5. CASE \E len \in Lengths : ReplyGoes(c, len)
  <2>1. PICK len \in Lengths : ReplyGoes(c, len)
    BY <1>5
  <2>2. /\ ~(ob # <<>> /\ Len(ob) + len > Cap)
        /\ f = FALSE /\ f' = f /\ wr' = wr /\ q = Len(w) /\ q' = Len(w) + 1
        /\ w' = Append(w, [len |-> len, fd |-> TRUE])
        /\ fds' = Append(fds, [at |-> Len(ob), len |-> len, fd |-> Len(w) + 1])
        /\ ob' = ob \o Bytes(Len(w) + 1, 1, len)
    BY <2>1, <1>t DEF ReplyGoes, OverCap
  <2>3. PICK o, g, z : o = ob' /\ g = fds' /\ z = w'
    OBVIOUS
  <2> HIDE DEF wr, ob, fds, f, q, w
  <2>4. DataOK(wr, ob, fds, w, FALSE, Len(w))
    BY <1>0, <2>2
  <2>5. DataTyped(wr, o, g, z) /\ DataOK(wr, o, g, z, FALSE, Len(w) + 1)
    BY <1>0, <2>2, <2>3, <2>4, ReplyOK
  <2> QED BY <2>2, <2>3, <2>5
<1>6. CASE \E n \in 1 .. Len(outbound[c]) : ChunkGoes(c, n)
  <2>1. PICK n \in 1 .. Len(outbound[c]) : ChunkGoes(c, n)
    BY <1>6
  <2> DEFINE due == FdDue(c)
  <2>2. due \in BOOLEAN /\ (due <=> (fds # <<>> /\ fds[1].at = 0))
    BY DEF FdDue
  <2>3. /\ fds # <<>> => n <= IF due THEN fds[1].len ELSE fds[1].at
        /\ w' = w /\ f' = f /\ q' = q
        /\ wr' = wr \o OnWire(SubSeq(ob, 1, n), IF due THEN fds[1].fd ELSE 0)
        /\ ob' = SubSeq(ob, n + 1, Len(ob))
        /\ fds' = Sent(fds, n, due)
    BY <2>1 DEF ChunkGoes, ChunkEnd
  <2>4. PICK v, o, g : v = wr' /\ o = ob' /\ g = fds'
    OBVIOUS
  <2>5. n \in 1 .. Len(ob)
    OBVIOUS
  <2> HIDE DEF wr, ob, fds, f, q, w, due
  <2>6. DataTyped(v, o, g, w) /\ DataOK(v, o, g, w, f, q)
    <3>1. ChunkTaken(wr, ob, fds, n, due, v, o, g)
      BY <2>2, <2>3, <2>4 DEF ChunkTaken
    <3>2. f \in BOOLEAN /\ due \in BOOLEAN
      BY <1>t, <2>2
    <3> QED BY <1>0, <2>5, <3>1, <3>2, ChunkOK, Zenon
  <2> QED BY <2>3, <2>4, <2>6
<1> QED BY <1>1, <1>2, <1>3, <1>4, <1>5, <1>6 DEF DataStep

-------------------------------------------------------------------------------
(***************************************************************************)
(* Types and the write or drain in progress                                *)
(***************************************************************************)

LEMMA DataKept ==
    ASSUME TypeOK, OpInv, [Next]_vars, \A c \in Client : DataInv(c)
    PROVE  \A c \in Client : DataTypes(c)' /\ DataInv(c)'
<1> SUFFICES ASSUME NEW c \in Client PROVE DataTypes(c)' /\ DataInv(c)'
  OBVIOUS
<1>1. DataTypes(c) /\ writeFailed[c] \in BOOLEAN
  BY DEF TypeOK, DataTypes, DataTyped, Fd, Msg
<1>2. DataStep(c)
  BY DataSteps
<1>3. DataInv(c)
  OBVIOUS
<1> QED BY <1>1, <1>2, <1>3, DataPreserved

LEMMA SequencesTyped ==
    ASSUME TypeOK, OpInv, [Next]_vars, \A c \in Client : DataInv(c)
    PROVE  /\ outbound' \in [Client -> Seq(Byte)]
           /\ outboundFds' \in [Client -> Seq(Fd)]
           /\ wire' \in [Client -> Seq(WireByte)]
           /\ written' \in [Client -> Seq(Msg)]
<1>1. \A c \in Client : DataTypes(c)'
  BY DataKept
<1>2. Functional'
  BY StaysFunctional
<1> QED BY <1>1, <1>2 DEF DataTypes, DataTyped, Functional

\* The wire only grows.
LEMMA WireGrows ==
    ASSUME NEW c \in Client, DataTypes(c), DataStep(c)
    PROVE  Len(wire[c]') >= Len(wire[c])
<1>0. wire[c] \in Seq(WireByte) /\ outbound[c] \in Seq(Byte) /\ outboundFds[c] \in Seq(Fd)
  BY DEF DataTypes, DataTyped
<1>1. CASE wire[c]' = wire[c]
  BY <1>1, <1>0
<1>2. CASE \E m \in Nat, len \in Lengths : PlainGoes(c, m, len)
  <2>1. PICK m \in Nat, len \in Lengths : PlainGoes(c, m, len)
    BY <1>2
  <2>2. CASE wire[c]' # wire[c]
    <3>1. PICK n \in 1 .. len : wire[c]' = wire[c] \o OnWire(Bytes(m, 1, n), 0)
      BY <2>1, <2>2 DEF PlainGoes
    <3>2. n \in Nat
      BY WholeBytes
    <3>3. Bytes(m, 1, n) \in Seq(Byte)
      BY <3>2, PrefixBytes
    <3>4. OnWire(Bytes(m, 1, n), 0) \in Seq(WireByte)
      BY <3>3, OnWireType
    <3> QED BY <1>0, <3>1, <3>4, ConcatParts
  <2> QED BY <1>1, <2>2
<1>3. CASE \E n \in 1 .. Len(outbound[c]) : ChunkGoes(c, n)
  <2>1. PICK n \in 1 .. Len(outbound[c]) : ChunkGoes(c, n)
    BY <1>3
  <2> DEFINE f == IF FdDue(c) THEN outboundFds[c][1].fd ELSE 0
  <2>2. f \in Nat
    <3>1. CASE FdDue(c)
      <4>1. outboundFds[c] # <<>>
        BY <3>1 DEF FdDue
      <4>2. outboundFds[c][1] \in Fd
        BY <1>0, <4>1
      <4> QED BY <3>1, <4>2 DEF Fd
    <3> QED BY <3>1
  <2>3. wire[c]' = wire[c] \o OnWire(SubSeq(outbound[c], 1, n), f)
    BY <2>1 DEF ChunkGoes
  <2> HIDE DEF f
  <2>4. SubSeq(outbound[c], 1, n) \in Seq(Byte)
    BY <1>0
  <2>5. OnWire(SubSeq(outbound[c], 1, n), f) \in Seq(WireByte)
    BY <2>2, <2>4, OnWireType
  <2> DEFINE x == OnWire(SubSeq(outbound[c], 1, n), f)
  <2>6. x \in Seq(WireByte) /\ wire[c]' = wire[c] \o x
    BY <2>3, <2>5
  <2> HIDE DEF x
  <2>7. Len(wire[c] \o x) = Len(wire[c]) + Len(x) /\ Len(wire[c]) \in Nat /\ Len(x) \in Nat
    BY <1>0, <2>6, ConcatParts
  <2> QED BY <2>6, <2>7
<1> QED BY <1>1, <1>2, <1>3 DEF DataStep, Same, Failing, Handed, ReplyGoes

\* The types of the flags, the poller's state and the loop's position.
FlagTypes ==
    /\ live \subseteq Client
    /\ read \in [Client -> Nat]
    /\ writeFailed \in [Client -> BOOLEAN]
    /\ watching \in [Client -> BOOLEAN]
    /\ refused \in [Client -> BOOLEAN]
    /\ closed \in [Client -> BOOLEAN]
    /\ noSpace \in [Client -> BOOLEAN]
    /\ edge \in [Client -> BOOLEAN]
    /\ at \in {"poll", "dispatch", "settle", "fanout", "reconcile", "tail"}
    /\ second \in BOOLEAN
    /\ ready \subseteq Client /\ eof \subseteq Client /\ todo \subseteq Client
    /\ op \in Op

LEMMA FlagsTyped ==
    ASSUME TypeOK, OpInv, [Next]_vars PROVE FlagTypes'
<1>0. FlagTypes
  BY DEF TypeOK, FlagTypes
<1> USE DEF buffers, socket, poller, peer, loop
<1>i. Idle \in Op
  BY DEF Idle, Op
<1>1. CASE Poll
  BY <1>0, <1>1 DEF Poll, FlagTypes
<1>2. ASSUME NEW d \in Client, NEW len \in Lengths, WriteOrBuffer(d, len) PROVE FlagTypes'
  <2>1. op' \in Op
    BY <1>2 DEF WriteOrBuffer, Op
  <2> QED BY <1>0, <1>2, <2>1 DEF WriteOrBuffer, FlagTypes
<1>3. ASSUME NEW d \in Client, NEW len \in Lengths, WriteWithFd(d, len) PROVE FlagTypes'
  <2>1. op' \in Op
    BY <1>0, <1>3 DEF WriteWithFd, Op, FlagTypes
  <2>2. writeFailed' \in [Client -> BOOLEAN]
    BY <1>0, <1>3 DEF WriteWithFd, FlagTypes
  <2>3. UNCHANGED <<live, read, watching, refused, closed, noSpace, edge, at, second, ready, eof, todo>>
    BY <1>3 DEF WriteWithFd
  <2> QED BY <1>0, <2>1, <2>2, <2>3 DEF FlagTypes
<1>4. CASE DirectWrite
  <2>1. writeFailed' \in [Client -> BOOLEAN]
    BY <1>0, <1>4 DEF DirectWrite, FlagTypes, BufferOrDisconnect
  <2>2. noSpace' \in [Client -> BOOLEAN]
    BY <1>0, <1>4 DEF DirectWrite, FlagTypes
  <2>3. UNCHANGED <<live, read, watching, refused, closed, edge, at, second, ready, eof, todo>> /\ op' = Idle
    BY <1>4 DEF DirectWrite
  <2> QED BY <1>0, <1>i, <2>1, <2>2, <2>3 DEF FlagTypes
<1>5. CASE DrainDone
  <2>1. op' \in Op
    BY <1>0, <1>i, <1>5 DEF DrainDone, FlagTypes, Op
  <2> QED BY <1>0, <1>5, <2>1 DEF DrainDone, FlagTypes
<1>6. CASE DrainFails
  BY <1>0, <1>i, <1>6 DEF DrainFails, FlagTypes, Removed
<1>7. CASE DrainBlocks
  <2>1. op' \in Op
    BY <1>0, <1>i, <1>7 DEF DrainBlocks, FlagTypes, Op
  <2>2. writeFailed' \in [Client -> BOOLEAN]
    BY <1>0, <1>7 DEF DrainBlocks, FlagTypes, BufferOrDisconnect
  <2>3. noSpace' \in [Client -> BOOLEAN]
    BY <1>0, <1>7 DEF DrainBlocks, FlagTypes
  <2>4. UNCHANGED <<live, read, watching, refused, closed, edge, at, second, ready, eof, todo>>
    BY <1>7 DEF DrainBlocks
  <2> QED BY <1>0, <2>1, <2>2, <2>3, <2>4 DEF FlagTypes
<1>8. CASE DrainChunk
  BY <1>0, <1>8 DEF DrainChunk, FlagTypes
<1>9. CASE NotRewatched \/ WatchWritable
  <2>1. op' = Idle /\ UNCHANGED <<live, writeFailed, read, closed, at, second, ready, eof, todo>>
    BY <1>9 DEF NotRewatched, WatchWritable
  <2>2. /\ watching' \in [Client -> BOOLEAN] /\ refused' \in [Client -> BOOLEAN]
        /\ edge' \in [Client -> BOOLEAN] /\ noSpace' \in [Client -> BOOLEAN]
    BY <1>0, <1>9 DEF NotRewatched, WatchWritable, WatchingAsNeeded, FlagTypes, Writable
  <2> QED BY <1>0, <1>i, <2>1, <2>2 DEF FlagTypes
<1>10. ASSUME NEW d \in Client, WritableEvent(d) PROVE FlagTypes'
  <2>1. op' \in Op
    BY <1>0, <1>10 DEF WritableEvent, FlagTypes, Op
  <2> QED BY <1>0, <1>10, <2>1 DEF WritableEvent, FlagTypes, Removed
<1>11. ASSUME NEW d \in Client, ReaderEof(d) PROVE FlagTypes'
  BY <1>0, <1>11 DEF ReaderEof, FlagTypes, Removed
<1>12. ASSUME NEW d \in Client, Reconcile(d) PROVE FlagTypes'
  <2>1. op' \in Op
    BY <1>0, <1>12 DEF Reconcile, Op
  <2> QED BY <1>0, <1>12, <2>1 DEF Reconcile, FlagTypes
<1>13. ASSUME NEW d \in Client, DisconnectFailedWriter(d) PROVE FlagTypes'
  BY <1>0, <1>13 DEF DisconnectFailedWriter, FlagTypes, Removed
<1>14. CASE EndDispatch \/ EndTail \/ EndFanout \/ BeginReconcile \/ EndReconcile
  BY <1>0, <1>14 DEF EndDispatch, EndTail, EndFanout, BeginReconcile, EndReconcile, FlagTypes
<1>15. ASSUME NEW d \in Client, PeerRead(d) PROVE FlagTypes'
  <2>1. read' \in [Client -> Nat]
    BY <1>0, <1>15 DEF PeerRead, FlagTypes
  <2>2. noSpace' \in [Client -> BOOLEAN] /\ edge' \in [Client -> BOOLEAN]
    BY <1>0, <1>15 DEF PeerRead, FlagTypes
  <2> QED BY <1>0, <1>15, <2>1, <2>2 DEF PeerRead, FlagTypes
<1>16. ASSUME NEW d \in Client, PeerClose(d) PROVE FlagTypes'
  BY <1>0, <1>16 DEF PeerClose, FlagTypes
<1>17. CASE UNCHANGED vars
  BY <1>0, <1>17 DEF vars, FlagTypes
<1> QED
  BY <1>1, <1>2, <1>3, <1>4, <1>5, <1>6, <1>7, <1>8, <1>9, <1>10, <1>11, <1>12, <1>13, <1>14, <1>15,
     <1>16, <1>17 DEF Next, IoStep, Iteration, Write

LEMMA TypePreserved ==
    ASSUME TypeOK, OpInv, [Next]_vars, \A c \in Client : DataInv(c)
    PROVE  TypeOK'
<1>1. FlagTypes'
  BY FlagsTyped
<1>2. /\ outbound' \in [Client -> Seq(Byte)]
      /\ outboundFds' \in [Client -> Seq(Fd)]
      /\ wire' \in [Client -> Seq(WireByte)]
      /\ written' \in [Client -> Seq(Msg)]
  BY SequencesTyped
<1>3. ASSUME NEW c \in Client PROVE read'[c] <= Len(wire'[c])
  <2>1. DataTypes(c) /\ read[c] <= Len(wire[c]) /\ Len(wire[c]) \in Nat /\ read[c] \in Nat
    <3>1. DataTypes(c)
      BY DEF TypeOK, DataTypes, DataTyped, Fd, Msg
    <3>2. read[c] <= Len(wire[c]) /\ Len(wire[c]) \in Nat /\ read[c] \in Nat
      BY DEF TypeOK
    <3> QED BY <3>1, <3>2
  <2>2. Len(wire'[c]) >= Len(wire[c]) /\ Len(wire'[c]) \in Nat
    <3>1. DataStep(c)
      BY DataSteps
    <3>2. Len(wire[c]') >= Len(wire[c])
      BY <2>1, <3>1, WireGrows
    <3> QED BY <1>2, <3>2
  <2>3. CASE PeerRead(c)
    <3>1. wire' = wire /\ read[c] < Len(wire[c]) /\ read'[c] = read[c] + 1
      BY <2>3 DEF PeerRead, TypeOK
    <3> QED BY <2>1, <3>1
  <2>4. CASE read'[c] = read[c]
    BY <2>1, <2>2, <2>4
  <2>5. PeerRead(c) \/ read'[c] = read[c]
    <3> USE DEF buffers, socket, poller, peer, loop
    <3>1. ASSUME NEW d \in Client, PeerRead(d) PROVE PeerRead(c) \/ read'[c] = read[c]
      BY <3>1 DEF PeerRead, TypeOK
    <3>2. ASSUME NEW d \in Client, PeerClose(d) PROVE read' = read
      BY <3>2 DEF PeerClose
    <3>3. CASE Poll \/ Iteration
      BY <3>3 DEF Poll, Iteration, WritableEvent, ReaderEof, Reconcile, DisconnectFailedWriter,
                  EndDispatch, EndTail, EndFanout, BeginReconcile, EndReconcile
    <3>4. CASE IoStep
      BY <3>4 DEF IoStep, DirectWrite, DrainDone, DrainFails, DrainBlocks, DrainChunk,
                  NotRewatched, WatchWritable
    <3>5. ASSUME NEW d \in Client, NEW len \in Lengths, WriteOrBuffer(d, len) \/ WriteWithFd(d, len)
          PROVE  read' = read
      BY <3>5 DEF WriteOrBuffer, WriteWithFd
    <3>6. CASE UNCHANGED vars
      BY <3>6 DEF vars
    <3> QED BY <3>1, <3>2, <3>3, <3>4, <3>5, <3>6 DEF Next, Write
  <2> QED BY <2>3, <2>4, <2>5
<1> QED BY <1>1, <1>2, <1>3 DEF TypeOK, FlagTypes, Fd, Msg

\* A step of the loop outside a write or a drain.
LEMMA IdleStays ==
    ASSUME op = Idle, op' = op PROVE OpInv'
BY DEF OpInv

\* The clients a reconcile pass has still to visit are connected.
TodoInv == at = "reconcile" => todo \subseteq live

LEMMA TodoPreserved ==
    ASSUME TypeOK, OpInv, TodoInv, [Next]_vars PROVE TodoInv'
<1> USE DEF buffers, socket, poller, peer, loop, TodoInv
<1>n. Idle.step = "none" /\ Idle.kind = "idle"
  BY DEF Idle
<1>1. CASE Poll \/ EndDispatch \/ EndTail \/ EndFanout \/ BeginReconcile \/ EndReconcile
  BY <1>1 DEF Poll, EndDispatch, EndTail, EndFanout, BeginReconcile, EndReconcile
<1>2. ASSUME NEW d \in Client, NEW len \in Lengths, WriteOrBuffer(d, len) \/ WriteWithFd(d, len)
      PROVE  TodoInv'
  <2>1. UNCHANGED <<live, at, todo>>
    BY <1>2 DEF WriteOrBuffer, WriteWithFd
  <2> QED BY <2>1
<1>3. CASE DirectWrite \/ DrainDone \/ DrainBlocks \/ DrainChunk \/ NotRewatched \/ WatchWritable
  <2>1. UNCHANGED <<live, at, todo>>
    BY <1>3 DEF DirectWrite, DrainDone, DrainBlocks, DrainChunk, NotRewatched, WatchWritable
  <2> QED BY <2>1
<1>4. CASE DrainFails
  <2>1. UNCHANGED <<at, todo>> /\ (live' = live \/ op.kind = "event") /\ op.step = "drain"
    BY <1>4 DEF DrainFails
  <2>2. op.kind = "event" => at = "dispatch"
    BY <1>n DEF OpInv
  <2> QED BY <2>1, <2>2
<1>5. ASSUME NEW d \in Client, WritableEvent(d) \/ ReaderEof(d) \/ DisconnectFailedWriter(d)
      PROVE  TodoInv'
  <2>1. at' # "reconcile"
    BY <1>5 DEF WritableEvent, ReaderEof, DisconnectFailedWriter
  <2> QED BY <2>1
<1>6. ASSUME NEW d \in Client, Reconcile(d) PROVE TodoInv'
  BY <1>6 DEF Reconcile
<1>7. ASSUME NEW d \in Client, PeerRead(d) \/ PeerClose(d) PROVE TodoInv'
  <2>1. UNCHANGED <<live, at, todo>>
    BY <1>7 DEF PeerRead, PeerClose
  <2> QED BY <2>1
<1>8. CASE UNCHANGED vars
  BY <1>8 DEF vars
<1> QED BY <1>1, <1>2, <1>3, <1>4, <1>5, <1>6, <1>7, <1>8 DEF Next, IoStep, Iteration, Write

LEMMA OpPreserved ==
    ASSUME TypeOK, OpInv, TodoInv, [Next]_vars PROVE OpInv'
<1> USE DEF buffers, socket, poller, peer, loop, Handlers
<1>n. Idle.step = "none" /\ Idle.kind = "idle"
  BY DEF Idle
<1>1. CASE Poll
  <2>1. op = Idle
    BY <1>1 DEF Poll, OpInv
  <2>2. op' = op
    BY <1>1 DEF Poll
  <2> QED BY <2>1, <2>2, IdleStays
<1>2. ASSUME NEW d \in Client, NEW len \in Lengths, WriteOrBuffer(d, len) PROVE OpInv'
  <2>1. op = Idle /\ at \in Handlers /\ d \in live /\ ~writeFailed[d]
    BY <1>2, Writing, Zenon DEF WriteOrBuffer
  <2>2. /\ op' = [kind |-> "write", c |-> d, len |-> len,
                  step |-> IF outbound[d] = <<>> THEN "direct" ELSE "drain"]
        /\ UNCHANGED <<live, at, writeFailed, outbound>>
        /\ written' = [written EXCEPT ![d] = Append(@, [len |-> len, fd |-> FALSE])]
    BY <1>2 DEF WriteOrBuffer
  <2>3. /\ op'.kind = "write" /\ op'.c = d /\ op'.len = len
        /\ op'.step = IF outbound[d] = <<>> THEN "direct" ELSE "drain"
    BY <2>2
  <2>4. /\ written'[d] # <<>> /\ written'[d][Len(written'[d])] = [len |-> len, fd |-> FALSE]
    <3>1. written[d] \in Seq(Msg) /\ [len |-> len, fd |-> FALSE] \in Msg
      BY DEF TypeOK, Msg
    <3>2. written'[d] = Append(written[d], [len |-> len, fd |-> FALSE])
      BY <2>2 DEF TypeOK
    <3> QED BY <3>1, <3>2
  <2> QED BY <2>1, <2>2, <2>3, <2>4 DEF OpInv
<1>3. ASSUME NEW d \in Client, NEW len \in Lengths, WriteWithFd(d, len) PROVE OpInv'
  <2>1. op = Idle /\ at \in Handlers /\ d \in live /\ ~writeFailed[d]
    BY <1>3, Writing, Zenon DEF WriteWithFd
  <2>2. CASE op' = op
    BY <2>1, <2>2, IdleStays
  <2>3. CASE op' = [kind |-> "fd", c |-> d, len |-> len, step |-> "drain"]
    <3>1. op'.kind = "fd" /\ op'.c = d /\ op'.step = "drain"
      BY <2>3
    <3>2. UNCHANGED <<live, at>>
      BY <1>3 DEF WriteWithFd
    <3> QED BY <2>1, <3>1, <3>2 DEF OpInv
  <2> QED BY <1>3, <2>2, <2>3 DEF WriteWithFd
<1>4. CASE DirectWrite \/ DrainFails \/ NotRewatched \/ WatchWritable
  BY <1>4 DEF DirectWrite, DrainFails, NotRewatched, WatchWritable, OpInv
<1>5. CASE DrainDone
  <2>1. op.step = "drain" /\ op \in Op /\ outbound[op.c] = <<>>
        /\ UNCHANGED <<live, at, writeFailed, outbound, written>>
    BY <1>5 DEF DrainDone, TypeOK
  <2>2. CASE op.kind = "write"
    <3>1. op' = [op EXCEPT !.step = "direct"]
      BY <1>5, <2>2 DEF DrainDone
    <3>2. op'.kind = "write" /\ op'.c = op.c /\ op'.len = op.len /\ op'.step = "direct"
      BY <2>1, <2>2, <3>1 DEF Op
    <3> QED BY <1>n, <2>1, <2>2, <3>2 DEF OpInv
  <2>3. CASE op.kind = "reconcile"
    <3>1. op' = [op EXCEPT !.step = "watch"]
      BY <1>5, <2>3 DEF DrainDone
    <3>2. op'.kind = "reconcile" /\ op'.c = op.c /\ op'.step = "watch"
      BY <2>1, <2>3, <3>1 DEF Op
    <3> QED BY <1>n, <2>1, <2>3, <3>2 DEF OpInv
  <2>4. CASE op.kind # "write" /\ op.kind # "reconcile"
    BY <1>5, <2>4 DEF DrainDone, OpInv
  <2> QED BY <2>2, <2>3, <2>4
<1>6. CASE DrainBlocks
  <2>1. CASE op.kind = "reconcile"
    <3>1. op' = [op EXCEPT !.step = "watch"] /\ op \in Op /\ op.step = "drain" /\ UNCHANGED <<live, at>>
      BY <1>6, <2>1 DEF DrainBlocks, TypeOK
    <3>2. op'.kind = "reconcile" /\ op'.c = op.c /\ op'.step = "watch"
      BY <2>1, <3>1 DEF Op
    <3> QED BY <1>n, <2>1, <3>1, <3>2 DEF OpInv
  <2>2. CASE op.kind # "reconcile"
    BY <1>6, <2>2 DEF DrainBlocks, OpInv
  <2> QED BY <2>1, <2>2
<1>7. CASE DrainChunk
  BY <1>n, <1>7 DEF DrainChunk, OpInv
<1>8. ASSUME NEW d \in Client, WritableEvent(d) PROVE OpInv'
  <2>1. CASE op' = op
    BY <1>8, <2>1, IdleStays DEF WritableEvent
  <2>2. CASE op' # op
    <3>1. /\ op' = [kind |-> "event", c |-> d, len |-> 0, step |-> "drain"]
          /\ d \in live /\ live' = live /\ at = "dispatch" /\ at' = at
      BY <1>8, <2>2 DEF WritableEvent
    <3>2. op'.kind = "event" /\ op'.c = d /\ op'.step = "drain"
      BY <3>1
    <3> QED BY <3>1, <3>2 DEF OpInv
  <2> QED BY <2>1, <2>2
<1>9. ASSUME NEW d \in Client, ReaderEof(d) PROVE OpInv'
  BY <1>9, IdleStays DEF ReaderEof
<1>10. ASSUME NEW d \in Client, Reconcile(d) PROVE OpInv'
  <2>1. /\ op' = [kind |-> "reconcile", c |-> d, len |-> 0,
                  step |-> IF outbound[d] = <<>> THEN "watch" ELSE "drain"]
        /\ UNCHANGED <<live, at>> /\ at = "reconcile" /\ d \in todo
    BY <1>10 DEF Reconcile
  <2>2. op'.kind = "reconcile" /\ op'.c = d /\ op'.step \in {"drain", "watch"}
    BY <2>1
  <2> QED BY <2>1, <2>2 DEF OpInv, TodoInv
<1>11. ASSUME NEW d \in Client, DisconnectFailedWriter(d) PROVE OpInv'
  <2>1. op = Idle
    BY <1>11 DEF DisconnectFailedWriter, OpInv
  <2> QED BY <1>11, <2>1, IdleStays DEF DisconnectFailedWriter
<1>12. CASE EndDispatch \/ EndTail \/ EndFanout \/ EndReconcile
  BY <1>12, IdleStays DEF EndDispatch, EndTail, EndFanout, EndReconcile
<1>13. CASE BeginReconcile
  <2>1. op = Idle
    BY <1>13 DEF BeginReconcile, OpInv
  <2> QED BY <1>13, <2>1, IdleStays DEF BeginReconcile
<1>14. ASSUME NEW d \in Client, PeerRead(d) \/ PeerClose(d) PROVE OpInv'
  <2>1. UNCHANGED <<live, at, op, writeFailed, written, outbound>>
    BY <1>14 DEF PeerRead, PeerClose
  <2> QED BY <2>1 DEF OpInv
<1>15. CASE UNCHANGED vars
  BY <1>15 DEF vars, OpInv
<1> QED
  BY <1>1, <1>2, <1>3, <1>4, <1>5, <1>6, <1>7, <1>8, <1>9, <1>10, <1>11, <1>12, <1>13, <1>14, <1>15
  DEF Next, IoStep, Iteration, Write

-------------------------------------------------------------------------------
(***************************************************************************)
(* What the core loop sleeps on                                            *)
(***************************************************************************)

\* Waiting output of a peer that is there will be heard of, or the poller has
\* refused to watch for it.
Armed(c) ==
    outbound[c] # <<>> /\ ~closed[c] =>
        \/ ~watching[c] /\ refused[c]
        \/ watching[c] /\ (edge[c] \/ (noSpace[c] /\ ~Writable(c)))

\* Once drained as far as it goes, a client's registration will make it so:
\* either the kernel owes a wake-up, or the socket is writable and was not
\* watched, so that registering it reports it, or was and the event is there.
Arming(c) ==
    outbound[c] # <<>> /\ ~closed[c] =>
        \/ noSpace[c] /\ ~Writable(c)
        \/ Writable(c) /\ (watching[c] => edge[c])

ArmInv ==
    /\ at = "poll" => \A c \in live : ~writeFailed[c] /\ Armed(c)
    /\ at = "reconcile" =>
          \A c \in live \ todo : (op.kind = "reconcile" /\ op.c = c) \/ writeFailed[c] \/ Armed(c)
    /\ op.step = "watch" => Arming(op.c)

\* The state these depend on.
SameSocket(c) ==
    UNCHANGED <<outbound[c], closed[c], watching[c], refused[c], edge[c], noSpace[c], wire[c],
                read[c]>>

LEMMA ArmedSame ==
    ASSUME NEW c, SameSocket(c) PROVE (Armed(c)' <=> Armed(c)) /\ (Arming(c)' <=> Arming(c))
BY DEF SameSocket, Armed, Arming, Writable, Free

\* The free room as a number.
LEMMA FreeType ==
    ASSUME TypeOK, NEW c \in Client
    PROVE  /\ Len(wire[c]) \in Nat /\ read[c] \in Nat /\ Free(c) \in Int
           /\ Room \in Nat /\ WritableRoom \in Nat /\ WritableRoom >= 1
BY OutputAssumption DEF TypeOK, Free

\* A read that frees enough room for a write that found none raises the event.
LEMMA PeerReadArms ==
    ASSUME TypeOK, NEW c \in Client, NEW d \in Client, PeerRead(d)
    PROVE  (Armed(c) => Armed(c)') /\ (Arming(c) => Arming(c)')
<1> USE DEF buffers, socket, poller, peer, loop
<1>1. CASE d # c
  <2>1. SameSocket(c)
    BY <1>1 DEF PeerRead, SameSocket, TypeOK
  <2> QED BY <2>1, ArmedSame
<1>2. CASE d = c
  <2> DEFINE wakes == noSpace[c] /\ Free(c) + 1 >= WritableRoom
  <2>1. /\ outbound'[c] = outbound[c] /\ closed'[c] = closed[c] /\ watching'[c] = watching[c]
        /\ refused'[c] = refused[c]
        /\ noSpace'[c] = (noSpace[c] /\ ~wakes)
        /\ edge'[c] = (edge[c] \/ (wakes /\ watching[c]))
        /\ wire'[c] = wire[c] /\ read'[c] = read[c] + 1
    BY <1>2 DEF PeerRead, TypeOK
  <2>2. Free(c)' = Free(c) + 1 /\ Free(c) \in Int /\ WritableRoom \in Nat
    <3> DEFINE l == Len(wire[c])
    <3>1. l \in Nat /\ read[c] \in Nat /\ Room \in Nat /\ WritableRoom \in Nat
      BY FreeType
    <3>2. Free(c) = Room - (l - read[c]) /\ Free(c)' = Room - (l - (read[c] + 1))
      BY <2>1 DEF Free
    <3> HIDE DEF l
    <3> QED BY <3>1, <3>2
  <2>3. (Writable(c)' <=> Free(c) + 1 >= WritableRoom) /\ (Writable(c) => Writable(c)')
    BY <2>2 DEF Writable
  <2> HIDE DEF wakes
  <2>4. wakes <=> (noSpace[c] /\ Writable(c)')
    BY <2>3 DEF wakes
  <2>5. /\ edge[c] \in BOOLEAN /\ noSpace[c] \in BOOLEAN /\ watching[c] \in BOOLEAN
        /\ closed[c] \in BOOLEAN /\ refused[c] \in BOOLEAN
    BY DEF TypeOK
  <2> QED BY <2>1, <2>3, <2>4, <2>5 DEF Armed, Arming
<1> QED BY <1>1, <1>2

\* A close leaves nothing to hear of.
LEMMA PeerCloseArms ==
    ASSUME TypeOK, NEW c \in Client, NEW d \in Client, PeerClose(d)
    PROVE  (Armed(c) => Armed(c)') /\ (Arming(c) => Arming(c)')
<1> USE DEF buffers, socket, poller, peer, loop
<1>1. CASE d # c
  <2>1. SameSocket(c)
    BY <1>1 DEF PeerClose, SameSocket, TypeOK
  <2> QED BY <2>1, ArmedSame
<1>2. CASE d = c
  <2>1. closed'[c] = TRUE
    BY <1>2 DEF PeerClose, TypeOK
  <2> QED BY <2>1 DEF Armed, Arming
<1> QED BY <1>1, <1>2

\* Registering makes what was Arming Armed.
LEMMA WatchArms ==
    ASSUME TypeOK, WatchWritable, NEW d \in Client, d = op.c, Arming(d)
    PROVE  Armed(d)' /\ \A c \in Client : c # d => SameSocket(c)
<1> USE DEF buffers, socket, poller, peer, loop
<1> DEFINE reports == ~watching[d] /\ Writable(d)
<1>1. /\ watching' = [watching EXCEPT ![d] = ~@]
      /\ edge' = [edge EXCEPT ![d] = reports]
      /\ noSpace' = [noSpace EXCEPT ![d] = @ /\ ~reports]
      /\ refused' = [refused EXCEPT ![d] = FALSE]
      /\ UNCHANGED <<outbound, wire, read, closed>>
      /\ watching[d] # (outbound[d] # <<>>)
  BY DEF WatchWritable, WatchingAsNeeded
<1>2. \A c \in Client : c # d => SameSocket(c)
  BY <1>1 DEF SameSocket, TypeOK
<1>3. Armed(d)'
  <2>1. CASE outbound[d] = <<>> \/ closed[d]
    BY <1>1, <2>1 DEF Armed
  <2>2. CASE outbound[d] # <<>> /\ ~closed[d]
    <3>1. watching[d] = FALSE
      BY <1>1, <2>2 DEF TypeOK
    <3>2. Writable(d)' = Writable(d) /\ Writable(d) \in BOOLEAN
      BY <1>1 DEF Writable, Free
    <3>3. (noSpace[d] /\ ~Writable(d)) \/ Writable(d)
      BY <2>2 DEF Arming
    <3>4. reports <=> Writable(d)
      BY <3>1
    <3>5. /\ watching'[d] = ~watching[d] /\ edge'[d] = reports
          /\ noSpace'[d] = (noSpace[d] /\ ~reports)
      BY <1>1 DEF TypeOK
    <3> HIDE DEF reports
    <3>6. watching'[d] /\ (edge'[d] \/ (noSpace'[d] /\ ~Writable(d)'))
      BY <3>1, <3>2, <3>3, <3>4, <3>5
    <3> QED BY <3>6 DEF Armed
  <2> QED BY <2>1, <2>2
<1> QED BY <1>2, <1>3

\* What is watched as needed and was Arming is Armed; a change the poller
\* refuses is remembered.
LEMMA NotRewatchedArms ==
    ASSUME TypeOK, NotRewatched, NEW d \in Client, d = op.c, Arming(d)
    PROVE  Armed(d)' /\ \A c \in Client : c # d => SameSocket(c)
<1> USE DEF buffers, socket, poller, peer, loop
<1>1. /\ refused' = [refused EXCEPT ![d] = ~WatchingAsNeeded(d)]
      /\ UNCHANGED <<outbound, wire, read, closed, watching, edge, noSpace>>
  BY DEF NotRewatched
<1>2. \A c \in Client : c # d => SameSocket(c)
  BY <1>1 DEF SameSocket, TypeOK
<1>3. refused'[d] <=> ~WatchingAsNeeded(d)
  BY <1>1 DEF TypeOK
<1>4. Writable(d)' <=> Writable(d)
  BY <1>1 DEF Writable, Free
<1>5. Armed(d)'
  <2>1. CASE outbound[d] = <<>> \/ closed[d]
    BY <1>1, <2>1 DEF Armed
  <2>2. CASE outbound[d] # <<>> /\ ~closed[d] /\ watching[d]
    <3>1. (noSpace[d] /\ ~Writable(d)) \/ edge[d]
      BY <2>2 DEF Arming
    <3> QED BY <1>1, <1>4, <2>2, <3>1 DEF Armed
  <2>3. CASE outbound[d] # <<>> /\ ~closed[d] /\ ~watching[d]
    <3>1. ~WatchingAsNeeded(d)
      BY <2>3 DEF WatchingAsNeeded
    <3> QED BY <1>1, <1>3, <2>3, <3>1 DEF Armed
  <2> QED BY <2>1, <2>2, <2>3
<1> QED BY <1>2, <1>5

LEMMA ArmPreserved ==
    ASSUME TypeOK, OpInv, TodoInv, ArmInv, OpInv', [Next]_vars PROVE ArmInv'
<1> USE DEF buffers, socket, poller, peer, loop
<1>n. Idle.step = "none" /\ Idle.kind = "idle" /\ Idle.c = "none"
  BY DEF Idle
\* Outside the poll and the reconcile pass there is nothing to show.
<1>o. ASSUME at' \notin {"poll", "reconcile"} PROVE ArmInv'
  <2>1. op'.step # "watch"
    BY <1>o, <1>n DEF OpInv
  <2> QED BY <1>o, <2>1 DEF ArmInv
<1>p. at = "poll" => op = Idle
  BY DEF OpInv, Handlers
<1>r. at = "reconcile" => op = Idle \/ (op.kind = "reconcile" /\ op.c \in live /\ op.step \in {"drain", "watch"})
  BY DEF OpInv, Handlers
<1>l. live \subseteq Client
  BY DEF TypeOK
<1>1. CASE Poll \/ EndDispatch \/ EndTail \/ EndFanout
  <2>1. at' \notin {"poll", "reconcile"}
    BY <1>1 DEF Poll, EndDispatch, EndTail, EndFanout
  <2> QED BY <2>1, <1>o
<1>2. ASSUME NEW d \in Client, NEW len \in Lengths, WriteOrBuffer(d, len) \/ WriteWithFd(d, len) PROVE ArmInv'
  <2>1. at \in Handlers
    BY <1>2, Writing, Zenon DEF WriteOrBuffer, WriteWithFd
  <2>2. at' = at
    BY <1>2 DEF WriteOrBuffer, WriteWithFd
  <2> QED BY <2>1, <2>2, <1>o DEF Handlers
<1>3. ASSUME NEW d \in Client, WritableEvent(d) \/ ReaderEof(d) \/ DisconnectFailedWriter(d) PROVE ArmInv'
  <2>1. at' \notin {"poll", "reconcile"}
    BY <1>3 DEF WritableEvent, ReaderEof, DisconnectFailedWriter
  <2> QED BY <2>1, <1>o
<1>4. CASE BeginReconcile
  <2>1. op = Idle /\ op' = op /\ at' = "reconcile" /\ todo' = live /\ live' = live
    BY <1>4 DEF BeginReconcile, OpInv, Handlers
  <2> QED BY <2>1, <1>n DEF ArmInv
<1>5. ASSUME NEW d \in Client, Reconcile(d) PROVE ArmInv'
  <2>1. /\ at = "reconcile" /\ at' = at /\ live' = live /\ todo' = todo \ {d} /\ op = Idle
        /\ op' = [kind |-> "reconcile", c |-> d, len |-> 0,
                  step |-> IF outbound[d] = <<>> THEN "watch" ELSE "drain"]
        /\ writeFailed' = writeFailed
    BY <1>5 DEF Reconcile
  <2>2. op'.kind = "reconcile" /\ op'.c = d /\ (op'.step = "watch" => outbound[d] = <<>>)
    BY <2>1
  <2>3. \A c \in Client : SameSocket(c)
    BY <1>5 DEF Reconcile, SameSocket
  <2>4. op'.step = "watch" => Arming(d)'
    BY <2>2, <2>3 DEF Arming, SameSocket
  <2>5. ASSUME NEW c \in live' \ todo' PROVE (op'.kind = "reconcile" /\ op'.c = c) \/ writeFailed'[c] \/ Armed(c)'
    <3>1. CASE c = d
      BY <3>1, <2>2
    <3>2. CASE c # d
      <4>1. c \in live \ todo /\ c \in Client
        BY <2>1, <3>2, <1>l
      <4>2. writeFailed[c] \/ Armed(c)
        BY <4>1, <2>1, <1>n DEF ArmInv
      <4> QED BY <4>1, <4>2, <2>1, <2>3, ArmedSame
    <3> QED BY <3>1, <3>2
  <2> QED BY <2>1, <2>2, <2>4, <2>5 DEF ArmInv
<1>6. CASE EndReconcile
  <2>1. at = "reconcile" /\ op = Idle /\ todo = {} /\ UNCHANGED <<live, writeFailed, todo, op>>
    BY <1>6 DEF EndReconcile
  <2>2. CASE at' = "poll"
    <3>1. FailedWriters = {}
      BY <1>6, <2>2 DEF EndReconcile
    <3>2. ASSUME NEW c \in live' PROVE ~writeFailed'[c] /\ Armed(c)'
      <4>1. c \in live \ todo /\ ~writeFailed[c] /\ c \in Client
        BY <2>1, <3>1, <1>l DEF FailedWriters
      <4>2. Armed(c)
        BY <2>1, <4>1, <1>n DEF ArmInv
      <4>3. SameSocket(c)
        BY <1>6 DEF EndReconcile, SameSocket
      <4> QED BY <2>1, <4>1, <4>2, <4>3, ArmedSame
    <3> QED BY <2>1, <2>2, <3>2, <1>n DEF ArmInv
  <2>3. CASE at' # "poll"
    <3>1. at' # "reconcile"
      BY <1>6 DEF EndReconcile
    <3> QED BY <2>3, <3>1, <1>o
  <2> QED BY <2>2, <2>3
<1>7. CASE IoStep
  <2>1. at' = at /\ todo' = todo /\ op # Idle
    BY <1>7, <1>n DEF IoStep, DirectWrite, DrainDone, DrainFails, DrainBlocks, DrainChunk,
                      NotRewatched, WatchWritable
  <2>2. CASE at # "reconcile"
    BY <2>1, <2>2, <1>o, <1>p
  <2>3. CASE at = "reconcile"
    <3>1. op.kind = "reconcile" /\ op.c \in live /\ op.step \in {"drain", "watch"}
      BY <2>1, <2>3, <1>r
    <3>2. PICK d \in Client : d = op.c
      BY <3>1, <1>l
    <3>3. live' = live /\ \A c \in Client : c # d => writeFailed'[c] = writeFailed[c]
      <4>1. CASE DirectWrite
        BY <3>1, <4>1 DEF DirectWrite
      <4>2. CASE DrainDone \/ DrainChunk \/ NotRewatched \/ WatchWritable
        <5>1. live' = live /\ writeFailed' = writeFailed
          BY <4>2 DEF DrainDone, DrainChunk, NotRewatched, WatchWritable
        <5> QED BY <5>1
      <4>3. CASE DrainFails
        <5>1. live' = live /\ writeFailed' = [writeFailed EXCEPT ![d] = TRUE]
          BY <4>3, <3>1, <3>2 DEF DrainFails
        <5> QED BY <5>1 DEF TypeOK
      <4>4. CASE DrainBlocks
        <5>1. live' = live /\ writeFailed' = writeFailed
          BY <4>4, <3>1 DEF DrainBlocks
        <5> QED BY <5>1
      <4> QED BY <1>7, <4>1, <4>2, <4>3, <4>4 DEF IoStep
    <3>4. \A c \in Client : c # d => writeFailed'[c] = writeFailed[c]
      BY <3>3
    <3>5. ASSUME \A c \in Client : c # d => SameSocket(c),
                 (op'.kind = "reconcile" /\ op'.c = d) \/ writeFailed'[d] \/ Armed(d)',
                 op'.step = "watch" => op'.c = d /\ Arming(d)'
          PROVE  ArmInv'
      <4>1. ASSUME NEW c \in live' \ todo'
            PROVE  (op'.kind = "reconcile" /\ op'.c = c) \/ writeFailed'[c] \/ Armed(c)'
        <5>1. CASE c = d
          BY <3>5, <5>1
        <5>2. CASE c # d
          <6>1. c \in live \ todo /\ c \in Client
            BY <2>1, <3>3, <1>l
          <6>2. writeFailed[c] \/ Armed(c)
            BY <6>1, <5>2, <3>2, <2>3 DEF ArmInv
          <6> QED BY <6>1, <6>2, <5>2, <3>4, <3>5, ArmedSame
        <5> QED BY <5>1, <5>2
      <4> QED BY <4>1, <3>5, <2>1, <2>3 DEF ArmInv
    <3>6. CASE DirectWrite
      BY <3>1, <3>6 DEF DirectWrite
    <3>7. CASE DrainDone
      <4>1. \A c \in Client : SameSocket(c)
        BY <3>7 DEF DrainDone, SameSocket
      <4>2. op' = [op EXCEPT !.step = "watch"] /\ op \in Op
        BY <3>1, <3>7 DEF DrainDone, TypeOK
      <4>3. op'.kind = "reconcile" /\ op'.c = d
        BY <3>1, <3>2, <4>2 DEF Op
      <4>4. Arming(d)'
        BY <3>2, <3>7, <4>1 DEF DrainDone, Arming, SameSocket
      <4> QED BY <3>5, <4>1, <4>3, <4>4
    <3>8. CASE DrainFails
      <4>1. \A c \in Client : SameSocket(c)
        BY <3>8 DEF DrainFails, SameSocket
      <4>2. writeFailed'[d] /\ op' = Idle
        BY <3>2, <3>8 DEF DrainFails, TypeOK
      <4> QED BY <3>5, <4>1, <4>2, <1>n
    <3>9. CASE DrainBlocks
      <4>1. \A c \in Client : c # d => SameSocket(c)
        BY <3>1, <3>2, <3>9 DEF DrainBlocks, SameSocket, TypeOK
      <4>2. op' = [op EXCEPT !.step = "watch"] /\ op \in Op
        BY <3>1, <3>9 DEF DrainBlocks, TypeOK
      <4>3. op'.kind = "reconcile" /\ op'.c = d
        BY <3>1, <3>2, <4>2 DEF Op
      <4>4. Arming(d)'
        <5>1. Free(d) = 0 /\ noSpace'[d] = TRUE /\ wire' = wire /\ read' = read
          BY <3>2, <3>9 DEF DrainBlocks, TypeOK
        <5>2. Free(d)' = Free(d)
          BY <5>1 DEF Free
        <5>3. ~(0 >= WritableRoom)
          BY FreeType
        <5>4. ~Writable(d)'
          BY <5>1, <5>2, <5>3 DEF Writable
        <5> QED BY <5>1, <5>4 DEF Arming
      <4> QED BY <3>5, <4>1, <4>3, <4>4
    <3>10. CASE DrainChunk
      <4>1. \A c \in Client : c # d => SameSocket(c)
        BY <3>2, <3>10 DEF DrainChunk, SameSocket, TypeOK
      <4>2. op' = op /\ op.step = "drain"
        BY <3>10 DEF DrainChunk
      <4> QED BY <3>1, <3>2, <3>5, <4>1, <4>2
    <3>11. CASE NotRewatched \/ WatchWritable
      <4>1. Arming(d)
        BY <3>2, <3>11 DEF NotRewatched, WatchWritable, ArmInv
      <4>2. Armed(d)' /\ \A c \in Client : c # d => SameSocket(c)
        BY <3>2, <3>11, <4>1, WatchArms, NotRewatchedArms
      <4>3. op' = Idle
        BY <3>11 DEF NotRewatched, WatchWritable
      <4> QED BY <3>5, <4>2, <4>3, <1>n
    <3> QED BY <1>7, <3>6, <3>7, <3>8, <3>9, <3>10, <3>11 DEF IoStep
  <2> QED BY <2>2, <2>3
<1>8. ASSUME NEW d \in Client, PeerRead(d) \/ PeerClose(d) PROVE ArmInv'
  <2>1. UNCHANGED <<live, at, todo, op, writeFailed>>
    BY <1>8 DEF PeerRead, PeerClose
  <2>2. \A c \in Client : (Armed(c) => Armed(c)') /\ (Arming(c) => Arming(c)')
    BY <1>8, PeerReadArms, PeerCloseArms
  <2>3. CASE op.step = "watch"
    <3>1. PICK e \in Client : e = op.c
      BY <1>l, <1>n, <2>3 DEF OpInv
    <3>2. Arming(e)
      BY <2>3, <3>1 DEF ArmInv
    <3>3. Arming(e)' /\ op'.c = e
      BY <2>1, <2>2, <3>1, <3>2
    <3>4. at = "reconcile"
      BY <1>n, <2>3 DEF OpInv
    <3>5. ASSUME NEW c \in live' \ todo'
          PROVE  (op'.kind = "reconcile" /\ op'.c = c) \/ writeFailed'[c] \/ Armed(c)'
      BY <1>l, <2>1, <2>2, <3>4 DEF ArmInv
    <3> QED BY <2>1, <3>3, <3>4, <3>5 DEF ArmInv
  <2>4. CASE op.step # "watch"
    <3>1. at = "poll" => \A c \in live : ~writeFailed'[c] /\ Armed(c)'
      BY <1>l, <2>1, <2>2 DEF ArmInv
    <3>2. ASSUME at = "reconcile", NEW c \in live' \ todo'
          PROVE  (op'.kind = "reconcile" /\ op'.c = c) \/ writeFailed'[c] \/ Armed(c)'
      BY <1>l, <2>1, <2>2, <3>2 DEF ArmInv
    <3> QED BY <2>1, <2>4, <3>1, <3>2 DEF ArmInv
  <2> QED BY <2>3, <2>4
<1>9. CASE UNCHANGED vars
  <2>1. UNCHANGED <<live, at, todo, op, writeFailed>> /\ \A c \in Client : SameSocket(c)
    BY <1>9 DEF vars, SameSocket
  <2>2. UNCHANGED <<outbound, closed, watching, refused, edge, noSpace, wire, read>>
    BY <1>9 DEF vars
  <2> QED BY <2>1, <2>2 DEF ArmInv, Armed, Arming, Writable, Free
<1> QED
  BY <1>1, <1>2, <1>3, <1>4, <1>5, <1>6, <1>7, <1>8, <1>9 DEF Next, Iteration, Write

-------------------------------------------------------------------------------
(***************************************************************************)
(* The theorems                                                            *)
(***************************************************************************)

OutputInv ==
    /\ TypeOK /\ OpInv /\ TodoInv /\ ArmInv
    /\ \A c \in Client : DataInv(c)

LEMMA OutputInit == Init => OutputInv
<1> SUFFICES ASSUME Init PROVE OutputInv
  OBVIOUS
<1>1. TypeOK
  <2>1. op \in Op
    BY DEF Init, Idle, Op
  <2>2. /\ outbound \in [Client -> Seq(Byte)] /\ outboundFds \in [Client -> Seq([at : Nat, len : Nat, fd : Nat])]
        /\ wire \in [Client -> Seq(WireByte)] /\ written \in [Client -> Seq([len : Lengths, fd : BOOLEAN])]
    BY DEF Init
  <2>3. \A c \in Client : read[c] <= Len(wire[c])
    BY DEF Init
  <2> QED BY <2>1, <2>2, <2>3 DEF Init, TypeOK
<1>2. OpInv /\ TodoInv
  BY DEF Init, OpInv, TodoInv
<1>3. ArmInv
  BY DEF Init, ArmInv, Armed, Idle
<1>4. ASSUME NEW c \in Client PROVE DataInv(c)
  <2>1. /\ wire[c] = <<>> /\ outbound[c] = <<>> /\ outboundFds[c] = <<>> /\ written[c] = <<>>
        /\ Queued(c) = 0
    BY DEF Init, Queued, Idle
  <2> DEFINE e == <<>>
  <2>2. Len(e) = 0 /\ e \in Seq(WireByte) /\ e \in Seq(Byte)
    OBVIOUS
  <2>3. StreamOf(e, e) \in Seq(Byte) /\ Len(StreamOf(e, e)) = 0
    <3> HIDE DEF e
    <3>1. StreamOf(e, e) \in Seq(Byte) /\ Len(StreamOf(e, e)) = Len(e) + Len(e)
      BY <2>2, StreamType, Zenon
    <3> QED BY <2>2, <3>1
  <2>4. StreamOf(e, e) = <<>>
    BY <2>3
  <2>5. Chain(e, e) /\ EndsWith(e, e, 0) /\ FdsOK(e, e, e) /\ SentOK(e, e)
    BY DEF Chain, EndsWith, FdsOK, FdAtReply, FdsInOrder, ReplyHasFd, SentOK
  <2>6. DataOK(e, e, e, e, writeFailed[c], 0)
    <3>1. Len(e) > Cap => \A i, j \in 1 .. Len(e) : e[i].msg = e[j].msg
      BY OutputAssumption
    <3> HIDE DEF e
    <3> QED BY <2>4, <2>5, <3>1 DEF DataOK, e
  <2> QED BY <2>1, <2>6 DEF DataInv
<1> QED BY <1>1, <1>2, <1>3, <1>4 DEF OutputInv

\* The invariant the results about client_io.rs rest on: the stream of a
\* client is a beginning of its messages, its queued descriptors lie at the
\* first bytes of their replies, and a client the reconcile pass has left has
\* a wake-up for what it still buffers, or the poller refused to watch it.
THEOREM OutputInvariant == Spec => []OutputInv
<1>1. Init => OutputInv
  BY OutputInit
<1>2. OutputInv /\ [Next]_vars => OutputInv'
  <2> SUFFICES ASSUME OutputInv, [Next]_vars PROVE OutputInv'
    OBVIOUS
  <2>1. TypeOK /\ OpInv /\ TodoInv /\ ArmInv /\ \A c \in Client : DataInv(c)
    BY DEF OutputInv
  <2>2. TypeOK'
    BY <2>1, TypePreserved
  <2>3. OpInv'
    BY <2>1, OpPreserved
  <2>4. TodoInv'
    BY <2>1, TodoPreserved
  <2>5. ArmInv'
    BY <2>1, <2>3, ArmPreserved
  <2>6. \A c \in Client : DataInv(c)'
    BY <2>1, DataKept
  <2> QED BY <2>2, <2>3, <2>4, <2>5, <2>6 DEF OutputInv
<1> QED BY <1>1, <1>2, PTL DEF Spec

\* The output state keeps its types.
THEOREM TypeCorrect == Spec => []TypeOK
<1>1. OutputInv => TypeOK
  BY DEF OutputInv
<1> QED BY <1>1, OutputInvariant, PTL

\* A client receives the bytes of its messages in the order they were written
\* with none left out, whatever the socket takes at a time, whatever waits in
\* the backlog and wherever a write fails (write_or_buffer, write_with_fd,
\* drain_outbound).
THEOREM ClientStreamWhole == Spec => []WireWhole
<1>1. OutputInv => WireWhole
  <2> SUFFICES ASSUME OutputInv, NEW c \in Client
               PROVE  LET s == Stream(c) IN
                      /\ s # <<>> => s[1] = [msg |-> 1, pos |-> 1]
                      /\ \A i \in 1 .. (Len(s) - 1) : s[i + 1] = After(c, s[i])
                      /\ ~writeFailed[c] =>
                            IF Queued(c) = 0 THEN s = <<>>
                            ELSE /\ s # <<>>
                                 /\ s[Len(s)] = [msg |-> Queued(c), pos |-> written[c][Queued(c)].len]
    BY DEF WireWhole
  <2>1. DataInv(c) /\ Stream(c) = StreamOf(wire[c], outbound[c])
    BY StreamIs DEF OutputInv
  <2>2. Chain(Stream(c), written[c])
    BY <2>1 DEF DataInv, DataOK
  <2>3. ~writeFailed[c] => EndsWith(Stream(c), written[c], Queued(c))
    BY <2>1 DEF DataInv, DataOK
  <2> QED BY <2>2, <2>3 DEF Chain, EndsWith, ByteAfter, After
<1> QED BY <1>1, OutputInvariant, PTL

\* A descriptor leaves with the first byte of its reply and no other byte
\* carries one (OutboundFds, drain_outbound).
THEOREM DescriptorWithReply == Spec => []FdWithReply
<1>1. OutputInv => FdWithReply
  <2> SUFFICES ASSUME OutputInv, NEW c \in Client, NEW i \in DOMAIN wire[c]
               PROVE  wire[c][i].fd = IF wire[c][i].pos = 1 /\ written[c][wire[c][i].msg].fd
                                      THEN wire[c][i].msg ELSE 0
    BY DEF FdWithReply
  <2>1. SentOK(wire[c], written[c])
    BY DEF OutputInv, DataInv, DataOK
  <2>2. i \in 1 .. Len(wire[c])
    BY DEF OutputInv, TypeOK
  <2> QED BY <2>1, <2>2 DEF SentOK
<1> QED BY <1>1, OutputInvariant, PTL

\* Only a single reply makes a backlog larger than OUTBOUND_CAP
\* (buffer_or_disconnect, write_with_fd).
THEOREM BacklogWithinCap == Spec => []BacklogBounded
<1>1. OutputInv => BacklogBounded
  <2> SUFFICES ASSUME OutputInv, NEW c \in Client, Len(outbound[c]) > Cap,
                      NEW i \in DOMAIN outbound[c], NEW j \in DOMAIN outbound[c]
               PROVE  outbound[c][i].msg = outbound[c][j].msg
    BY DEF BacklogBounded
  <2>1. \A k, l \in 1 .. Len(outbound[c]) : outbound[c][k].msg = outbound[c][l].msg
    BY DEF OutputInv, DataInv, DataOK
  <2>2. i \in 1 .. Len(outbound[c]) /\ j \in 1 .. Len(outbound[c])
    BY DEF OutputInv, TypeOK
  <2> QED BY <2>1, <2>2
<1> QED BY <1>1, OutputInvariant, PTL

\* The core loop never polls with a client whose write failed, nor with output
\* it would not be woken for, unless the poller refused to watch that client
\* (settle_client_output, reconcile_client_writable_interest).
THEOREM SleepsArmed == Spec => []WakeupArmed
<1>1. OutputInv => WakeupArmed
  BY DEF OutputInv, ArmInv, Armed, WakeupArmed
<1> QED BY <1>1, OutputInvariant, PTL
===============================================================================
