------------------------- MODULE XiConfigLaneProofs -------------------------
(***************************************************************************)
(* Invariants of the device configuration lane for any number of clients,  *)
(* requests, VT releases and session resets.                               *)
(*                                                                         *)
(* The argument has three parts.  A client is blocked exactly for the one  *)
(* request that is queued or submitted.  The results in the channel, the   *)
(* writes of the current wake-up and the writes still in the mailbox form  *)
(* one pipeline, in the order of their tokens, of exactly the writes the   *)
(* core remembers.  And the last message in the channel that affects the   *)
(* confirmed value tells the value the device has.                         *)
(***************************************************************************)
EXTENDS XiConfigLane, FiniteSetTheorems, TLAPS

-----------------------------------------------------------------------------
(* Messages.                                                               *)

\* What the fields of a message of the input thread may hold.
Proper(m) ==
    /\ m.kind \in {"suspended", "paused", "resumed", "result"}
    /\ m.kind = "resumed" => m.value \in Value
    /\ m.kind = "result" => m.token \in Nat /\ m.ok \in BOOLEAN

LEMMA MessageProper ==
    ASSUME NEW m \in InputMessages
    PROVE  Proper(m)
<1>1. CASE m \in [kind : {"suspended", "paused"}]
  BY <1>1 DEF Proper
<1>2. CASE m \in [kind : {"resumed"}, value : Value]
  BY <1>2 DEF Proper
<1>3. CASE m \in [kind : {"result"}, token : Nat, ok : BOOLEAN]
  BY <1>3 DEF Proper
<1> QED  BY <1>1, <1>2, <1>3 DEF InputMessages

LEMMA MessageMade ==
    /\ [kind |-> "suspended"] \in InputMessages
    /\ [kind |-> "paused"] \in InputMessages
    /\ \A v \in Value : [kind |-> "resumed", value |-> v] \in InputMessages
    /\ \A t \in Nat, b \in BOOLEAN :
          [kind |-> "result", token |-> t, ok |-> b] \in InputMessages
<1>1. [kind |-> "suspended"] \in InputMessages  BY DEF InputMessages
<1>2. [kind |-> "paused"] \in InputMessages  BY DEF InputMessages
<1>3. \A v \in Value : [kind |-> "resumed", value |-> v] \in InputMessages
  BY DEF InputMessages
<1>4. \A t \in Nat, b \in BOOLEAN :
          [kind |-> "result", token |-> t, ok |-> b] \in InputMessages
  BY DEF InputMessages
<1> QED  BY <1>1, <1>2, <1>3, <1>4

\* Every message of a channel has proper fields.
LEMMA ChannelProper ==
    ASSUME NEW ch \in Seq(InputMessages)
    PROVE  \A i \in DOMAIN ch : Proper(ch[i])
<1> SUFFICES ASSUME NEW i \in DOMAIN ch PROVE Proper(ch[i])
  OBVIOUS
<1>1. ch[i] \in InputMessages  OBVIOUS
<1> QED  BY <1>1, MessageProper

-----------------------------------------------------------------------------
(* Sequences: what the steps of the model do to one, index by index.       *)

LEMMA AppendFacts ==
    ASSUME NEW S, NEW s \in Seq(S), NEW e \in S
    PROVE  /\ Append(s, e) \in Seq(S)
           /\ DOMAIN s = 1 .. Len(s)
           /\ DOMAIN Append(s, e) = 1 .. Len(s) + 1
           /\ \A i \in 1 .. Len(s) : Append(s, e)[i] = s[i]
           /\ Append(s, e)[Len(s) + 1] = e
           /\ Len(s) \in Nat
OBVIOUS

LEMMA TailFacts ==
    ASSUME NEW S, NEW s \in Seq(S), s # <<>>
    PROVE  /\ Tail(s) \in Seq(S)
           /\ Head(s) \in S /\ Head(s) = s[1] /\ 1 \in DOMAIN s
           /\ DOMAIN s = 1 .. Len(s)
           /\ DOMAIN Tail(s) = 1 .. Len(s) - 1
           /\ \A i \in 1 .. Len(s) - 1 : Tail(s)[i] = s[i + 1]
           /\ Len(s) \in Nat /\ Len(s) >= 1
OBVIOUS

\* The sequence d put into s behind its first j elements.
Spliced(s, d, j) == SubSeq(s, 1, j) \o d \o SubSeq(s, j + 1, Len(s))

SplicedSo(c, s, d, j) ==
    /\ DOMAIN c = 1 .. Len(s) + Len(d)
    /\ \A i \in 1 .. j : c[i] = s[i]
    /\ \A i \in j + 1 .. j + Len(d) : c[i] = d[i - j]
    /\ \A i \in j + 1 .. Len(s) : c[i + Len(d)] = s[i]
    /\ DOMAIN s = 1 .. Len(s) /\ DOMAIN d = 1 .. Len(d)
    /\ Len(s) \in Nat /\ Len(d) \in Nat

LEMMA SpliceFacts ==
    ASSUME NEW S, NEW s \in Seq(S), NEW d \in Seq(S), NEW j \in 0 .. Len(s)
    PROVE  Spliced(s, d, j) \in Seq(S) /\ SplicedSo(Spliced(s, d, j), s, d, j)
<1> DEFINE a == SubSeq(s, 1, j)
           b == SubSeq(s, j + 1, Len(s))
<1>1. a \in Seq(S) /\ Len(a) = j /\ \A i \in 1 .. j : a[i] = s[i]
  OBVIOUS
<1>2. b \in Seq(S) /\ Len(b) = Len(s) - j /\ \A i \in 1 .. Len(s) - j : b[i] = s[i + j]
  OBVIOUS
<1>3. Len(s) \in Nat /\ Len(d) \in Nat /\ DOMAIN s = 1 .. Len(s) /\ DOMAIN d = 1 .. Len(d)
  OBVIOUS
<1> HIDE DEF a, b
<1>4. /\ (a \o d) \in Seq(S) /\ Len(a \o d) = j + Len(d)
      /\ \A i \in 1 .. j : (a \o d)[i] = a[i]
      /\ \A i \in j + 1 .. j + Len(d) : (a \o d)[i] = d[i - j]
  BY <1>1, <1>3
<1> DEFINE ad == a \o d
<1>5. ad \in Seq(S) /\ Len(ad) = j + Len(d)  BY <1>4
<1> HIDE DEF ad
<1> DEFINE l == j + Len(d)
           r == Len(s) - j
<1>61. l \in Nat /\ r \in Nat /\ Len(ad) = l /\ Len(b) = r  BY <1>5, <1>2, <1>3
<1>60. ad \in Seq(S) /\ b \in Seq(S)  BY <1>5, <1>2
<1> HIDE DEF l, r
<1>65. (ad \o b) \in Seq(S)  BY <1>60
<1>66. Len(ad \o b) = Len(ad) + Len(b)  BY <1>60
<1>62. /\ (ad \o b) \in Seq(S) /\ Len(ad \o b) = l + r
       /\ DOMAIN (ad \o b) = 1 .. Len(ad \o b)
  BY <1>65, <1>66, <1>61
<1>63. \A i \in 1 .. l : (ad \o b)[i] = ad[i]
  BY <1>60, <1>61
<1>64. \A i \in l + 1 .. l + r : (ad \o b)[i] = b[i - l]
  BY <1>60, <1>61
<1>6. /\ (ad \o b) \in Seq(S) /\ Len(ad \o b) = j + Len(d) + (Len(s) - j)
      /\ DOMAIN (ad \o b) = 1 .. Len(ad \o b)
      /\ \A i \in 1 .. j + Len(d) : (ad \o b)[i] = ad[i]
      /\ \A i \in j + Len(d) + 1 .. j + Len(d) + (Len(s) - j) : (ad \o b)[i] = b[i - (j + Len(d))]
  BY <1>62, <1>63, <1>64 DEF l, r
<1>7. Spliced(s, d, j) = ad \o b  BY DEF Spliced, ad, a, b
<1>8. \A i \in 1 .. j : (ad \o b)[i] = s[i]  BY <1>6, <1>4, <1>1, <1>3 DEF ad
<1>9. \A i \in j + 1 .. j + Len(d) : (ad \o b)[i] = d[i - j]  BY <1>6, <1>4, <1>3 DEF ad
<1>10. \A i \in j + 1 .. Len(s) : (ad \o b)[i + Len(d)] = s[i]
  <2> SUFFICES ASSUME NEW i \in j + 1 .. Len(s) PROVE (ad \o b)[i + Len(d)] = s[i]
    OBVIOUS
  <2>1. i + Len(d) \in j + Len(d) + 1 .. j + Len(d) + (Len(s) - j)
        /\ (i + Len(d)) - (j + Len(d)) = i - j /\ i - j \in 1 .. Len(s) - j /\ (i - j) + j = i
    BY <1>3
  <2> QED  BY <2>1, <1>6, <1>2
<1>11. DOMAIN (ad \o b) = 1 .. Len(s) + Len(d)  BY <1>6, <1>3
<1> QED  BY <1>3, <1>6, <1>7, <1>8, <1>9, <1>10, <1>11 DEF SplicedSo

-----------------------------------------------------------------------------
(* The pipeline of results and writes.                                     *)

\* The results in a channel.
AnswersIn(ch) == {i \in DOMAIN ch : ch[i].kind = "result"}

\* Results, writes of the wake-up and writes of the mailbox are those of the
\* remembered writes R, no more and no less.
Covered(ch, wc, cf, R) ==
    /\ \A i \in AnswersIn(ch) : \E t \in R : t.token = ch[i].token
    /\ \A i \in DOMAIN wc : wc[i] \in R
    /\ \A i \in DOMAIN cf : cf[i] \in R
    /\ \A t \in R : \/ \E i \in AnswersIn(ch) : ch[i].token = t.token
                    \/ \E i \in DOMAIN wc : wc[i] = t
                    \/ \E i \in DOMAIN cf : cf[i] = t

\* They are in the order of submission.
InOrder(ch, wc, cf) ==
    /\ \A i, j \in AnswersIn(ch) : i < j => ch[i].token < ch[j].token
    /\ \A i, j \in DOMAIN wc : i < j => wc[i].token < wc[j].token
    /\ \A i, j \in DOMAIN cf : i < j => cf[i].token < cf[j].token
    /\ \A i \in AnswersIn(ch), j \in DOMAIN wc : ch[i].token < wc[j].token
    /\ \A i \in AnswersIn(ch), j \in DOMAIN cf : ch[i].token < cf[j].token
    /\ \A i \in DOMAIN wc, j \in DOMAIN cf : wc[i].token < cf[j].token

\* Tokens are not reused.
Fresh(R, nt) ==
    /\ \A t, u \in R : t.token = u.token => t = u
    /\ \A t \in R : t.token < nt

Pipe(ch, wc, cf, R, nt) == Covered(ch, wc, cf, R) /\ InOrder(ch, wc, cf) /\ Fresh(R, nt)

\* The channels ch and ch2 have the same results in the same order.
SameAnswers(ch, ch2) ==
    /\ \A i \in AnswersIn(ch2) : \E a \in AnswersIn(ch) : ch[a] = ch2[i]
    /\ \A a \in AnswersIn(ch) : \E i \in AnswersIn(ch2) : ch2[i] = ch[a]
    /\ \A i, j \in AnswersIn(ch2) :
          i < j => \E a, b \in AnswersIn(ch) : a < b /\ ch[a] = ch2[i] /\ ch[b] = ch2[j]

LEMMA PipeSame ==
    ASSUME NEW ch, NEW ch2, NEW wc, NEW cf, NEW R, NEW nt,
           Pipe(ch, wc, cf, R, nt), SameAnswers(ch, ch2)
    PROVE  Pipe(ch2, wc, cf, R, nt)
<1>1. Covered(ch2, wc, cf, R)  BY DEF Pipe, SameAnswers, Covered
<1>2. InOrder(ch2, wc, cf)
  <2>1. \A i, j \in AnswersIn(ch2) : i < j => ch2[i].token < ch2[j].token
    BY DEF Pipe, SameAnswers, InOrder
  <2>2. \A i \in AnswersIn(ch2), j \in DOMAIN wc : ch2[i].token < wc[j].token
    BY DEF Pipe, SameAnswers, InOrder
  <2>3. \A i \in AnswersIn(ch2), j \in DOMAIN cf : ch2[i].token < cf[j].token
    BY DEF Pipe, SameAnswers, InOrder
  <2> QED  BY <2>1, <2>2, <2>3 DEF Pipe, InOrder
<1> QED  BY <1>1, <1>2 DEF Pipe

\* A message that is no result leaves the channel, enters it, or is put into
\* its middle.
LEMMA SameDropped ==
    ASSUME NEW S, NEW ch \in Seq(S), ch # <<>>, Head(ch).kind # "result"
    PROVE  SameAnswers(ch, Tail(ch))
<1> DEFINE c2 == Tail(ch)
           n == Len(ch)
<1>1. /\ Head(ch) = ch[1] /\ DOMAIN ch = 1 .. n /\ DOMAIN c2 = 1 .. n - 1
      /\ \A i \in 1 .. n - 1 : c2[i] = ch[i + 1]
      /\ n \in Nat /\ n >= 1
  BY TailFacts
<1> HIDE DEF c2, n
<1>2. \A i \in AnswersIn(c2) : i + 1 \in AnswersIn(ch) /\ ch[i + 1] = c2[i]
  BY <1>1 DEF AnswersIn
<1>3. \A a \in AnswersIn(ch) : a - 1 \in AnswersIn(c2) /\ c2[a - 1] = ch[a]
  <2> SUFFICES ASSUME NEW a \in AnswersIn(ch)
               PROVE  a - 1 \in AnswersIn(c2) /\ c2[a - 1] = ch[a]
    OBVIOUS
  <2>1. a # 1 /\ a \in 1 .. n /\ ch[a].kind = "result"  BY <1>1 DEF AnswersIn
  <2>2. a - 1 \in 1 .. n - 1 /\ (a - 1) + 1 = a  BY <2>1, <1>1
  <2> QED  BY <2>1, <2>2, <1>1 DEF AnswersIn
<1>4. \A i, j \in AnswersIn(c2) : i < j => i + 1 < j + 1
  BY <1>1 DEF AnswersIn
<1>5. SameAnswers(ch, c2)  BY <1>2, <1>3, <1>4 DEF SameAnswers
<1> QED  BY <1>5 DEF c2

LEMMA SameAppended ==
    ASSUME NEW S, NEW ch \in Seq(S), NEW m \in S, m.kind # "result"
    PROVE  SameAnswers(ch, Append(ch, m))
<1> DEFINE c2 == Append(ch, m)
           n == Len(ch)
<1>1. /\ DOMAIN ch = 1 .. n /\ DOMAIN c2 = 1 .. n + 1
      /\ \A i \in 1 .. n : c2[i] = ch[i]
      /\ c2[n + 1] = m /\ n \in Nat
  BY AppendFacts
<1> HIDE DEF c2, n
<1>2. AnswersIn(c2) = AnswersIn(ch) /\ \A i \in AnswersIn(ch) : c2[i] = ch[i]
  BY <1>1 DEF AnswersIn
<1>5. SameAnswers(ch, c2)  BY <1>2 DEF SameAnswers
<1> QED  BY <1>5 DEF c2

LEMMA SameSpliced ==
    ASSUME NEW S, NEW ch \in Seq(S), NEW d \in Seq(S), NEW j \in 0 .. Len(ch),
           \A i \in DOMAIN d : d[i].kind # "result"
    PROVE  SameAnswers(ch, Spliced(ch, d, j))
<1> DEFINE c2 == Spliced(ch, d, j)
           n == Len(ch)
           l == Len(d)
           From(i) == IF i <= j THEN i ELSE i - l
           To(a) == IF a <= j THEN a ELSE a + l
<1>1. /\ DOMAIN c2 = 1 .. n + l
      /\ \A i \in 1 .. j : c2[i] = ch[i]
      /\ \A i \in j + 1 .. j + l : c2[i] = d[i - j]
      /\ \A i \in j + 1 .. n : c2[i + l] = ch[i]
      /\ DOMAIN ch = 1 .. n /\ DOMAIN d = 1 .. l
      /\ n \in Nat /\ l \in Nat
  <2>1. SplicedSo(c2, ch, d, j)  BY SpliceFacts, Zenon
  <2> HIDE DEF From, To, c2
  <2> QED  BY <2>1, Zenon DEF SplicedSo
<1>0. j \in 0 .. n  OBVIOUS
<1> HIDE DEF c2, n, l
<1>2. \A i \in AnswersIn(c2) : From(i) \in AnswersIn(ch) /\ ch[From(i)] = c2[i]
                               /\ i \in Nat /\ (i <= j \/ i > j + l)
  <2> SUFFICES ASSUME NEW i \in AnswersIn(c2)
               PROVE  From(i) \in AnswersIn(ch) /\ ch[From(i)] = c2[i]
                      /\ i \in Nat /\ (i <= j \/ i > j + l)
    OBVIOUS
  <2>1. i \in 1 .. n + l /\ c2[i].kind = "result"  BY <1>1 DEF AnswersIn
  <2>2. CASE i <= j
    BY <2>1, <2>2, <1>0, <1>1 DEF AnswersIn
  <2>3. CASE i > j /\ i <= j + l
    <3>1. i \in j + 1 .. j + l /\ i - j \in 1 .. l  BY <2>1, <2>3, <1>0, <1>1
    <3>2. c2[i] = d[i - j] /\ i - j \in DOMAIN d  BY <3>1, <1>0, <1>1
    <3> QED  BY <3>2, <2>1
  <2>4. CASE i > j + l
    <3>1. From(i) = i - l /\ i - l \in j + 1 .. n /\ (i - l) + l = i
          /\ i - l \in 1 .. n
      BY <2>1, <2>4, <1>0, <1>1
    <3>2. ch[i - l] = c2[i]  BY <3>1, <1>0, <1>1
    <3>3. i - l \in AnswersIn(ch)  BY <3>1, <3>2, <2>1, <1>0, <1>1 DEF AnswersIn
    <3> QED  BY <3>1, <3>2, <3>3, <2>1, <2>4
  <2> QED  BY <2>1, <2>2, <2>3, <2>4, <1>0, <1>1
<1>3. \A a \in AnswersIn(ch) : To(a) \in AnswersIn(c2) /\ c2[To(a)] = ch[a]
  <2> SUFFICES ASSUME NEW a \in AnswersIn(ch)
               PROVE  To(a) \in AnswersIn(c2) /\ c2[To(a)] = ch[a]
    OBVIOUS
  <2>1. a \in 1 .. n /\ ch[a].kind = "result"  BY <1>1 DEF AnswersIn
  <2>2. CASE a <= j
    BY <2>1, <2>2, <1>0, <1>1 DEF AnswersIn
  <2>3. CASE a > j
    <3>1. To(a) = a + l /\ a \in j + 1 .. n /\ a + l \in 1 .. n + l  BY <2>1, <2>3, <1>0, <1>1
    <3> QED  BY <3>1, <2>1, <1>0, <1>1 DEF AnswersIn
  <2> QED  BY <2>1, <2>2, <2>3, <1>0, <1>1
<1>4. \A i, k \in AnswersIn(c2) : i < k => From(i) < From(k)
  <2> SUFFICES ASSUME NEW i \in AnswersIn(c2), NEW k \in AnswersIn(c2), i < k
               PROVE  From(i) < From(k)
    OBVIOUS
  <2>1. i \in Nat /\ (i <= j \/ i > j + l) /\ k \in Nat /\ (k <= j \/ k > j + l)
    BY <1>2
  <2> QED  BY <2>1, <1>0, <1>1
<1> HIDE DEF From, To
<1>5. SameAnswers(ch, c2)  BY <1>2, <1>3, <1>4 DEF SameAnswers
<1> QED  BY <1>5 DEF c2

\* The lane submits a write.
LEMMA PipeSubmit ==
    ASSUME NEW ch \in Seq(InputMessages), NEW wc \in Seq(Writes), NEW cf \in Seq(Writes),
           NEW R \in SUBSET Writes, NEW nt \in Nat, NEW v \in Value,
           Pipe(ch, wc, cf, R, nt)
    PROVE  Pipe(ch, wc, Append(cf, [token |-> nt, value |-> v]),
                R \cup {[token |-> nt, value |-> v]}, nt + 1)
<1> DEFINE w == [token |-> nt, value |-> v]
           c2 == Append(cf, w)
           n == Len(cf)
<1>0. w \in Writes /\ w.token = nt  BY DEF Writes
<1>1. /\ DOMAIN cf = 1 .. n /\ DOMAIN c2 = 1 .. n + 1
      /\ \A i \in 1 .. n : c2[i] = cf[i]
      /\ c2[n + 1] = w /\ n \in Nat
  <2> HIDE DEF w
  <2> QED  BY <1>0, AppendFacts
<1>2. \A t \in R : t.token \in Nat /\ t.token < nt  BY DEF Pipe, Fresh, Writes
<1>3. \A i \in AnswersIn(ch) : ch[i].token < nt  BY <1>2 DEF Pipe, Covered
<1>4. \A i \in DOMAIN wc : wc[i].token < nt  BY <1>2 DEF Pipe, Covered
<1>5. \A i \in DOMAIN cf : cf[i].token < nt  BY <1>2 DEF Pipe, Covered
<1> HIDE DEF w, c2, n
<1>6. Covered(ch, wc, c2, R \cup {w})
  <2>1. \A t \in R \cup {w} : \/ \E i \in AnswersIn(ch) : ch[i].token = t.token
                              \/ \E i \in DOMAIN wc : wc[i] = t
                              \/ \E i \in DOMAIN c2 : c2[i] = t
    <3>1. \A i \in DOMAIN cf : i \in DOMAIN c2 /\ c2[i] = cf[i]  BY <1>1
    <3>2. n + 1 \in DOMAIN c2 /\ c2[n + 1] = w  BY <1>1
    <3> QED  BY <3>1, <3>2 DEF Pipe, Covered
  <2>2. \A i \in DOMAIN c2 : c2[i] \in R \cup {w}  BY <1>1 DEF Pipe, Covered
  <2>3. \A i \in AnswersIn(ch) : \E t \in R \cup {w} : t.token = ch[i].token
    BY DEF Pipe, Covered
  <2>4. \A i \in DOMAIN wc : wc[i] \in R \cup {w}  BY DEF Pipe, Covered
  <2> QED  BY <2>1, <2>2, <2>3, <2>4 DEF Covered
<1>7. InOrder(ch, wc, c2)
  <2>0. \A i \in DOMAIN c2 : \/ i = n + 1 /\ c2[i].token = nt
                             \/ i \in DOMAIN cf /\ c2[i] = cf[i]
    <3>1. \A i \in DOMAIN c2 : i = n + 1 \/ i \in DOMAIN cf  BY <1>1
    <3>2. \A i \in DOMAIN cf : c2[i] = cf[i]  BY <1>1
    <3>3. c2[n + 1].token = nt  BY <1>0, <1>1
    <3> QED  BY <3>1, <3>2, <3>3, Zenon
  <2>1. \A i, j \in DOMAIN c2 : i < j => c2[i].token < c2[j].token
    <3>1. \A j \in DOMAIN c2 : ~(n + 1 < j)  BY <1>1
    <3> QED  BY <3>1, <2>0, <1>5 DEF Pipe, InOrder
  <2>2. \A i \in AnswersIn(ch), j \in DOMAIN c2 : ch[i].token < c2[j].token
    BY <2>0, <1>3 DEF Pipe, InOrder
  <2>3. \A i \in DOMAIN wc, j \in DOMAIN c2 : wc[i].token < c2[j].token
    BY <2>0, <1>4 DEF Pipe, InOrder
  <2> QED  BY <2>1, <2>2, <2>3 DEF Pipe, InOrder
<1>8. Fresh(R \cup {w}, nt + 1)
  <2>1. \A t, u \in R \cup {w} : t.token = u.token => t = u
    BY <1>0, <1>2 DEF Pipe, Fresh
  <2>2. \A t \in R \cup {w} : t.token < nt + 1  BY <1>0, <1>2
  <2> QED  BY <2>1, <2>2 DEF Fresh
<1>9. Pipe(ch, wc, c2, R \cup {w}, nt + 1)  BY <1>6, <1>7, <1>8 DEF Pipe
<1> QED  BY <1>9 DEF w, c2

\* The input thread takes the mailbox.
LEMMA PipeTake ==
    ASSUME NEW ch, NEW cf, NEW R, NEW nt, Pipe(ch, <<>>, cf, R, nt)
    PROVE  Pipe(ch, cf, <<>>, R, nt)
<1>1. DOMAIN <<>> = {}  OBVIOUS
<1>2. Covered(ch, cf, <<>>, R)  BY <1>1 DEF Pipe, Covered
<1>3. InOrder(ch, cf, <<>>)  BY <1>1 DEF Pipe, InOrder
<1> QED  BY <1>2, <1>3 DEF Pipe

\* The first write of the wake-up is answered.
LEMMA PipeSend ==
    ASSUME NEW ch \in Seq(InputMessages), NEW wc \in Seq(Writes), NEW cf, NEW R, NEW nt,
           wc # <<>>, NEW m \in InputMessages, m.kind = "result", m.token = Head(wc).token,
           Pipe(ch, wc, cf, R, nt)
    PROVE  Pipe(Append(ch, m), Tail(wc), cf, R, nt)
<1> DEFINE c2 == Append(ch, m)
           n == Len(ch)
           w2 == Tail(wc)
           k == Len(wc)
<1>1. /\ DOMAIN ch = 1 .. n /\ DOMAIN c2 = 1 .. n + 1
      /\ \A i \in 1 .. n : c2[i] = ch[i]
      /\ c2[n + 1] = m /\ n \in Nat
  BY AppendFacts
<1>2. /\ Head(wc) = wc[1] /\ DOMAIN wc = 1 .. k /\ DOMAIN w2 = 1 .. k - 1
      /\ \A i \in 1 .. k - 1 : w2[i] = wc[i + 1]
      /\ k \in Nat /\ k >= 1
  BY TailFacts
<1> HIDE DEF c2, n, w2, k
<1>3. AnswersIn(c2) = AnswersIn(ch) \cup {n + 1}  BY <1>1 DEF AnswersIn
<1>4. \A i \in AnswersIn(ch) : i \in 1 .. n /\ c2[i] = ch[i]  BY <1>1 DEF AnswersIn
<1>5. \A i \in DOMAIN w2 : i + 1 \in DOMAIN wc /\ w2[i] = wc[i + 1] /\ 1 < i + 1
  BY <1>2
<1>6. \A a \in DOMAIN wc : a = 1 \/ (a - 1 \in DOMAIN w2 /\ w2[a - 1] = wc[a])
  <2> SUFFICES ASSUME NEW a \in DOMAIN wc, a # 1
               PROVE  a - 1 \in DOMAIN w2 /\ w2[a - 1] = wc[a]
    OBVIOUS
  <2>1. a - 1 \in 1 .. k - 1 /\ (a - 1) + 1 = a  BY <1>2
  <2> QED  BY <2>1, <1>2
<1>7. Covered(c2, w2, cf, R)
  <2>1. \A i \in AnswersIn(c2) : \E t \in R : t.token = c2[i].token
    <3>1. wc[1] \in R  BY <1>2 DEF Pipe, Covered
    <3> QED  BY <3>1, <1>1, <1>2, <1>3, <1>4 DEF Pipe, Covered
  <2>2. \A i \in DOMAIN w2 : w2[i] \in R  BY <1>5 DEF Pipe, Covered
  <2>3. \A t \in R : \/ \E i \in AnswersIn(c2) : c2[i].token = t.token
                     \/ \E i \in DOMAIN w2 : w2[i] = t
                     \/ \E i \in DOMAIN cf : cf[i] = t
    <3> SUFFICES ASSUME NEW t \in R
                 PROVE  \/ \E i \in AnswersIn(c2) : c2[i].token = t.token
                        \/ \E i \in DOMAIN w2 : w2[i] = t
                        \/ \E i \in DOMAIN cf : cf[i] = t
      OBVIOUS
    <3>1. CASE \E i \in AnswersIn(ch) : ch[i].token = t.token  BY <3>1, <1>3, <1>4
    <3>2. CASE \E i \in DOMAIN wc : wc[i] = t
      <4> PICK a \in DOMAIN wc : wc[a] = t  BY <3>2
      <4>1. CASE a = 1  BY <4>1, <1>1, <1>2, <1>3
      <4>2. CASE a # 1  BY <4>2, <1>6
      <4> QED  BY <4>1, <4>2
    <3>3. CASE \E i \in DOMAIN cf : cf[i] = t  BY <3>3
    <3> QED  BY <3>1, <3>2, <3>3 DEF Pipe, Covered
  <2> QED  BY <2>1, <2>2, <2>3 DEF Pipe, Covered
<1>8. InOrder(c2, w2, cf)
  <2>0. 1 \in DOMAIN wc  BY <1>2
  <2>1. \A i, j \in AnswersIn(c2) : i < j => c2[i].token < c2[j].token
    <3>1. \A i \in AnswersIn(ch) : ch[i].token < m.token  BY <1>2, <2>0 DEF Pipe, InOrder
    <3>2. \A j \in AnswersIn(c2) : ~(n + 1 < j)  BY <1>1 DEF AnswersIn
    <3> QED  BY <3>1, <3>2, <1>1, <1>3, <1>4 DEF Pipe, InOrder
  <2>2. \A i, j \in DOMAIN w2 : i < j => w2[i].token < w2[j].token
    <3>1. \A i, j \in DOMAIN w2 : i < j => i + 1 < j + 1  BY <1>2
    <3> QED  BY <3>1, <1>5 DEF Pipe, InOrder
  <2>3. \A i \in AnswersIn(c2), j \in DOMAIN w2 : c2[i].token < w2[j].token
    BY <2>0, <1>1, <1>2, <1>3, <1>4, <1>5 DEF Pipe, InOrder
  <2>4. \A i \in AnswersIn(c2), j \in DOMAIN cf : c2[i].token < cf[j].token
    BY <2>0, <1>1, <1>2, <1>3, <1>4 DEF Pipe, InOrder
  <2>5. \A i \in DOMAIN w2, j \in DOMAIN cf : w2[i].token < cf[j].token
    BY <1>5 DEF Pipe, InOrder
  <2> QED  BY <2>1, <2>2, <2>3, <2>4, <2>5 DEF Pipe, InOrder
<1>9. Pipe(c2, w2, cf, R, nt)  BY <1>7, <1>8 DEF Pipe
<1> QED  BY <1>9 DEF c2, w2

\* The core receives the first result, and forgets its write.
Forget(R, tk) == {t \in R : t.token # tk}

LEMMA PipeReceive ==
    ASSUME NEW ch \in Seq(InputMessages), NEW wc, NEW cf, NEW R \in SUBSET Writes, NEW nt,
           ch # <<>>, Head(ch).kind = "result",
           Pipe(ch, wc, cf, R, nt)
    PROVE  /\ Pipe(Tail(ch), wc, cf, Forget(R, Head(ch).token), nt)
           /\ \A i \in AnswersIn(Tail(ch)) : Tail(ch)[i].token # Head(ch).token
<1> DEFINE c2 == Tail(ch)
           n == Len(ch)
           tk == Head(ch).token
           R2 == Forget(R, tk)
<1>1. /\ Head(ch) = ch[1] /\ DOMAIN ch = 1 .. n /\ DOMAIN c2 = 1 .. n - 1
      /\ \A i \in 1 .. n - 1 : c2[i] = ch[i + 1]
      /\ n \in Nat /\ n >= 1
  BY TailFacts
<1>0. Head(ch) \in InputMessages  BY TailFacts
<1>2. tk \in Nat /\ 1 \in AnswersIn(ch) /\ ch[1].token = tk
  BY <1>0, <1>1, MessageProper DEF Proper, AnswersIn
<1> HIDE DEF c2, n, tk, R2
<1>3. \A i \in AnswersIn(c2) : i + 1 \in AnswersIn(ch) /\ ch[i + 1] = c2[i] /\ 1 < i + 1
  BY <1>1 DEF AnswersIn
<1>4. \A a \in AnswersIn(ch) : a = 1 \/ (a - 1 \in AnswersIn(c2) /\ c2[a - 1] = ch[a])
  <2> SUFFICES ASSUME NEW a \in AnswersIn(ch), a # 1
               PROVE  a - 1 \in AnswersIn(c2) /\ c2[a - 1] = ch[a]
    OBVIOUS
  <2>1. a \in 1 .. n /\ ch[a].kind = "result"  BY <1>1 DEF AnswersIn
  <2>2. a - 1 \in 1 .. n - 1 /\ (a - 1) + 1 = a  BY <2>1, <1>1
  <2> QED  BY <2>1, <2>2, <1>1 DEF AnswersIn
<1>5. \A t \in R : t.token \in Nat  BY DEF Writes
<1>6. \A i \in AnswersIn(c2) : c2[i].token # tk
  <2> SUFFICES ASSUME NEW i \in AnswersIn(c2) PROVE c2[i].token # tk
    OBVIOUS
  <2>1. tk < c2[i].token  BY <1>2, <1>3 DEF Pipe, InOrder
  <2>2. PICK t \in R : t.token = c2[i].token  BY <1>3 DEF Pipe, Covered
  <2> QED  BY <2>1, <2>2, <1>2, <1>5
<1>7. \A i \in DOMAIN wc : wc[i].token # tk
  <2> SUFFICES ASSUME NEW i \in DOMAIN wc PROVE wc[i].token # tk
    OBVIOUS
  <2>1. tk < wc[i].token /\ wc[i] \in R  BY <1>2 DEF Pipe, InOrder, Covered
  <2> QED  BY <2>1, <1>2, <1>5
<1>8. \A i \in DOMAIN cf : cf[i].token # tk
  <2> SUFFICES ASSUME NEW i \in DOMAIN cf PROVE cf[i].token # tk
    OBVIOUS
  <2>1. tk < cf[i].token /\ cf[i] \in R  BY <1>2 DEF Pipe, InOrder, Covered
  <2> QED  BY <2>1, <1>2, <1>5
<1>9. Covered(c2, wc, cf, R2)
  <2>1. \A i \in AnswersIn(c2) : \E t \in R2 : t.token = c2[i].token
    BY <1>3, <1>6 DEF Pipe, Covered, R2, Forget
  <2>2. \A i \in DOMAIN wc : wc[i] \in R2  BY <1>7 DEF Pipe, Covered, R2, Forget
  <2>3. \A i \in DOMAIN cf : cf[i] \in R2  BY <1>8 DEF Pipe, Covered, R2, Forget
  <2>4. \A t \in R2 : \/ \E i \in AnswersIn(c2) : c2[i].token = t.token
                      \/ \E i \in DOMAIN wc : wc[i] = t
                      \/ \E i \in DOMAIN cf : cf[i] = t
    BY <1>2, <1>4 DEF Pipe, Covered, R2, Forget
  <2> QED  BY <2>1, <2>2, <2>3, <2>4 DEF Covered
<1>10. InOrder(c2, wc, cf)
  <2>1. \A i, j \in AnswersIn(c2) : i < j => c2[i].token < c2[j].token
    <3>1. \A i, j \in AnswersIn(c2) : i < j => i + 1 < j + 1  BY <1>1 DEF AnswersIn
    <3> QED  BY <3>1, <1>3 DEF Pipe, InOrder
  <2>2. \A i \in AnswersIn(c2), j \in DOMAIN wc : c2[i].token < wc[j].token
    BY <1>3 DEF Pipe, InOrder
  <2>3. \A i \in AnswersIn(c2), j \in DOMAIN cf : c2[i].token < cf[j].token
    BY <1>3 DEF Pipe, InOrder
  <2> QED  BY <2>1, <2>2, <2>3 DEF Pipe, InOrder
<1>11. Fresh(R2, nt)  BY DEF Pipe, Fresh, R2, Forget
<1>12. Pipe(c2, wc, cf, R2, nt)  BY <1>9, <1>10, <1>11 DEF Pipe
<1> QED  BY <1>6, <1>12 DEF c2, R2, tk

-----------------------------------------------------------------------------
(* What the channel still tells of the device.                             *)

\* Messages after which the core takes over a value.
Affects(m) == m.kind = "resumed" \/ (m.kind = "result" /\ m.ok)

\* The value it takes over then is v.
Tells(m, R, v) ==
    /\ m.kind = "resumed" => m.value = v
    /\ m.kind = "result" => \A t \in R : t.token = m.token => t.value = v

LastAffecting(ch, i) ==
    Affects(ch[i]) /\ \A j \in DOMAIN ch : i < j => ~Affects(ch[j])

\* The last message that affects the confirmed value tells the device's; if
\* there is none, the confirmed value is the device's.
Told(ch, R, cfg, dev) ==
    /\ (\A i \in DOMAIN ch : ~Affects(ch[i])) => cfg = dev
    /\ \A i \in DOMAIN ch : LastAffecting(ch, i) => Tells(ch[i], R, dev)

\* The channels ch and ch2 affect the value alike.
SameEffect(ch, ch2) ==
    /\ \A a \in DOMAIN ch : Affects(ch[a]) => \E i \in DOMAIN ch2 : ch2[i] = ch[a]
    /\ \A i \in DOMAIN ch2 : LastAffecting(ch2, i) =>
          \E a \in DOMAIN ch : ch[a] = ch2[i] /\ LastAffecting(ch, a)

LEMMA ToldSame ==
    ASSUME NEW ch, NEW ch2, NEW R, NEW cfg, NEW dev,
           Told(ch, R, cfg, dev), SameEffect(ch, ch2)
    PROVE  Told(ch2, R, cfg, dev)
<1>1. (\A i \in DOMAIN ch2 : ~Affects(ch2[i])) => \A a \in DOMAIN ch : ~Affects(ch[a])
  BY DEF SameEffect
<1>2. \A i \in DOMAIN ch2 : LastAffecting(ch2, i) => Tells(ch2[i], R, dev)
  BY DEF SameEffect, Told
<1> QED  BY <1>1, <1>2 DEF Told

LEMMA EffectDropped ==
    ASSUME NEW S, NEW ch \in Seq(S), ch # <<>>, ~Affects(Head(ch))
    PROVE  SameEffect(ch, Tail(ch))
<1> DEFINE c2 == Tail(ch)
           n == Len(ch)
<1>1. /\ Head(ch) = ch[1] /\ DOMAIN ch = 1 .. n /\ DOMAIN c2 = 1 .. n - 1
      /\ \A i \in 1 .. n - 1 : c2[i] = ch[i + 1]
      /\ n \in Nat /\ n >= 1
  BY TailFacts
<1> HIDE DEF c2, n
<1>2. \A a \in DOMAIN ch : a = 1 \/ (a - 1 \in DOMAIN c2 /\ c2[a - 1] = ch[a])
  <2> SUFFICES ASSUME NEW a \in DOMAIN ch, a # 1
               PROVE  a - 1 \in DOMAIN c2 /\ c2[a - 1] = ch[a]
    OBVIOUS
  <2>1. a - 1 \in 1 .. n - 1 /\ (a - 1) + 1 = a  BY <1>1
  <2> QED  BY <2>1, <1>1
<1>3. \A i \in DOMAIN c2 : i + 1 \in DOMAIN ch /\ c2[i] = ch[i + 1]  BY <1>1
<1>4. \A i \in DOMAIN c2 : LastAffecting(c2, i) => LastAffecting(ch, i + 1)
  <2> SUFFICES ASSUME NEW i \in DOMAIN c2, LastAffecting(c2, i),
                      NEW a \in DOMAIN ch, i + 1 < a
               PROVE  ~Affects(ch[a])
    BY <1>3 DEF LastAffecting
  <2>1. a # 1 /\ i < a - 1  BY <1>1
  <2> QED  BY <2>1, <1>2 DEF LastAffecting
<1>5. SameEffect(ch, c2)  BY <1>1, <1>2, <1>3, <1>4 DEF SameEffect
<1> QED  BY <1>5 DEF c2

LEMMA EffectAppended ==
    ASSUME NEW S, NEW ch \in Seq(S), NEW m \in S, ~Affects(m)
    PROVE  SameEffect(ch, Append(ch, m))
<1> DEFINE c2 == Append(ch, m)
           n == Len(ch)
<1>1. /\ DOMAIN ch = 1 .. n /\ DOMAIN c2 = 1 .. n + 1
      /\ \A i \in 1 .. n : c2[i] = ch[i]
      /\ c2[n + 1] = m /\ n \in Nat
  BY AppendFacts
<1> HIDE DEF c2, n
<1>2. \A a \in DOMAIN ch : a \in DOMAIN c2 /\ c2[a] = ch[a]  BY <1>1
<1>3. \A i \in DOMAIN c2 : Affects(c2[i]) => i \in DOMAIN ch  BY <1>1
<1>4. \A i \in DOMAIN c2 : LastAffecting(c2, i) => i \in DOMAIN ch /\ LastAffecting(ch, i)
  BY <1>2, <1>3 DEF LastAffecting
<1>5. SameEffect(ch, c2)  BY <1>2, <1>4 DEF SameEffect
<1> QED  BY <1>5 DEF c2

LEMMA EffectSpliced ==
    ASSUME NEW S, NEW ch \in Seq(S), NEW d \in Seq(S), NEW j \in 0 .. Len(ch),
           \A i \in DOMAIN d : ~Affects(d[i])
    PROVE  SameEffect(ch, Spliced(ch, d, j))
<1> DEFINE c2 == Spliced(ch, d, j)
           n == Len(ch)
           l == Len(d)
           From(i) == IF i <= j THEN i ELSE i - l
           To(a) == IF a <= j THEN a ELSE a + l
<1>1. /\ DOMAIN c2 = 1 .. n + l
      /\ \A i \in 1 .. j : c2[i] = ch[i]
      /\ \A i \in j + 1 .. j + l : c2[i] = d[i - j]
      /\ \A i \in j + 1 .. n : c2[i + l] = ch[i]
      /\ DOMAIN ch = 1 .. n /\ DOMAIN d = 1 .. l
      /\ n \in Nat /\ l \in Nat
  <2>1. SplicedSo(c2, ch, d, j)  BY SpliceFacts, Zenon
  <2> HIDE DEF From, To, c2
  <2> QED  BY <2>1, Zenon DEF SplicedSo
<1>0. j \in 0 .. n  OBVIOUS
<1> HIDE DEF c2, n, l
<1>2. \A i \in DOMAIN c2 : Affects(c2[i]) => /\ From(i) \in DOMAIN ch /\ ch[From(i)] = c2[i]
                                             /\ i \in Nat /\ (i <= j \/ i > j + l)
  <2> SUFFICES ASSUME NEW i \in DOMAIN c2, Affects(c2[i])
               PROVE  From(i) \in DOMAIN ch /\ ch[From(i)] = c2[i]
                      /\ i \in Nat /\ (i <= j \/ i > j + l)
    OBVIOUS
  <2>1. i \in 1 .. n + l  BY <1>1
  <2>2. CASE i <= j
    BY <2>1, <2>2, <1>0, <1>1
  <2>3. CASE i > j /\ i <= j + l
    <3>1. i \in j + 1 .. j + l /\ i - j \in 1 .. l  BY <2>1, <2>3, <1>0, <1>1
    <3>2. c2[i] = d[i - j] /\ i - j \in DOMAIN d  BY <3>1, <1>0, <1>1
    <3> QED  BY <3>2, <2>1
  <2>4. CASE i > j + l
    <3>1. From(i) = i - l /\ i - l \in j + 1 .. n /\ (i - l) + l = i
          /\ i - l \in 1 .. n
      BY <2>1, <2>4, <1>0, <1>1
    <3>2. ch[i - l] = c2[i]  BY <3>1, <1>0, <1>1
    <3> QED  BY <3>1, <3>2, <2>1, <2>4, <1>1
  <2> QED  BY <2>1, <2>2, <2>3, <2>4, <1>0, <1>1
<1>3. \A a \in DOMAIN ch : To(a) \in DOMAIN c2 /\ c2[To(a)] = ch[a]
  <2> SUFFICES ASSUME NEW a \in DOMAIN ch
               PROVE  To(a) \in DOMAIN c2 /\ c2[To(a)] = ch[a]
    OBVIOUS
  <2>1. a \in 1 .. n  BY <1>1
  <2>2. CASE a <= j
    BY <2>1, <2>2, <1>0, <1>1
  <2>3. CASE a > j
    <3>1. To(a) = a + l /\ a \in j + 1 .. n /\ a + l \in 1 .. n + l  BY <2>1, <2>3, <1>0, <1>1
    <3> QED  BY <3>1, <2>1, <1>1
  <2> QED  BY <2>1, <2>2, <2>3, <1>0, <1>1
<1>4. \A i \in DOMAIN c2 : LastAffecting(c2, i) => LastAffecting(ch, From(i))
  <2> SUFFICES ASSUME NEW i \in DOMAIN c2, LastAffecting(c2, i),
                      NEW a \in DOMAIN ch, From(i) < a
               PROVE  ~Affects(ch[a])
    BY <1>2 DEF LastAffecting
  <2>1. Affects(c2[i])  BY DEF LastAffecting
  <2>2. i \in Nat /\ (i <= j \/ i > j + l)  BY <2>1, <1>2
  <2>3. a \in 1 .. n  BY <1>1
  <2>4. i < To(a)  BY <2>2, <2>3, <1>0, <1>1
  <2> QED  BY <2>4, <1>3 DEF LastAffecting
<1> HIDE DEF From, To
<1>6. \A i \in DOMAIN c2 : LastAffecting(c2, i) => Affects(c2[i])  BY DEF LastAffecting
<1>5. SameEffect(ch, c2)  BY <1>2, <1>3, <1>4, <1>6 DEF SameEffect
<1> QED  BY <1>5 DEF c2

\* A message that tells the device's value comes last.
LEMMA ToldAppended ==
    ASSUME NEW S, NEW ch \in Seq(S), NEW m \in S, NEW R, NEW cfg, NEW dev,
           Affects(m), Tells(m, R, dev)
    PROVE  Told(Append(ch, m), R, cfg, dev)
<1> DEFINE c2 == Append(ch, m)
           n == Len(ch)
<1>1. /\ DOMAIN c2 = 1 .. n + 1 /\ c2[n + 1] = m /\ n \in Nat
  BY AppendFacts
<1> HIDE DEF c2, n
<1>2. n + 1 \in DOMAIN c2 /\ Affects(c2[n + 1])  BY <1>1
<1>3. \A i \in DOMAIN c2 : LastAffecting(c2, i) => i = n + 1
  <2> SUFFICES ASSUME NEW i \in DOMAIN c2, i # n + 1 PROVE ~LastAffecting(c2, i)
    OBVIOUS
  <2>1. i < n + 1  BY <1>1
  <2> QED  BY <2>1, <1>2 DEF LastAffecting
<1>4. Told(c2, R, cfg, dev)  BY <1>1, <1>2, <1>3 DEF Told
<1> QED  BY <1>4 DEF c2

\* The core takes over the value of the first message.
LEMMA ToldReceived ==
    ASSUME NEW S, NEW ch \in Seq(S), ch # <<>>, NEW R, NEW cfg, NEW cfg2, NEW dev,
           Told(ch, R, cfg, dev), Affects(Head(ch)),
           Tells(Head(ch), R, dev) => cfg2 = dev
    PROVE  Told(Tail(ch), R, cfg2, dev)
<1> DEFINE c2 == Tail(ch)
           n == Len(ch)
<1>1. /\ Head(ch) = ch[1] /\ DOMAIN ch = 1 .. n /\ DOMAIN c2 = 1 .. n - 1
      /\ \A i \in 1 .. n - 1 : c2[i] = ch[i + 1]
      /\ n \in Nat /\ n >= 1
  BY TailFacts
<1> HIDE DEF c2, n
<1>2. \A a \in DOMAIN ch : a = 1 \/ (a - 1 \in DOMAIN c2 /\ c2[a - 1] = ch[a])
  <2> SUFFICES ASSUME NEW a \in DOMAIN ch, a # 1
               PROVE  a - 1 \in DOMAIN c2 /\ c2[a - 1] = ch[a]
    OBVIOUS
  <2>1. a - 1 \in 1 .. n - 1 /\ (a - 1) + 1 = a  BY <1>1
  <2> QED  BY <2>1, <1>1
<1>3. \A i \in DOMAIN c2 : i + 1 \in DOMAIN ch /\ c2[i] = ch[i + 1]  BY <1>1
<1>4. \A i \in DOMAIN c2 : LastAffecting(c2, i) => LastAffecting(ch, i + 1)
  <2> SUFFICES ASSUME NEW i \in DOMAIN c2, LastAffecting(c2, i),
                      NEW a \in DOMAIN ch, i + 1 < a
               PROVE  ~Affects(ch[a])
    BY <1>3 DEF LastAffecting
  <2>1. a # 1 /\ i < a - 1  BY <1>1
  <2> QED  BY <2>1, <1>2 DEF LastAffecting
<1>5. \A i \in DOMAIN c2 : LastAffecting(c2, i) => Tells(c2[i], R, dev)
  BY <1>3, <1>4 DEF Told
<1>6. ASSUME \A i \in DOMAIN c2 : ~Affects(c2[i]) PROVE cfg2 = dev
  <2>1. 1 \in DOMAIN ch  BY <1>1
  <2>2. \A a \in DOMAIN ch : 1 < a => ~Affects(ch[a])
    <3>1. \A a \in DOMAIN ch : 1 < a => a # 1  BY <1>1
    <3> QED  BY <3>1, <1>2, <1>6
  <2>3. LastAffecting(ch, 1)  BY <2>2, <1>1 DEF LastAffecting
  <2> QED  BY <2>1, <2>3, <1>1 DEF Told
<1>7. Told(c2, R, cfg2, dev)  BY <1>5, <1>6 DEF Told
<1> QED  BY <1>7 DEF c2

\* Other writes are remembered, of tokens that are not in the channel.
LEMMA ToldKnown ==
    ASSUME NEW ch, NEW R, NEW R2, NEW cfg, NEW dev, Told(ch, R, cfg, dev),
           \A i \in AnswersIn(ch) : \A t \in R2 : t.token = ch[i].token => t \in R
    PROVE  Told(ch, R2, cfg, dev)
<1>1. \A i \in DOMAIN ch : Tells(ch[i], R, dev) => Tells(ch[i], R2, dev)
  <2> SUFFICES ASSUME NEW i \in DOMAIN ch, Tells(ch[i], R, dev)
               PROVE  Tells(ch[i], R2, dev)
    OBVIOUS
  <2>1. CASE ch[i].kind = "result"
    <3>1. i \in AnswersIn(ch)  BY <2>1 DEF AnswersIn
    <3> QED  BY <2>1, <3>1 DEF Tells
  <2>2. CASE ch[i].kind # "result"  BY <2>2 DEF Tells
  <2> QED  BY <2>1, <2>2
<1> QED  BY <1>1 DEF Told

-----------------------------------------------------------------------------
(* What the channel still tells of the device's being enabled.             *)

Switches(m) == m.kind = "suspended" \/ m.kind = "resumed"

LastSwitch(ch, i) ==
    Switches(ch[i]) /\ \A j \in DOMAIN ch : i < j => ~Switches(ch[j])

\* The last message that switches the device on or off switches it on; if
\* there is none it is enabled.
Live(ch, en) ==
    /\ (\A i \in DOMAIN ch : ~Switches(ch[i])) => en
    /\ \A i \in DOMAIN ch : LastSwitch(ch, i) => ch[i].kind = "resumed"

LEMMA LiveReceived ==
    ASSUME NEW S, NEW ch \in Seq(S), ch # <<>>, NEW en, NEW en2, Live(ch, en),
           ~Switches(Head(ch)) /\ en => en2,
           Head(ch).kind = "resumed" => en2
    PROVE  Live(Tail(ch), en2)
<1> DEFINE c2 == Tail(ch)
           n == Len(ch)
<1>1. /\ Head(ch) = ch[1] /\ DOMAIN ch = 1 .. n /\ DOMAIN c2 = 1 .. n - 1
      /\ \A i \in 1 .. n - 1 : c2[i] = ch[i + 1]
      /\ n \in Nat /\ n >= 1
  BY TailFacts
<1> HIDE DEF c2, n
<1>2. \A a \in DOMAIN ch : a = 1 \/ (a - 1 \in DOMAIN c2 /\ c2[a - 1] = ch[a])
  <2> SUFFICES ASSUME NEW a \in DOMAIN ch, a # 1
               PROVE  a - 1 \in DOMAIN c2 /\ c2[a - 1] = ch[a]
    OBVIOUS
  <2>1. a - 1 \in 1 .. n - 1 /\ (a - 1) + 1 = a  BY <1>1
  <2> QED  BY <2>1, <1>1
<1>3. \A i \in DOMAIN c2 : i + 1 \in DOMAIN ch /\ c2[i] = ch[i + 1]  BY <1>1
<1>4. \A i \in DOMAIN c2 : LastSwitch(c2, i) => LastSwitch(ch, i + 1)
  <2> SUFFICES ASSUME NEW i \in DOMAIN c2, LastSwitch(c2, i),
                      NEW a \in DOMAIN ch, i + 1 < a
               PROVE  ~Switches(ch[a])
    BY <1>3 DEF LastSwitch
  <2>1. a # 1 /\ i < a - 1  BY <1>1
  <2> QED  BY <2>1, <1>2 DEF LastSwitch
<1>5. \A i \in DOMAIN c2 : LastSwitch(c2, i) => c2[i].kind = "resumed"
  BY <1>3, <1>4 DEF Live
<1>6. ASSUME \A i \in DOMAIN c2 : ~Switches(c2[i]) PROVE en2
  <2>1. 1 \in DOMAIN ch  BY <1>1
  <2>2. \A a \in DOMAIN ch : 1 < a => ~Switches(ch[a])
    <3>1. \A a \in DOMAIN ch : 1 < a => a # 1  BY <1>1
    <3> QED  BY <3>1, <1>2, <1>6
  <2>3. CASE Switches(ch[1])
    <3>1. LastSwitch(ch, 1)  BY <2>2, <2>3 DEF LastSwitch
    <3> QED  BY <2>1, <3>1, <1>1 DEF Live
  <2>4. CASE ~Switches(ch[1])
    <3>1. \A a \in DOMAIN ch : ~Switches(ch[a])  BY <1>2, <1>6, <2>4
    <3> QED  BY <3>1, <2>4, <1>1 DEF Live
  <2> QED  BY <2>3, <2>4
<1>7. Live(c2, en2)  BY <1>5, <1>6 DEF Live
<1> QED  BY <1>7 DEF c2

LEMMA LiveAppended ==
    ASSUME NEW S, NEW ch \in Seq(S), NEW m \in S, NEW en, Live(ch, en), ~Switches(m)
    PROVE  Live(Append(ch, m), en)
<1> DEFINE c2 == Append(ch, m)
           n == Len(ch)
<1>1. /\ DOMAIN ch = 1 .. n /\ DOMAIN c2 = 1 .. n + 1
      /\ \A i \in 1 .. n : c2[i] = ch[i]
      /\ c2[n + 1] = m /\ n \in Nat
  BY AppendFacts
<1> HIDE DEF c2, n
<1>2. \A a \in DOMAIN ch : a \in DOMAIN c2 /\ c2[a] = ch[a]  BY <1>1
<1>3. \A i \in DOMAIN c2 : Switches(c2[i]) => i \in DOMAIN ch  BY <1>1
<1>4. \A i \in DOMAIN c2 : LastSwitch(c2, i) => i \in DOMAIN ch /\ LastSwitch(ch, i)
  BY <1>2, <1>3 DEF LastSwitch
<1>5. (\A i \in DOMAIN c2 : ~Switches(c2[i])) => \A a \in DOMAIN ch : ~Switches(ch[a])
  BY <1>2
<1>6. Live(c2, en)  BY <1>2, <1>4, <1>5 DEF Live
<1> QED  BY <1>6 DEF c2

LEMMA LiveResumed ==
    ASSUME NEW S, NEW ch \in Seq(S), NEW m \in S, NEW en, m.kind = "resumed"
    PROVE  Live(Append(ch, m), en)
<1> DEFINE c2 == Append(ch, m)
           n == Len(ch)
<1>1. DOMAIN c2 = 1 .. n + 1 /\ c2[n + 1] = m /\ n \in Nat
  BY AppendFacts
<1> HIDE DEF c2, n
<1>2. n + 1 \in DOMAIN c2 /\ Switches(c2[n + 1])  BY <1>1 DEF Switches
<1>3. \A i \in DOMAIN c2 : LastSwitch(c2, i) => i = n + 1
  <2> SUFFICES ASSUME NEW i \in DOMAIN c2, i # n + 1 PROVE ~LastSwitch(c2, i)
    OBVIOUS
  <2>1. i < n + 1  BY <1>1
  <2> QED  BY <2>1, <1>2 DEF LastSwitch
<1>4. Live(c2, en)  BY <1>1, <1>2, <1>3 DEF Live
<1> QED  BY <1>4 DEF c2

-----------------------------------------------------------------------------
(* The queue of requests.                                                  *)

Requests == [client : Client, value : Value \cup {Bad}]

\* At most one request of each client is queued.
OnePer(q) == \A i, j \in DOMAIN q : q[i].client = q[j].client => i = j

\* retain removes the one request of c and closes the gap.
LEMMA WithoutOne ==
    ASSUME NEW q \in Seq(Requests), NEW c, OnePer(q), NEW k \in DOMAIN q, q[k].client = c
    PROVE  Without(q, c) =
              [n \in 1 .. Len(q) - 1 |-> IF n < k THEN q[n] ELSE q[n + 1]]
<1> DEFINE l == Len(q)
           kept == {i \in DOMAIN q : q[i].client # c}
           Rank(i) == Cardinality({j \in kept : j <= i})
           At(n) == IF n < k THEN n ELSE n + 1
<1>1. l \in Nat /\ DOMAIN q = 1 .. l /\ k \in 1 .. l  OBVIOUS
<1>2. kept = (1 .. l) \ {k}  BY <1>1 DEF OnePer
<1> HIDE DEF l, kept
<1>3. IsFiniteSet(1 .. l) /\ Cardinality(1 .. l) = l  BY <1>1, FS_Interval
<1>4. Cardinality(kept) = l - 1  BY <1>1, <1>2, <1>3, FS_RemoveElement
<1>5. ASSUME NEW i \in kept PROVE Rank(i) = IF i < k THEN i ELSE i - 1
  <2>1. i \in 1 .. l /\ i # k  BY <1>2
  <2>2. IsFiniteSet(1 .. i) /\ Cardinality(1 .. i) = i  BY <1>1, <2>1, FS_Interval
  <2>3. CASE i < k
    <3>1. {j \in kept : j <= i} = 1 .. i  BY <2>1, <2>3, <1>1, <1>2
    <3> QED  BY <3>1, <2>2, <2>3
  <2>4. CASE ~(i < k)
    <3>1. {j \in kept : j <= i} = (1 .. i) \ {k}  BY <2>1, <2>4, <1>1, <1>2
    <3>2. k \in 1 .. i  BY <2>1, <2>4, <1>1
    <3>3. Cardinality((1 .. i) \ {k}) = i - 1  BY <3>2, <2>2, FS_RemoveElement
    <3> QED  BY <3>1, <3>3, <2>4
  <2> QED  BY <2>3, <2>4
<1> HIDE DEF Rank
<1>6. ASSUME NEW n \in 1 .. l - 1 PROVE (CHOOSE i \in kept : Rank(i) = n) = At(n)
  <2>1. At(n) \in kept /\ n \in Nat  BY <1>1, <1>2
  <2>2. Rank(At(n)) = n
    <3>1. Rank(At(n)) = IF At(n) < k THEN At(n) ELSE At(n) - 1  BY <2>1, <1>5
    <3> QED  BY <3>1, <1>1, <2>1
  <2>3. \A i \in kept : Rank(i) = n => i = At(n)
    <3> SUFFICES ASSUME NEW i \in kept, Rank(i) = n PROVE i = At(n)
      OBVIOUS
    <3>1. n = IF i < k THEN i ELSE i - 1  BY <1>5
    <3>2. i \in 1 .. l /\ i # k  BY <1>2
    <3> QED  BY <3>1, <3>2, <1>1
  <2> HIDE DEF At
  <2> QED  BY <2>1, <2>2, <2>3
<1>7. Without(q, c) = [n \in 1 .. l - 1 |-> q[CHOOSE i \in kept : Rank(i) = n]]
  BY <1>4 DEF Without, kept, Rank
<1>8. Without(q, c) = [n \in 1 .. l - 1 |-> q[At(n)]]
  <2> HIDE DEF At
  <2> QED  BY <1>6, <1>7
<1>9. \A n \in 1 .. l - 1 : q[At(n)] = IF n < k THEN q[n] ELSE q[n + 1]  OBVIOUS
<1>10. Without(q, c) = [n \in 1 .. l - 1 |-> IF n < k THEN q[n] ELSE q[n + 1]]
  <2> HIDE DEF At
  <2> QED  BY <1>8, <1>9
<1> QED  BY <1>10 DEF l

LEMMA WithoutNone ==
    ASSUME NEW q \in Seq(Requests), NEW c, \A i \in DOMAIN q : q[i].client # c
    PROVE  Without(q, c) = q
<1> DEFINE l == Len(q)
           kept == {i \in DOMAIN q : q[i].client # c}
           Rank(i) == Cardinality({j \in kept : j <= i})
<1>1. l \in Nat /\ DOMAIN q = 1 .. l /\ q = [i \in 1 .. l |-> q[i]]  OBVIOUS
<1>2. kept = 1 .. l  BY <1>1
<1> HIDE DEF l, kept
<1>30. 1 \in Int /\ l \in Int  BY <1>1
<1>31. Cardinality(1 .. l) = IF 1 > l THEN 0 ELSE l - 1 + 1  BY <1>30, FS_Interval, Zenon
<1>3. Cardinality(kept) = l  BY <1>1, <1>2, <1>31
<1>5. ASSUME NEW i \in kept PROVE Rank(i) = i
  <2>1. i \in 1 .. l  BY <1>2
  <2>2. Cardinality(1 .. i) = i  BY <1>1, <2>1, FS_Interval
  <2>3. {j \in kept : j <= i} = 1 .. i  BY <2>1, <1>1, <1>2
  <2> QED  BY <2>2, <2>3
<1> HIDE DEF Rank
<1>6. ASSUME NEW n \in 1 .. l PROVE (CHOOSE i \in kept : Rank(i) = n) = n
  BY <1>2, <1>5
<1>7. Without(q, c) = [n \in 1 .. l |-> q[CHOOSE i \in kept : Rank(i) = n]]
  BY <1>3 DEF Without, kept, Rank
<1> QED  BY <1>1, <1>6, <1>7

LEMMA WithoutFacts ==
    ASSUME NEW q \in Seq(Requests), NEW c, OnePer(q)
    PROVE  /\ Without(q, c) \in Seq(Requests)
           /\ ClientsOf(Without(q, c)) = ClientsOf(q) \ {c}
           /\ OnePer(Without(q, c))
<1> DEFINE w == Without(q, c)
           l == Len(q)
<1>1. CASE \A i \in DOMAIN q : q[i].client # c
  BY <1>1, WithoutNone DEF ClientsOf
<1>2. CASE \E k \in DOMAIN q : q[k].client = c
  <2> PICK k \in DOMAIN q : q[k].client = c  BY <1>2
  <2>1. w = [n \in 1 .. l - 1 |-> IF n < k THEN q[n] ELSE q[n + 1]]  BY WithoutOne
  <2>2. l \in Nat /\ DOMAIN q = 1 .. l /\ k \in 1 .. l  OBVIOUS
  <2>3. \A n \in 1 .. l : q[n] \in Requests  OBVIOUS
  <2> HIDE DEF w, l
  <2>4. DOMAIN w = 1 .. l - 1  BY <2>1
  <2>5. \A n \in 1 .. l - 1 : w[n] = IF n < k THEN q[n] ELSE q[n + 1]  BY <2>1
  <2>6. \A n \in 1 .. l - 1 : n \in 1 .. l /\ n + 1 \in 1 .. l  BY <2>2
  <2>7. \A n \in 1 .. l - 1 : w[n] \in Requests  BY <2>3, <2>5, <2>6
  <2>8. w \in Seq(Requests)
    <3>1. l - 1 \in Nat  BY <2>2
    <3>2. w \in [1 .. l - 1 -> Requests]  BY <2>1, <2>5, <2>7
    <3> QED  BY <3>1, <3>2
  <2>9. ClientsOf(w) \subseteq ClientsOf(q) \ {c}
    <3> SUFFICES ASSUME NEW n \in 1 .. l - 1
                 PROVE  w[n].client \in ClientsOf(q) \ {c}
      BY <2>4 DEF ClientsOf
    <3>1. CASE n < k
      <4>1. n \in DOMAIN q /\ n # k /\ w[n] = q[n]  BY <3>1, <2>2, <2>5, <2>6
      <4> QED  BY <4>1 DEF ClientsOf, OnePer
    <3>2. CASE ~(n < k)
      <4>1. n + 1 \in DOMAIN q /\ n + 1 # k /\ w[n] = q[n + 1]  BY <3>2, <2>2, <2>5, <2>6
      <4> QED  BY <4>1 DEF ClientsOf, OnePer
    <3> QED  BY <3>1, <3>2
  <2>10. ClientsOf(q) \ {c} \subseteq ClientsOf(w)
    <3> SUFFICES ASSUME NEW a \in 1 .. l, q[a].client # c
                 PROVE  \E n \in 1 .. l - 1 : w[n].client = q[a].client
      BY <2>2, <2>4 DEF ClientsOf
    <3>1. a # k  OBVIOUS
    <3>2. CASE a < k
      <4>1. a \in 1 .. l - 1 /\ w[a] = q[a]  BY <3>2, <2>2, <2>5
      <4> QED  BY <4>1
    <3>3. CASE ~(a < k)
      <4>1. a - 1 \in 1 .. l - 1 /\ ~(a - 1 < k) /\ (a - 1) + 1 = a  BY <3>1, <3>3, <2>2
      <4>2. w[a - 1] = q[a]  BY <4>1, <2>5
      <4> QED  BY <4>1, <4>2
    <3> QED  BY <3>2, <3>3
  <2>11. OnePer(w)
    <3> SUFFICES ASSUME NEW n \in 1 .. l - 1, NEW m \in 1 .. l - 1, w[n].client = w[m].client
                 PROVE  n = m
      BY <2>4 DEF OnePer
    <3> DEFINE At(i) == IF i < k THEN i ELSE i + 1
    <3>1. At(n) \in DOMAIN q /\ At(m) \in DOMAIN q  BY <2>2, <2>6
    <3>2. w[n] = q[At(n)] /\ w[m] = q[At(m)]  BY <2>5
    <3>3. At(n) = At(m)
      <4> HIDE DEF At
      <4> QED  BY <3>1, <3>2 DEF OnePer
    <3> QED  BY <3>3, <2>2
  <2>12. w \in Seq(Requests) /\ ClientsOf(w) = ClientsOf(q) \ {c} /\ OnePer(w)
    BY <2>8, <2>9, <2>10, <2>11
  <2> QED  BY <2>12 DEF w
<1> QED  BY <1>1, <1>2

-----------------------------------------------------------------------------
(* The inductive invariant.                                                *)

\* The writes the core remembers, with their values.
Known == {[token |-> f.token, value |-> f.value] : f \in inFlight} \cup timedOut

PipeInv == Pipe(channel, wakeConfigs, configs, Known, nextToken)

\* No write is both submitted and given up.
Apart == \A f \in inFlight, t \in timedOut : f.token # t.token

\* A client that has left is not connected, and one that has not connected has
\* asked for nothing.
Strangers ==
    /\ clients \cap left = {}
    /\ \A c \in Client \ (clients \cup left) : asked[c] = answered[c]

\* A client goes, or its reader reports the end of its connection.
Departs(c) == Disconnect(c) \/ KillClient(c) \/ ClientDisconnected(c)

\* Where the thread is tells what is left of the wake-up.
ThreadInv ==
    /\ thread \in {"wait", "take"} => wakeConfigs = <<>>
    /\ thread = "wait" => wakeCommands = <<>>
    /\ thread = "apply" => wakeConfigs # <<>>
    /\ bound <=> ~paused

\* The thread will be paused once it has followed its commands.
EndsPaused ==
    /\ commands # <<>> => commands[Len(commands)] = "pause"
    /\ commands = <<>> /\ wakeCommands # <<>> => wakeCommands[Len(wakeCommands)] = "pause"
    /\ commands = <<>> /\ wakeCommands = <<>> => paused

PhaseInv ==
    /\ phase = "run" => deferred = <<>>
    /\ \A i \in DOMAIN deferred : /\ Switches(deferred[i])
                                  /\ ~putAside => deferred[i].kind = "suspended"
    /\ phase = "barrier" \/ vt = "away" => EndsPaused

\* The device is live and no pause is on its way to the thread.
Settled ==
    /\ bound
    /\ \A i \in DOMAIN commands : commands[i] # "pause"
    /\ \A i \in DOMAIN wakeCommands : wakeCommands[i] # "pause"

ValueInv == Settled \/ ~putAside => Told(channel, Known, config, device)

EnabledInv == Settled => Live(channel, enabled)

LaneInv ==
    /\ TypeOK /\ OneAnswer /\ Strangers
    /\ PipeInv /\ Apart
    /\ ThreadInv /\ PhaseInv
    /\ ValueInv /\ EnabledInv

-----------------------------------------------------------------------------
(* What a step that may submit a write does to the remembered ones.        *)

LEMMA KnownWrites ==
    ASSUME TypeOK
    PROVE  Known \in SUBSET Writes
BY DEF TypeOK, Known, Writes

\* The core remembers R and perhaps one more write, which it has submitted.
Submitted(R) ==
    \/ Known' = R /\ UNCHANGED <<configs, nextToken>>
    \/ \E v \in Value :
          /\ Known' = R \cup {[token |-> nextToken, value |-> v]}
          /\ configs' = Append(configs, [token |-> nextToken, value |-> v])
          /\ nextToken' = nextToken + 1

LEMMA DriveSubmits ==
    ASSUME NEW q \in Seq(Requests), NEW done, Drive(q, done)
    PROVE  Submitted(timedOut')
<1>0. PICK k \in 1 .. Len(q) + 1 :
        /\ k <= Len(q) => q[k].value # Bad
        /\ IF k > Len(q)
           THEN inFlight' = {} /\ UNCHANGED control
           ELSE /\ inFlight' = {[token |-> nextToken, value |-> q[k].value,
                                 protocol |-> q[k].client]}
                /\ configs' = Append(configs, [token |-> nextToken, value |-> q[k].value])
                /\ nextToken' = nextToken + 1
  BY DEF Drive, Submittable
<1>1. CASE k > Len(q)
  BY <1>0, <1>1 DEF Submitted, Known, control
<1>2. CASE ~(k > Len(q))
  <2>1. k \in 1 .. Len(q)  BY <1>2
  <2>2. q[k] \in Requests  BY <2>1
  <2>3. q[k].value \in Value  BY <2>1, <2>2, <1>0 DEF Requests
  <2> DEFINE w == [token |-> nextToken, value |-> q[k].value]
             f == [token |-> nextToken, value |-> q[k].value, protocol |-> q[k].client]
  <2>4. inFlight' = {f} /\ configs' = Append(configs, w) /\ nextToken' = nextToken + 1
    BY <1>0, <1>2
  <2>5. f.token = nextToken /\ f.value = q[k].value  OBVIOUS
  <2>6. [token |-> f.token, value |-> f.value] = w  BY <2>5
  <2> HIDE DEF f
  <2>7. {[token |-> g.token, value |-> g.value] : g \in {f}} = {w}  BY <2>6
  <2>8. Known' = timedOut' \cup {w}  BY <2>4, <2>7 DEF Known
  <2> QED  BY <2>3, <2>4, <2>8 DEF Submitted
<1> QED  BY <1>1, <1>2

\* The part of the step that a result leaves to the lane.
LEMMA FinishSubmits ==
    ASSUME TypeOK, Apart, NEW m, FinishXiConfigResult(m)
    PROVE  Submitted(Forget(Known, m.token))
<1> DEFINE mine == {f \in inFlight : f.token = m.token}
           late == {t \in timedOut : t.token = m.token}
<1>0. queued \in Seq(Requests)  BY DEF TypeOK, Requests
<1>1. timedOut' = timedOut \ late
  BY DEF Apart, FinishXiConfigResult
<1>2. timedOut' = Forget(timedOut, m.token)  BY <1>1 DEF Forget
<1>3. CASE mine # {}
  <2>1. Drive(queued, Protocols(mine) \cap clients)  BY <1>3 DEF FinishXiConfigResult
  <2>2. Submitted(timedOut')  BY <2>1, <1>0, DriveSubmits
  <2>3. \A f \in inFlight : f.token = m.token  BY <1>3 DEF TypeOK
  <2>4. \A t \in {[token |-> f.token, value |-> f.value] : f \in inFlight} : t.token = m.token
    BY <2>3
  <2>5. Forget(Known, m.token) = Forget(timedOut, m.token)  BY <2>4 DEF Forget, Known
  <2> QED  BY <2>2, <2>5, <1>2
<1>4. CASE mine = {}
  <2>3. \A f \in inFlight : f.token # m.token  BY <1>4
  <2>4. \A t \in {[token |-> f.token, value |-> f.value] : f \in inFlight} : t.token # m.token
    BY <2>3
  <2>5. Forget(Known, m.token) =
          {[token |-> f.token, value |-> f.value] : f \in inFlight} \cup Forget(timedOut, m.token)
    BY <2>4 DEF Forget, Known
  <2>1. CASE late # {} /\ inFlight = {}
    <3>1. Drive(queued, Protocols(mine) \cap clients)  BY <2>1 DEF FinishXiConfigResult
    <3>2. Submitted(timedOut')  BY <3>1, <1>0, DriveSubmits
    <3>3. Forget(Known, m.token) = Forget(timedOut, m.token)  BY <2>1, <2>5
    <3> QED  BY <3>2, <3>3, <1>2
  <2>2. CASE ~(late # {} /\ inFlight = {})
    <3>1. UNCHANGED <<inFlight, control>>  BY <2>2, <1>4 DEF FinishXiConfigResult
    <3>2. Known' = {[token |-> f.token, value |-> f.value] : f \in inFlight} \cup timedOut'
      BY <3>1 DEF Known
    <3> QED  BY <3>1, <3>2, <2>5, <1>2 DEF Submitted, control
  <2> QED  BY <2>1, <2>2
<1> QED  BY <1>3, <1>4

\* A request is routed without counting what has been asked.
Routed(c, v) ==
    /\ c \in clients /\ c \notin blocked
    /\ asked' = [asked EXCEPT ![c] = @ + 1]
    /\ IF rejecting \/ ~enabled
       THEN /\ answered' = Outcome({c})
            /\ UNCHANGED <<blocked, queued, inFlight, control>>
       ELSE IF inFlight # {}
       THEN /\ queued' = Append(queued, Asking(c, v))
            /\ blocked' = blocked \cup {c}
            /\ UNCHANGED <<inFlight, control, answered>>
       ELSE Drive(Append(queued, Asking(c, v)), {})
    /\ UNCHANGED <<timedOut, rejecting, core, switch, channel, input, putAside>>

LEMMA RouteRouted ==
    ASSUME NEW c, NEW v, RoutePendingXiConfig(c, v)
    PROVE  Routed(c, v)
BY Zenon DEF RoutePendingXiConfig, Routed

LEMMA Asked ==
    ASSUME TypeOK, NEW c \in Client, NEW v \in Value \cup {Bad}
    PROVE  /\ queued \in Seq(Requests)
           /\ Asking(c, v) \in Requests /\ Asking(c, v).client = c
           /\ Append(queued, Asking(c, v)) \in Seq(Requests)
<1>1. queued \in Seq(Requests)  BY DEF TypeOK, Requests
<1>2. Asking(c, v) \in Requests /\ Asking(c, v).client = c  BY DEF Asking, Requests
<1> QED  BY <1>1, <1>2

LEMMA RouteSubmits ==
    ASSUME TypeOK, NEW c \in Client, NEW v \in Value \cup {Bad}, Routed(c, v)
    PROVE  Submitted(Known)
<1>0. timedOut' = timedOut  BY DEF Routed
<1>1. CASE rejecting \/ ~enabled \/ inFlight # {}
  <2>1. UNCHANGED <<inFlight, control>>  BY <1>1 DEF Routed
  <2> QED  BY <2>1, <1>0 DEF Submitted, Known, control
<1>2. CASE ~(rejecting \/ ~enabled \/ inFlight # {})
  <2>1. Drive(Append(queued, Asking(c, v)), {})  BY <1>2 DEF Routed
  <2>2. Submitted(timedOut')  BY <2>1, Asked, DriveSubmits
  <2>3. Known = timedOut'  BY <1>0, <1>2 DEF Known
  <2> QED  BY <2>2, <2>3
<1> QED  BY <1>1, <1>2

\* What is submitted takes its place in the pipeline, and tells nothing yet.
LEMMA SubmittedPipe ==
    ASSUME TypeOK, NEW ch \in Seq(InputMessages), NEW R \in SUBSET Writes,
           Pipe(ch, wakeConfigs, configs, R, nextToken), Submitted(R)
    PROVE  /\ Pipe(ch, wakeConfigs, configs', Known', nextToken')
           /\ \A i \in AnswersIn(ch) : \A t \in Known' : t.token = ch[i].token => t \in R
<1>1. CASE Known' = R /\ UNCHANGED <<configs, nextToken>>
  BY <1>1
<1>2. ASSUME NEW v \in Value,
             Known' = R \cup {[token |-> nextToken, value |-> v]},
             configs' = Append(configs, [token |-> nextToken, value |-> v]),
             nextToken' = nextToken + 1
      PROVE  /\ Pipe(ch, wakeConfigs, configs', Known', nextToken')
             /\ \A i \in AnswersIn(ch) : \A t \in Known' : t.token = ch[i].token => t \in R
  <2>1. wakeConfigs \in Seq(Writes) /\ configs \in Seq(Writes) /\ nextToken \in Nat
    BY DEF TypeOK
  <2>2. Pipe(ch, wakeConfigs, configs', Known', nextToken')
    BY <1>2, <2>1, PipeSubmit
  <2>3. \A t \in R : t.token \in Nat /\ t.token < nextToken  BY DEF Pipe, Fresh, Writes
  <2>4. \A i \in AnswersIn(ch) : ch[i].token # nextToken
    <3>1. \A i \in AnswersIn(ch) : \E t \in R : t.token = ch[i].token  BY DEF Pipe, Covered
    <3> QED  BY <3>1, <2>1, <2>3
  <2>5. [token |-> nextToken, value |-> v].token = nextToken  OBVIOUS
  <2> QED  BY <1>2, <2>2, <2>4, <2>5
<1> QED  BY <1>1, <1>2 DEF Submitted

-----------------------------------------------------------------------------
(* One outcome for each request.                                           *)

LEMMA PartClients ==
    ASSUME NEW q \in Seq(Requests), NEW a \in Nat, NEW b \in 0 .. Len(q), a >= 1
    PROVE  /\ SubSeq(q, a, b) \in Seq(Requests)
           /\ ClientsOf(SubSeq(q, a, b)) = {q[i].client : i \in a .. b}
           /\ OnePer(q) => OnePer(SubSeq(q, a, b))
<1> DEFINE s == SubSeq(q, a, b)
           l == IF a <= b THEN b - a + 1 ELSE 0
<1>0. Len(q) \in Nat /\ DOMAIN q = 1 .. Len(q)  OBVIOUS
<1>1. s \in Seq(Requests)  OBVIOUS
<1>2. Len(s) = l  OBVIOUS
<1>3. DOMAIN s = 1 .. l  BY <1>1, <1>2
<1>4. \A i \in 1 .. l : s[i] = q[i + (a - 1)]
  <2> SUFFICES ASSUME NEW i \in 1 .. l PROVE s[i] = q[i + (a - 1)]
    OBVIOUS
  <2>1. i \in 1 .. b - a + 1 /\ a + i - 1 = i + (a - 1)  BY <1>0
  <2>2. s[i] = q[a + i - 1]  BY <2>1
  <2> QED  BY <2>1, <2>2
<1>5. l \in Nat /\ \A i \in 1 .. l : i + (a - 1) \in a .. b  BY <1>0
<1>6. \A i \in a .. b : i - (a - 1) \in 1 .. l /\ (i - (a - 1)) + (a - 1) = i  BY <1>0
<1>7. a .. b \subseteq DOMAIN q  BY <1>0
<1> HIDE DEF s, l
<1>8. ClientsOf(s) \subseteq {q[i].client : i \in a .. b}
  BY <1>3, <1>4, <1>5 DEF ClientsOf
<1>9. {q[i].client : i \in a .. b} \subseteq ClientsOf(s)
  BY <1>3, <1>4, <1>6 DEF ClientsOf
<1>10. OnePer(q) => OnePer(s)
  <2> SUFFICES ASSUME OnePer(q), NEW i \in 1 .. l, NEW j \in 1 .. l, s[i].client = s[j].client
               PROVE  i = j
    BY <1>3 DEF OnePer
  <2>1. i + (a - 1) = j + (a - 1)  BY <1>4, <1>5, <1>7 DEF OnePer
  <2> QED  BY <2>1, <1>5
<1> QED  BY <1>1, <1>8, <1>9, <1>10 DEF s

\* Every request up to the one submitted has its outcome, the submitted one
\* and those behind it block their clients.
LEMMA DriveAnswers ==
    ASSUME TypeOK, NEW q \in Seq(Requests), OnePer(q), NEW done, Drive(q, done),
           done \cap ClientsOf(q) = {}, done \subseteq clients,
           blocked \cap clients \subseteq ClientsOf(q) \cup done,
           blocked \cup ClientsOf(q) \subseteq clients \cup killed,
           clients' = clients, killed' = killed,
           \A c \in clients : asked'[c] = answered[c] + (IF c \in ClientsOf(q) \cup done THEN 1 ELSE 0)
    PROVE  OneAnswer'
<1> DEFINE l == Len(q)
<1>0. PICK k \in 1 .. l + 1 :
        /\ queued' = SubSeq(q, k + 1, l)
        /\ answered' = Outcome((done \cup ClientsOf(SubSeq(q, 1, k - 1))) \cap clients)
        /\ blocked' = (blocked \cup ClientsOf(q)) \ (done \cup ClientsOf(SubSeq(q, 1, k - 1)))
        /\ IF k > l
           THEN inFlight' = {}
           ELSE inFlight' = {[token |-> nextToken, value |-> q[k].value,
                              protocol |-> q[k].client]}
  BY DEF Drive
<1>1. l \in Nat /\ DOMAIN q = 1 .. l /\ \A i \in 1 .. l : q[i] \in Requests  OBVIOUS
<1> HIDE DEF l
<1> DEFINE before == {q[i].client : i \in 1 .. k - 1}
           behind == {q[i].client : i \in k + 1 .. l}
           at == Protocols(inFlight')
<1>2. ClientsOf(SubSeq(q, 1, k - 1)) = before
  <2>1. k - 1 \in 0 .. l /\ 1 \in Nat /\ 1 >= 1  BY <1>1
  <2> QED  BY <2>1, PartClients DEF l
<1>3. queued' \in Seq(Requests) /\ ClientsOf(queued') = behind /\ OnePer(queued')
  <2>1. k + 1 \in Nat /\ k + 1 >= 1 /\ l \in 0 .. l  BY <1>1
  <2> QED  BY <2>1, <1>0, PartClients DEF l
<1>4. at = {q[i].client : i \in {k} \cap 1 .. l}
  <2>1. CASE k > l
    <3>1. {k} \cap 1 .. l = {}  BY <2>1, <1>1
    <3> QED  BY <3>1, <2>1, <1>0 DEF Protocols
  <2>2. CASE ~(k > l)
    <3>1. k \in 1 .. l /\ {k} \cap 1 .. l = {k}  BY <2>2, <1>1
    <3>2. q[k].client \in Client  BY <3>1, <1>1 DEF Requests
    <3>3. q[k].client # NoClient  BY <3>2, LaneAssumption
    <3> DEFINE f == [token |-> nextToken, value |-> q[k].value, protocol |-> q[k].client]
    <3>4. inFlight' = {f} /\ f.protocol = q[k].client  BY <2>2, <1>0
    <3> HIDE DEF f
    <3>5. at = {q[k].client}  BY <3>3, <3>4 DEF Protocols
    <3> QED  BY <3>1, <3>5
  <2> QED  BY <2>1, <2>2
<1>5. ClientsOf(q) = before \cup at \cup behind
  <2>1. 1 .. l = (1 .. k - 1) \cup ({k} \cap 1 .. l) \cup (k + 1 .. l)  BY <1>1
  <2> QED  BY <2>1, <1>1, <1>4 DEF ClientsOf
<1>6. before \cap at = {} /\ before \cap behind = {} /\ at \cap behind = {}
  <2>1. (1 .. k - 1) \cap ({k} \cap 1 .. l) = {} /\ (1 .. k - 1) \cap (k + 1 .. l) = {}
        /\ ({k} \cap 1 .. l) \cap (k + 1 .. l) = {}
        /\ 1 .. k - 1 \subseteq DOMAIN q /\ {k} \cap 1 .. l \subseteq DOMAIN q
        /\ k + 1 .. l \subseteq DOMAIN q
    BY <1>1
  <2> QED  BY <2>1, <1>4 DEF OnePer
<1> HIDE DEF before, behind, at
<1>7. blocked' = (blocked \cup ClientsOf(q)) \ (done \cup before)  BY <1>0, <1>2
<1>11. /\ behind \cup at \subseteq blocked'
       /\ blocked' \cap clients \subseteq behind \cup at
       /\ blocked' \subseteq clients \cup killed
  BY <1>5, <1>6, <1>7
<1>8. /\ ClientsOf(queued') \cup Protocols(inFlight') \subseteq blocked'
      /\ blocked' \subseteq clients' \cup killed'
      /\ blocked' \cap clients' \subseteq ClientsOf(queued') \cup Protocols(inFlight')
      /\ Protocols(inFlight') \cap ClientsOf(queued') = {}
  BY <1>3, <1>6, <1>11 DEF at
<1>9. \A i, j \in DOMAIN queued' : queued'[i].client = queued'[j].client => i = j
  BY <1>3 DEF OnePer
<1>10. \A c \in clients : asked'[c] = answered'[c] + (IF c \in blocked' THEN 1 ELSE 0)
  <2> SUFFICES ASSUME NEW c \in clients
               PROVE  asked'[c] = answered'[c] + (IF c \in blocked' THEN 1 ELSE 0)
    OBVIOUS
  <2>0. c \in Client /\ answered[c] \in Nat  BY DEF TypeOK
  <2>1. answered' = Outcome((done \cup before) \cap clients)  BY <1>0, <1>2
  <2>2. answered'[c] = answered[c] + (IF c \in (done \cup before) \cap clients THEN 1 ELSE 0)
    BY <2>0, <2>1 DEF Outcome
  <2>3. asked'[c] = answered[c] + (IF c \in ClientsOf(q) \cup done THEN 1 ELSE 0)  OBVIOUS
  <2>4. CASE c \in done \cup before
    <3>1. c \notin blocked' /\ c \in ClientsOf(q) \cup done  BY <2>4, <1>5, <1>6, <1>7
    <3> QED  BY <2>0, <2>2, <2>3, <2>4, <3>1
  <2>5. CASE c \in at \cup behind
    <3>1. c \in blocked' /\ c \in ClientsOf(q) /\ c \notin done \cup before
      BY <2>5, <1>5, <1>6, <1>11
    <3> QED  BY <2>0, <2>2, <2>3, <3>1
  <2>6. CASE c \notin done \cup before \cup at \cup behind
    <3>1. c \notin blocked' /\ c \notin ClientsOf(q) \cup done /\ c \notin done \cup before
      BY <2>6, <1>5, <1>11
    <3> QED  BY <2>0, <2>2, <2>3, <3>1
  <2> QED  BY <2>4, <2>5, <2>6
<1> QED  BY <1>8, <1>9, <1>10 DEF OneAnswer

LEMMA OutcomeFacts ==
    ASSUME TypeOK, NEW C
    PROVE  /\ Outcome(C) \in [Client -> Nat]
           /\ \A c \in Client : Outcome(C)[c] = IF c \in C THEN answered[c] + 1 ELSE answered[c]
BY DEF TypeOK, Outcome

\* The outcomes of a drive are those of connected clients.
LEMMA DriveOutcomes ==
    ASSUME TypeOK, NEW q, NEW done, Drive(q, done)
    PROVE  answered' \in [Client -> Nat] /\ \A c \in Client \ clients : answered'[c] = answered[c]
<1>1. PICK C : answered' = Outcome(C \cap clients)  BY DEF Drive
<1>2. \A c \in Client : Outcome(C \cap clients)[c] =
          IF c \in C \cap clients THEN answered[c] + 1 ELSE answered[c]
  BY OutcomeFacts
<1>3. Outcome(C \cap clients) \in [Client -> Nat]  BY OutcomeFacts
<1> QED  BY <1>1, <1>2, <1>3

OneOutcome == OneAnswer /\ Strangers

LEMMA SameOutcome ==
    ASSUME OneOutcome, UNCHANGED <<clients, left, killed, blocked, queued, inFlight, asked, answered>>
    PROVE  OneOutcome'
BY DEF OneOutcome, OneAnswer, Strangers, ClientsOf, Protocols

LEMMA RouteOutcome ==
    ASSUME TypeOK, OneOutcome, NEW c \in Client, NEW v \in Value \cup {Bad}, Routed(c, v)
    PROVE  OneOutcome'
<1> USE DEF OneOutcome
<1>0. /\ c \in clients /\ c \notin blocked
      /\ clients' = clients /\ left' = left /\ killed' = killed
      /\ asked' = [asked EXCEPT ![c] = @ + 1]
  BY DEF Routed, core
<1>1. \A d \in Client : asked'[d] = IF d = c THEN asked[d] + 1 ELSE asked[d]
  BY <1>0 DEF TypeOK
<1>2. \A d \in Client : asked[d] \in Nat /\ answered[d] \in Nat  BY DEF TypeOK
<1>3. asked[c] = answered[c]  BY <1>0, <1>2 DEF OneAnswer
<1>4. CASE rejecting \/ ~enabled
  <2>1. answered' = Outcome({c}) /\ UNCHANGED <<blocked, queued, inFlight>>
    BY <1>4 DEF Routed
  <2>2. \A d \in Client : answered'[d] = IF d = c THEN answered[d] + 1 ELSE answered[d]
    BY <2>1, OutcomeFacts
  <2>3. Strangers'  BY <1>0, <1>1, <2>2 DEF Strangers
  <2>4. \A d \in clients : asked'[d] = answered'[d] + (IF d \in blocked THEN 1 ELSE 0)
    <3> SUFFICES ASSUME NEW d \in clients
                 PROVE  asked'[d] = answered'[d] + (IF d \in blocked THEN 1 ELSE 0)
      OBVIOUS
    <3>1. d \in Client  BY DEF TypeOK
    <3>2. asked[d] = answered[d] + (IF d \in blocked THEN 1 ELSE 0)  BY DEF OneAnswer
    <3> QED  BY <3>1, <3>2, <1>0, <1>1, <1>2, <2>2
  <2>5. /\ ClientsOf(queued') \cup Protocols(inFlight') \subseteq blocked'
        /\ blocked' \subseteq clients' \cup killed'
        /\ blocked' \cap clients' \subseteq ClientsOf(queued') \cup Protocols(inFlight')
        /\ Protocols(inFlight') \cap ClientsOf(queued') = {}
    BY <2>1, <1>0 DEF OneAnswer
  <2>6. OnePer(queued')  BY <2>1 DEF OneAnswer, OnePer
  <2> QED  BY <2>1, <2>3, <2>4, <2>5, <2>6, <1>0 DEF OneAnswer, OnePer
<1>5. CASE ~(rejecting \/ ~enabled) /\ inFlight # {}
  <2> DEFINE e == Asking(c, v)
  <2>1. /\ queued' = Append(queued, e) /\ blocked' = blocked \cup {c}
        /\ UNCHANGED <<inFlight, answered>>
    BY <1>5 DEF Routed
  <2>2. queued \in Seq(Requests) /\ e \in Requests /\ e.client = c  BY Asked
  <2> HIDE DEF e
  <2>3. /\ DOMAIN queued = 1 .. Len(queued) /\ Len(queued) \in Nat
        /\ DOMAIN queued' = 1 .. Len(queued) + 1
        /\ \A i \in 1 .. Len(queued) : queued'[i] = queued[i]
        /\ queued'[Len(queued) + 1] = e
    BY <2>1, <2>2, AppendFacts
  <2>4. ClientsOf(queued') = ClientsOf(queued) \cup {c}
    BY <2>2, <2>3 DEF ClientsOf
  <2>5. c \notin ClientsOf(queued) /\ c \notin Protocols(inFlight)  BY <1>0 DEF OneAnswer
  <2>6. OnePer(queued')
    <3>1. \A i \in DOMAIN queued : queued[i].client # c  BY <2>5 DEF ClientsOf
    <3>2. \A i \in DOMAIN queued' : \/ i \in DOMAIN queued /\ queued'[i] = queued[i]
                                    \/ i = Len(queued) + 1 /\ queued'[i].client = c
      <4>1. \A i \in DOMAIN queued' : i \in DOMAIN queued \/ i = Len(queued) + 1  BY <2>3
      <4>2. queued'[Len(queued) + 1].client = c  BY <2>2, <2>3
      <4>3. \A i \in DOMAIN queued : queued'[i] = queued[i]  BY <2>3
      <4> QED  BY <4>1, <4>2, <4>3
    <3>3. OnePer(queued)  BY DEF OneAnswer, OnePer
    <3> QED  BY <3>1, <3>2, <3>3 DEF OnePer
  <2>7. \A d \in clients : asked'[d] = answered'[d] + (IF d \in blocked' THEN 1 ELSE 0)
    <3> SUFFICES ASSUME NEW d \in clients
                 PROVE  asked'[d] = answered'[d] + (IF d \in blocked' THEN 1 ELSE 0)
      OBVIOUS
    <3>1. d \in Client  BY DEF TypeOK
    <3>2. asked[d] = answered[d] + (IF d \in blocked THEN 1 ELSE 0)  BY DEF OneAnswer
    <3> QED  BY <3>1, <3>2, <1>0, <1>1, <1>2, <2>1
  <2>8. Strangers'  BY <1>0, <1>1, <2>1 DEF Strangers
  <2>9. Protocols(inFlight') = Protocols(inFlight)  BY <2>1
  <2>10. /\ ClientsOf(queued') \cup Protocols(inFlight') \subseteq blocked'
         /\ blocked' \subseteq clients' \cup killed'
         /\ blocked' \cap clients' \subseteq ClientsOf(queued') \cup Protocols(inFlight')
         /\ Protocols(inFlight') \cap ClientsOf(queued') = {}
    BY <2>1, <2>4, <2>5, <2>9, <1>0 DEF OneAnswer
  <2> QED  BY <2>6, <2>7, <2>8, <2>10, <1>0 DEF OneAnswer, OnePer
<1>6. CASE ~(rejecting \/ ~enabled) /\ inFlight = {}
  <2> DEFINE e == Asking(c, v)
             q == Append(queued, e)
  <2>1. Drive(q, {})  BY <1>6 DEF Routed
  <2>2. queued \in Seq(Requests) /\ e \in Requests /\ e.client = c /\ q \in Seq(Requests)
    BY Asked
  <2> HIDE DEF e
  <2>3. /\ DOMAIN queued = 1 .. Len(queued) /\ Len(queued) \in Nat
        /\ DOMAIN q = 1 .. Len(queued) + 1
        /\ \A i \in 1 .. Len(queued) : q[i] = queued[i]
        /\ q[Len(queued) + 1] = e
    BY <2>1, <2>2, AppendFacts
  <2> HIDE DEF q
  <2>4. ClientsOf(q) = ClientsOf(queued) \cup {c}
    BY <2>2, <2>3 DEF ClientsOf
  <2>5. c \notin ClientsOf(queued) /\ blocked \cap clients = ClientsOf(queued) \cap clients
        /\ ClientsOf(queued) \subseteq blocked
    BY <1>0, <1>6 DEF OneAnswer, Protocols
  <2>6. OnePer(q)
    <3>1. \A i \in DOMAIN queued : queued[i].client # c  BY <2>5 DEF ClientsOf
    <3>2. \A i \in DOMAIN q : \/ i \in DOMAIN queued /\ q[i] = queued[i]
                              \/ i = Len(queued) + 1 /\ q[i].client = c
      <4>1. \A i \in DOMAIN q : i \in DOMAIN queued \/ i = Len(queued) + 1  BY <2>3
      <4>2. q[Len(queued) + 1].client = c  BY <2>2, <2>3
      <4>3. \A i \in DOMAIN queued : q[i] = queued[i]  BY <2>3
      <4> QED  BY <4>1, <4>2, <4>3
    <3>3. OnePer(queued)  BY DEF OneAnswer, OnePer
    <3> QED  BY <3>1, <3>2, <3>3 DEF OnePer
  <2>7. /\ blocked \cup ClientsOf(q) \subseteq clients \cup killed
        /\ blocked \cap clients \subseteq ClientsOf(q) \cup {}
        /\ {} \subseteq clients
    BY <2>4, <2>5, <1>0 DEF OneAnswer
  <2>8. \A d \in clients :
           asked'[d] = answered[d] + (IF d \in ClientsOf(q) \cup {} THEN 1 ELSE 0)
    <3> SUFFICES ASSUME NEW d \in clients
                 PROVE  asked'[d] = answered[d] + (IF d \in ClientsOf(q) \cup {} THEN 1 ELSE 0)
      OBVIOUS
    <3>1. d \in Client  BY DEF TypeOK
    <3>2. asked[d] = answered[d] + (IF d \in blocked THEN 1 ELSE 0)  BY DEF OneAnswer
    <3> QED  BY <3>1, <3>2, <1>0, <1>1, <1>2, <2>4, <2>5
  <2>9. {} \cap ClientsOf(q) = {}  OBVIOUS
  <2>10. OneAnswer'  BY <2>1, <2>2, <2>6, <2>7, <2>8, <2>9, <1>0, DriveAnswers
  <2>11. \A d \in Client \ clients : answered'[d] = answered[d]  BY <2>1, DriveOutcomes
  <2>12. Strangers'  BY <2>11, <1>0, <1>1 DEF Strangers
  <2> QED  BY <2>10, <2>12
<1> QED  BY <1>4, <1>5, <1>6

LEMMA FinishOutcome ==
    ASSUME TypeOK, OneOutcome, NEW m, FinishXiConfigResult(m)
    PROVE  OneOutcome'
<1> USE DEF OneOutcome
<1> DEFINE mine == {f \in inFlight : f.token = m.token}
           late == {t \in timedOut : t.token = m.token}
<1>0. clients' = clients /\ left' = left /\ killed' = killed /\ asked' = asked
  BY DEF FinishXiConfigResult
<1>1. CASE mine # {} \/ (late # {} /\ inFlight = {})
  <2>1. Drive(queued, Protocols(mine) \cap clients)  BY <1>1 DEF FinishXiConfigResult
  <2>2. mine = inFlight  BY <1>1 DEF TypeOK
  <2> HIDE DEF mine, late
  <2>3. queued \in Seq(Requests) /\ OnePer(queued)  BY DEF TypeOK, Requests, OneAnswer, OnePer
  <2> DEFINE done == Protocols(mine) \cap clients
  <2>4. /\ done \cap ClientsOf(queued) = {} /\ done \subseteq clients
        /\ blocked \cap clients = (ClientsOf(queued) \cup done) \cap clients
        /\ blocked \cup ClientsOf(queued) \subseteq clients \cup killed
    BY <2>2 DEF OneAnswer
  <2> HIDE DEF done
  <2>5. \A c \in clients : asked'[c] =
            answered[c] + (IF c \in ClientsOf(queued) \cup done THEN 1 ELSE 0)
    BY <2>4, <1>0 DEF OneAnswer
  <2>9. Drive(queued, done)  BY <2>1 DEF done
  <2>6. OneAnswer'  BY <2>9, <2>3, <2>4, <2>5, <1>0, DriveAnswers
  <2>7. \A d \in Client \ clients : answered'[d] = answered[d]  BY <2>1, DriveOutcomes
  <2>8. Strangers'  BY <2>7, <1>0 DEF Strangers
  <2> QED  BY <2>6, <2>8
<1>2. CASE ~(mine # {} \/ (late # {} /\ inFlight = {}))
  <2>1. UNCHANGED <<blocked, queued, inFlight, answered>>
    BY <1>2 DEF FinishXiConfigResult
  <2> QED  BY <2>1, <1>0, SameOutcome
<1> QED  BY <1>1, <1>2

\* Clients get an outcome and are unblocked.
LEMMA OutcomeOf ==
    ASSUME TypeOK, OneOutcome, NEW C, C \subseteq blocked,
           answered' = Outcome(C \cap clients), blocked' = blocked \ C,
           UNCHANGED <<clients, left, killed, asked>>
    PROVE  /\ \A c \in clients' : asked'[c] = answered'[c] + (IF c \in blocked' THEN 1 ELSE 0)
           /\ blocked' \subseteq clients' \cup killed'
           /\ Strangers'
<1> USE DEF OneOutcome
<1>2. \A c \in Client : answered'[c] = IF c \in C \cap clients THEN answered[c] + 1 ELSE answered[c]
  BY OutcomeFacts
<1>3. \A c \in Client : answered[c] \in Nat /\ asked[c] \in Nat  BY DEF TypeOK
<1>4. ASSUME NEW c \in clients
      PROVE  asked'[c] = answered'[c] + (IF c \in blocked' THEN 1 ELSE 0)
  <2>1. c \in Client  BY DEF TypeOK
  <2>2. asked[c] = answered[c] + (IF c \in blocked THEN 1 ELSE 0)  BY DEF OneAnswer
  <2>3. asked'[c] = asked[c]  OBVIOUS
  <2>4. CASE c \in C
    <3>1. answered'[c] = answered[c] + 1  BY <2>1, <2>4, <1>2
    <3>2. c \in blocked /\ c \notin blocked'  BY <2>4
    <3> QED  BY <2>1, <2>2, <2>3, <3>1, <3>2, <1>3
  <2>5. CASE c \notin C
    <3>1. answered'[c] = answered[c]  BY <2>1, <2>5, <1>2
    <3>2. c \in blocked' <=> c \in blocked  BY <2>5
    <3> QED  BY <2>1, <2>2, <2>3, <3>1, <3>2, <1>3
  <2> QED  BY <2>4, <2>5
<1>5. Strangers'
  <2> SUFFICES ASSUME NEW c \in Client \ (clients \cup left) PROVE asked'[c] = answered'[c]
    BY DEF Strangers
  <2> QED  BY <1>2 DEF Strangers
<1> QED  BY <1>4, <1>5 DEF OneAnswer

LEMMA FailQueuedOutcome ==
    ASSUME TypeOK, OneOutcome, FailQueued, UNCHANGED <<clients, left, killed, asked, inFlight>>
    PROVE  OneOutcome'
<1> USE DEF OneOutcome
<1>1. /\ answered' = Outcome(ClientsOf(queued) \cap clients)
      /\ blocked' = blocked \ ClientsOf(queued)
      /\ queued' = <<>>
  BY DEF FailQueued
<1>2. ClientsOf(queued) \subseteq blocked  BY DEF OneAnswer
<1>3. /\ \A c \in clients' : asked'[c] = answered'[c] + (IF c \in blocked' THEN 1 ELSE 0)
      /\ blocked' \subseteq clients' \cup killed' /\ Strangers'
  BY <1>1, <1>2, OutcomeOf
<1>4. DOMAIN queued' = {}  BY <1>1
<1>5. ClientsOf(queued') = {}  BY <1>4 DEF ClientsOf
<1>6. Protocols(inFlight') = Protocols(inFlight)  OBVIOUS
<1>7. /\ ClientsOf(queued') \cup Protocols(inFlight') \subseteq blocked'
      /\ blocked' \cap clients' \subseteq ClientsOf(queued') \cup Protocols(inFlight')
      /\ Protocols(inFlight') \cap ClientsOf(queued') = {}
  BY <1>1, <1>5, <1>6 DEF OneAnswer
<1>8. \A i, j \in DOMAIN queued' : queued'[i].client = queued'[j].client => i = j  BY <1>4
<1> QED  BY <1>3, <1>7, <1>8 DEF OneAnswer

LEMMA FailInFlightOutcome ==
    ASSUME TypeOK, OneOutcome, FailInFlight, UNCHANGED <<clients, left, killed, asked, queued>>
    PROVE  OneOutcome'
<1> USE DEF OneOutcome
<1>1. /\ answered' = Outcome(Protocols(inFlight) \cap clients)
      /\ blocked' = blocked \ Protocols(inFlight)
      /\ inFlight' = {}
  BY DEF FailInFlight
<1>2. Protocols(inFlight) \subseteq blocked  BY DEF OneAnswer
<1>3. /\ \A c \in clients' : asked'[c] = answered'[c] + (IF c \in blocked' THEN 1 ELSE 0)
      /\ blocked' \subseteq clients' \cup killed' /\ Strangers'
  BY <1>1, <1>2, OutcomeOf
<1>5. Protocols(inFlight') = {}  BY <1>1 DEF Protocols
<1>6. ClientsOf(queued') = ClientsOf(queued)  OBVIOUS
<1>7. /\ ClientsOf(queued') \cup Protocols(inFlight') \subseteq blocked'
      /\ blocked' \cap clients' \subseteq ClientsOf(queued') \cup Protocols(inFlight')
      /\ Protocols(inFlight') \cap ClientsOf(queued') = {}
  BY <1>1, <1>5, <1>6 DEF OneAnswer
<1>8. \A i, j \in DOMAIN queued' : queued'[i].client = queued'[j].client => i = j
  BY DEF OneAnswer
<1> QED  BY <1>3, <1>7, <1>8 DEF OneAnswer

LEMMA ConnectOutcome ==
    ASSUME TypeOK, OneOutcome, NEW c \in Client, Connect(c)
    PROVE  OneOutcome'
<1> USE DEF OneOutcome
<1>0. /\ c \notin clients \cup left
      /\ clients' = clients \cup {c} /\ left' = left /\ killed' = killed
      /\ blocked' = blocked /\ queued' = queued /\ inFlight' = inFlight
      /\ asked' = asked /\ answered' = answered
  BY DEF Connect, lane, history
<1>1. asked[c] = answered[c] /\ c \notin blocked  BY <1>0 DEF Strangers, OneAnswer, TypeOK
<1>2. answered[c] \in Nat  BY DEF TypeOK
<1>3. \A d \in clients' : asked'[d] = answered'[d] + (IF d \in blocked' THEN 1 ELSE 0)
  BY <1>0, <1>1, <1>2 DEF OneAnswer
<1>4. Strangers'  BY <1>0 DEF Strangers
<1>5. /\ ClientsOf(queued') \cup Protocols(inFlight') \subseteq blocked'
      /\ blocked' \subseteq clients' \cup killed'
      /\ blocked' \cap clients' \subseteq ClientsOf(queued') \cup Protocols(inFlight')
      /\ Protocols(inFlight') \cap ClientsOf(queued') = {}
  BY <1>0, <1>1 DEF OneAnswer
<1>6. \A i, j \in DOMAIN queued' : queued'[i].client = queued'[j].client => i = j
  BY <1>0 DEF OneAnswer
<1> QED  BY <1>3, <1>4, <1>5, <1>6 DEF OneAnswer

LEMMA WithoutProtocolFacts ==
    ASSUME TypeOK
    PROVE  /\ WithoutProtocol(inFlight) \subseteq
                  [token : Nat, value : Value, protocol : Client \cup {NoClient}]
           /\ Protocols(WithoutProtocol(inFlight)) = {}
           /\ \A f \in WithoutProtocol(inFlight) :
                 \E g \in inFlight : f.token = g.token /\ f.value = g.value
           /\ \A g \in inFlight :
                 \E f \in WithoutProtocol(inFlight) : f.token = g.token /\ f.value = g.value
           /\ \A f, g \in WithoutProtocol(inFlight) : f = g
<1>1. \A f \in inFlight : f \in [token : Nat, value : Value, protocol : Client \cup {NoClient}]
  BY DEF TypeOK
<1>2. \A f \in inFlight :
         [f EXCEPT !.protocol = NoClient] \in [token : Nat, value : Value, protocol : Client \cup {NoClient}]
  BY <1>1
<1>3. \A f \in inFlight : /\ [f EXCEPT !.protocol = NoClient].protocol = NoClient
                          /\ [f EXCEPT !.protocol = NoClient].token = f.token
                          /\ [f EXCEPT !.protocol = NoClient].value = f.value
  BY <1>1
<1>4. Protocols(WithoutProtocol(inFlight)) = {}  BY <1>3 DEF Protocols, WithoutProtocol
<1>5. \A f, g \in WithoutProtocol(inFlight) : f = g  BY DEF TypeOK, WithoutProtocol
<1> QED  BY <1>2, <1>3, <1>4, <1>5 DEF WithoutProtocol

\* The cleanup takes c out of the lane, and leaves the others where they are.
LEMMA CleanupFacts ==
    ASSUME TypeOK, OneOutcome, NEW c \in Client, PendingCleanup(c)
    PROVE  /\ ClientsOf(queued') = ClientsOf(queued) \ {c} /\ OnePer(queued')
           /\ Protocols(inFlight') = Protocols(inFlight) \ {c}
           /\ blocked' = blocked \ {c}
<1> USE DEF OneOutcome
<1>0. /\ queued' = Without(queued, c)
      /\ inFlight' = IF c \in Protocols(inFlight) THEN WithoutProtocol(inFlight) ELSE inFlight
      /\ blocked' = blocked \ {c}
  BY DEF PendingCleanup
<1>1. queued \in Seq(Requests) /\ OnePer(queued)  BY DEF TypeOK, Requests, OneAnswer, OnePer
<1>2. ClientsOf(queued') = ClientsOf(queued) \ {c} /\ OnePer(queued')
  BY <1>0, <1>1, WithoutFacts
<1>3. Protocols(inFlight') = Protocols(inFlight) \ {c}
  <2>1. \A f, g \in inFlight : f = g  BY DEF TypeOK
  <2>2. CASE c \in Protocols(inFlight)
    <3>1. Protocols(inFlight) \subseteq {c}  BY <2>1, <2>2 DEF Protocols
    <3>2. Protocols(inFlight') = {}  BY <1>0, <2>2, WithoutProtocolFacts
    <3> QED  BY <3>1, <3>2
  <2>3. CASE c \notin Protocols(inFlight)
    <3>1. inFlight' = inFlight  BY <1>0, <2>3
    <3> QED  BY <3>1, <2>3
  <2> QED  BY <2>2, <2>3
<1> QED  BY <1>0, <1>2, <1>3

LEMMA DisconnectOutcome ==
    ASSUME TypeOK, OneOutcome, NEW c \in Client, Disconnect(c)
    PROVE  OneOutcome'
<1> USE DEF OneOutcome
<1>0. /\ c \in clients /\ clients' = clients \ {c} /\ left' = left \cup {c} /\ killed' = killed
      /\ PendingCleanup(c)
      /\ asked' = asked /\ answered' = answered
  BY DEF Disconnect, history
<1>1. /\ ClientsOf(queued') = ClientsOf(queued) \ {c} /\ OnePer(queued')
      /\ Protocols(inFlight') = Protocols(inFlight) \ {c}
      /\ blocked' = blocked \ {c}
  BY <1>0, CleanupFacts
<1>4. /\ ClientsOf(queued') \cup Protocols(inFlight') \subseteq blocked'
      /\ blocked' \subseteq clients' \cup killed'
      /\ blocked' \cap clients' \subseteq ClientsOf(queued') \cup Protocols(inFlight')
      /\ Protocols(inFlight') \cap ClientsOf(queued') = {}
  BY <1>0, <1>1 DEF OneAnswer
<1>5. \A d \in clients' : asked'[d] = answered'[d] + (IF d \in blocked' THEN 1 ELSE 0)
  BY <1>0, <1>1 DEF OneAnswer
<1>6. Strangers'  BY <1>0 DEF Strangers
<1> QED  BY <1>1, <1>4, <1>5, <1>6 DEF OneAnswer, OnePer

\* A killed client stays where it is in the lane.
LEMMA KillOutcome ==
    ASSUME TypeOK, OneOutcome, NEW c \in Client, KillClient(c)
    PROVE  OneOutcome'
<1> USE DEF OneOutcome
<1>0. /\ c \in clients /\ clients' = clients \ {c}
      /\ left' = left \cup {c} /\ killed' = killed \cup {c}
      /\ blocked' = blocked /\ queued' = queued /\ inFlight' = inFlight
      /\ asked' = asked /\ answered' = answered
  BY DEF KillClient, lane, history
<1>1. ClientsOf(queued') = ClientsOf(queued) /\ Protocols(inFlight') = Protocols(inFlight)
  BY <1>0
<1>2. OnePer(queued')  BY <1>0 DEF OneAnswer, OnePer
<1>3. /\ ClientsOf(queued') \cup Protocols(inFlight') \subseteq blocked'
      /\ blocked' \subseteq clients' \cup killed'
      /\ blocked' \cap clients' \subseteq ClientsOf(queued') \cup Protocols(inFlight')
      /\ Protocols(inFlight') \cap ClientsOf(queued') = {}
  BY <1>0, <1>1 DEF OneAnswer
<1>4. \A d \in clients' : asked'[d] = answered'[d] + (IF d \in blocked' THEN 1 ELSE 0)
  BY <1>0 DEF OneAnswer
<1>5. Strangers'  BY <1>0 DEF Strangers
<1> QED  BY <1>2, <1>3, <1>4, <1>5 DEF OneAnswer, OnePer

\* Its reader's report takes it out.
LEMMA ReportOutcome ==
    ASSUME TypeOK, OneOutcome, NEW c \in Client, ClientDisconnected(c)
    PROVE  OneOutcome'
<1> USE DEF OneOutcome
<1>0. /\ c \in killed /\ killed' = killed \ {c} /\ clients' = clients /\ left' = left
      /\ PendingCleanup(c)
      /\ asked' = asked /\ answered' = answered
  BY DEF ClientDisconnected, history
<1>1. /\ ClientsOf(queued') = ClientsOf(queued) \ {c} /\ OnePer(queued')
      /\ Protocols(inFlight') = Protocols(inFlight) \ {c}
      /\ blocked' = blocked \ {c}
  BY <1>0, CleanupFacts
<1>2. c \notin clients  BY <1>0 DEF Strangers, TypeOK
<1>3. /\ ClientsOf(queued') \cup Protocols(inFlight') \subseteq blocked'
      /\ blocked' \subseteq clients' \cup killed'
      /\ blocked' \cap clients' \subseteq ClientsOf(queued') \cup Protocols(inFlight')
      /\ Protocols(inFlight') \cap ClientsOf(queued') = {}
  BY <1>0, <1>1 DEF OneAnswer
<1>4. \A d \in clients' : asked'[d] = answered'[d] + (IF d \in blocked' THEN 1 ELSE 0)
  BY <1>0, <1>1, <1>2 DEF OneAnswer
<1>5. Strangers'  BY <1>0 DEF Strangers
<1> QED  BY <1>1, <1>3, <1>4, <1>5 DEF OneAnswer, OnePer

LEMMA ResetOutcome ==
    ASSUME TypeOK, OneOutcome, Reset
    PROVE  OneOutcome'
<1> USE DEF OneOutcome
<1>0. /\ clients' = {} /\ killed' = {} /\ left' = left \cup clients
      /\ queued' = <<>> /\ blocked' = {}
      /\ inFlight' = WithoutProtocol(inFlight)
      /\ asked' = asked /\ answered' = answered
  BY DEF Reset, history
<1>1. Protocols(inFlight') = {}  BY <1>0, WithoutProtocolFacts
<1>2. DOMAIN queued' = {}  BY <1>0
<1>3. ClientsOf(queued') = {}  BY <1>2 DEF ClientsOf
<1>4. Strangers'  BY <1>0 DEF Strangers
<1> QED  BY <1>0, <1>1, <1>2, <1>3, <1>4 DEF OneAnswer

LEMMA OutcomeStep ==
    ASSUME TypeOK, OneOutcome, [Next]_vars
    PROVE  OneOutcome'
<1>1. CASE InputThread
  <2>1. UNCHANGED <<clients, left, killed, blocked, queued, inFlight, asked, answered>>
    BY <1>1 DEF InputThread, ThreadDrain, ThreadTake, ThreadCheck, ThreadApply, ThreadPause,
                ThreadResume, ThreadWait, lane, core, history
  <2> QED  BY <2>1, SameOutcome
<1>2. CASE DeviceConfigResult
  <2>1. FinishXiConfigResult(Head(channel))  BY <1>2 DEF DeviceConfigResult
  <2> QED  BY <2>1, FinishOutcome
<1>3. CASE DeviceSuspended
  <2>1. FailQueued /\ UNCHANGED <<clients, left, killed, asked, inFlight>>  BY <1>3 DEF DeviceSuspended
  <2> QED  BY <2>1, FailQueuedOutcome
<1>4. CASE DeviceResumed \/ StaleInputPaused \/ BarrierDefers \/ VtAcquire
  <2>1. UNCHANGED <<clients, left, killed, blocked, queued, inFlight, asked, answered>>
    BY <1>4 DEF DeviceResumed, StaleInputPaused, BarrierDefers, VtAcquire, lane, core, history
  <2> QED  BY <2>1, SameOutcome
<1>5. CASE BarrierAcknowledged \/ BarrierTimesOut
  <2>1. FailInFlight /\ UNCHANGED <<clients, left, killed, asked, queued>>
    BY <1>5 DEF BarrierAcknowledged, BarrierTimesOut, EndBarrier
  <2> QED  BY <2>1, FailInFlightOutcome
<1>6. CASE VtRelease
  <2>1. FailQueued /\ UNCHANGED <<clients, left, killed, asked, inFlight>>  BY <1>6 DEF VtRelease, core
  <2> QED  BY <2>1, FailQueuedOutcome
<1>7. CASE Reset  BY <1>7, ResetOutcome
<1>8. ASSUME NEW c \in Client, Connect(c) PROVE OneOutcome'  BY <1>8, ConnectOutcome
<1>9. ASSUME NEW c \in Client, Departs(c) PROVE OneOutcome'
  BY <1>9, DisconnectOutcome, KillOutcome, ReportOutcome DEF Departs
<1>10. ASSUME NEW c \in Client, NEW v \in Value \cup {Bad}, RoutePendingXiConfig(c, v)
       PROVE  OneOutcome'
  BY <1>10, RouteRouted, RouteOutcome
<1>11. CASE UNCHANGED vars
  BY <1>11, SameOutcome DEF vars, lane, core, history
<1> QED  BY <1>1, <1>2, <1>3, <1>4, <1>5, <1>6, <1>7, <1>8, <1>9, <1>10, <1>11
            DEF Next, CoreReceives, Departs

-----------------------------------------------------------------------------
(* Types.                                                                  *)

InFlights == [token : Nat, value : Value, protocol : Client \cup {NoClient}]

\* The part of the type invariant that driving the lane touches.
LaneTyped ==
    /\ blocked \subseteq Client
    /\ queued \in Seq(Requests)
    /\ inFlight \subseteq InFlights
    /\ \A f, g \in inFlight : f = g
    /\ configs \in Seq(Writes)
    /\ efd \in BOOLEAN
    /\ nextToken \in Nat
    /\ commands \in Seq({"pause", "resume"})
    /\ cancelled \subseteq Nat
    /\ answered \in [Client -> Nat]

RestTyped ==
    /\ clients \subseteq Client /\ left \subseteq Client /\ killed \subseteq left
    /\ timedOut \subseteq Writes
    /\ rejecting \in BOOLEAN /\ enabled \in BOOLEAN
    /\ config \in Value
    /\ phase \in {"run", "barrier"} /\ vt \in {"here", "away"}
    /\ releases \in Nat /\ resets \in Nat
    /\ deferred \in Seq(InputMessages)
    /\ asked \in [Client -> Nat] /\ putAside \in BOOLEAN

InputTyped ==
    /\ channel \in Seq(InputMessages)
    /\ paused \in BOOLEAN /\ bound \in BOOLEAN
    /\ device \in Value
    /\ thread \in {"wait", "take", "check", "apply"}
    /\ wakeConfigs \in Seq(Writes)
    /\ wakeCommands \in Seq({"pause", "resume"})

LEMMA TypeParts == TypeOK <=> (LaneTyped /\ RestTyped /\ InputTyped)
<1>1. TypeOK => LaneTyped  BY DEF TypeOK, LaneTyped, InFlights, Requests
<1>2. TypeOK => RestTyped  BY DEF TypeOK, RestTyped
<1>3. TypeOK => InputTyped  BY DEF TypeOK, InputTyped
<1>4. LaneTyped /\ RestTyped /\ InputTyped => TypeOK
  BY DEF TypeOK, LaneTyped, RestTyped, InputTyped, InFlights, Requests
<1> QED  BY <1>1, <1>2, <1>3, <1>4

LEMMA TypePartsNext == TypeOK' <=> (LaneTyped' /\ RestTyped' /\ InputTyped')
<1>1. TypeOK' => LaneTyped'  BY DEF TypeOK, LaneTyped, InFlights, Requests
<1>2. TypeOK' => RestTyped'  BY DEF TypeOK, RestTyped
<1>3. TypeOK' => InputTyped'  BY DEF TypeOK, InputTyped
<1>4. LaneTyped' /\ RestTyped' /\ InputTyped' => TypeOK'
  BY DEF TypeOK, LaneTyped, RestTyped, InputTyped, InFlights, Requests
<1> QED  BY <1>1, <1>2, <1>3, <1>4

LEMMA DriveTyped ==
    ASSUME TypeOK, NEW q \in Seq(Requests), NEW done, Drive(q, done)
    PROVE  LaneTyped'
<1> DEFINE l == Len(q)
<1>0. PICK k \in 1 .. l + 1 :
        /\ k <= l => q[k].value # Bad
        /\ queued' = SubSeq(q, k + 1, l)
        /\ blocked' = (blocked \cup ClientsOf(q)) \ (done \cup ClientsOf(SubSeq(q, 1, k - 1)))
        /\ IF k > l
           THEN inFlight' = {} /\ UNCHANGED control
           ELSE /\ inFlight' = {[token |-> nextToken, value |-> q[k].value,
                                 protocol |-> q[k].client]}
                /\ configs' = Append(configs, [token |-> nextToken, value |-> q[k].value])
                /\ efd' = TRUE
                /\ nextToken' = nextToken + 1
                /\ UNCHANGED <<commands, cancelled>>
  BY DEF Drive, Submittable
<1>1. l \in Nat /\ DOMAIN q = 1 .. l /\ \A i \in 1 .. l : q[i] \in Requests  OBVIOUS
<1>2. queued' \in Seq(Requests)
  <2>1. k + 1 \in Nat /\ k + 1 >= 1 /\ l \in 0 .. l  BY <1>1
  <2> QED  BY <2>1, <1>0, PartClients
<1> HIDE DEF l
<1>3. \A i \in DOMAIN q : q[i].client \in Client  BY <1>1 DEF Requests
<1>4. blocked' \subseteq Client  BY <1>0, <1>3 DEF TypeOK, ClientsOf
<1>5. answered' \in [Client -> Nat]  BY DriveOutcomes
<1>6. LaneTyped  BY TypeParts
<1>7. CASE k > l
  <2>1. inFlight' = {} /\ UNCHANGED <<commands, configs, efd, cancelled, nextToken>>
    BY <1>0, <1>7 DEF control
  <2> QED  BY <2>1, <1>2, <1>4, <1>5, <1>6 DEF LaneTyped
<1>8. CASE ~(k > l)
  <2>1. k \in 1 .. l  BY <1>8, <1>1
  <2>2. q[k].client \in Client /\ q[k].value \in Value  BY <2>1, <1>0, <1>1 DEF Requests
  <2> DEFINE f == [token |-> nextToken, value |-> q[k].value, protocol |-> q[k].client]
             w == [token |-> nextToken, value |-> q[k].value]
  <2>3. f \in InFlights /\ w \in Writes  BY <2>2, <1>6 DEF LaneTyped, InFlights, Writes
  <2>4. /\ inFlight' = {f} /\ configs' = Append(configs, w)
        /\ efd' = TRUE /\ nextToken' = nextToken + 1 /\ UNCHANGED <<commands, cancelled>>
    BY <1>0, <1>8
  <2> HIDE DEF f, w
  <2>5. inFlight' \subseteq InFlights /\ \A g, h \in inFlight' : g = h  BY <2>3, <2>4
  <2>6. configs' \in Seq(Writes)  BY <2>3, <2>4, <1>6, AppendFacts DEF LaneTyped
  <2> QED  BY <2>4, <2>5, <2>6, <1>2, <1>4, <1>5, <1>6 DEF LaneTyped
<1> QED  BY <1>7, <1>8

\* The first message of the channel, and what is behind it.
LEMMA HeadProper ==
    ASSUME TypeOK, channel # <<>>
    PROVE  Head(channel) \in InputMessages /\ Tail(channel) \in Seq(InputMessages)
           /\ Proper(Head(channel))
<1>1. channel \in Seq(InputMessages)  BY DEF TypeOK
<1>2. Head(channel) \in InputMessages /\ Tail(channel) \in Seq(InputMessages)
  BY <1>1, TailFacts
<1> QED  BY <1>2, MessageProper

\* The write a result answers, submitted or given up.
Answered(m) == {f \in inFlight : f.token = m.token} \cup {t \in timedOut : t.token = m.token}

LEMMA AnsweredValue ==
    ASSUME TypeOK, NEW m, Answered(m) # {}
    PROVE  /\ (CHOOSE f \in Answered(m) : TRUE).value \in Value
           /\ \E t \in Known : t.token = m.token /\ t.value = (CHOOSE f \in Answered(m) : TRUE).value
<1> DEFINE f == CHOOSE f \in Answered(m) : TRUE
<1>1. f \in Answered(m)  OBVIOUS
<1> HIDE DEF f
<1>2. CASE f \in inFlight /\ f.token = m.token
  <2>1. f.value \in Value  BY <1>2 DEF TypeOK
  <2>2. [token |-> f.token, value |-> f.value] \in Known  BY <1>2 DEF Known
  <2>3. [token |-> f.token, value |-> f.value].token = m.token
        /\ [token |-> f.token, value |-> f.value].value = f.value
    BY <1>2
  <2> QED  BY <2>1, <2>2, <2>3 DEF f
<1>3. CASE f \in timedOut /\ f.token = m.token
  BY <1>3 DEF TypeOK, Known, Writes, f
<1> QED  BY <1>1, <1>2, <1>3 DEF Answered

LEMMA FinishTyped ==
    ASSUME TypeOK, NEW m, FinishXiConfigResult(m)
    PROVE  LaneTyped' /\ config' \in Value /\ timedOut' \subseteq Writes
<1> DEFINE mine == {f \in inFlight : f.token = m.token}
           late == {t \in timedOut : t.token = m.token}
<1>1. config' \in Value
  <2>1. CASE m.ok /\ Answered(m) # {}
    <3>1. config' = (CHOOSE f \in Answered(m) : TRUE).value
      BY <2>1 DEF FinishXiConfigResult, Answered
    <3> QED  BY <3>1, <2>1, AnsweredValue
  <2>2. CASE ~(m.ok /\ Answered(m) # {})
    <3>1. config' = config  BY <2>2 DEF FinishXiConfigResult, Answered
    <3> QED  BY <3>1 DEF TypeOK
  <2> QED  BY <2>1, <2>2
<1>2. timedOut' \subseteq Writes  BY DEF FinishXiConfigResult, TypeOK
<1>3. CASE mine # {} \/ (late # {} /\ inFlight = {})
  <2>1. Drive(queued, Protocols(mine) \cap clients)  BY <1>3 DEF FinishXiConfigResult
  <2>2. queued \in Seq(Requests)  BY TypeParts DEF LaneTyped
  <2>3. LaneTyped'  BY <2>1, <2>2, DriveTyped
  <2> QED  BY <2>3, <1>1, <1>2
<1>4. CASE ~(mine # {} \/ (late # {} /\ inFlight = {}))
  <2>1. UNCHANGED <<blocked, queued, inFlight, answered, commands, configs, efd, cancelled, nextToken>>
    BY <1>4 DEF FinishXiConfigResult, control
  <2>2. LaneTyped'  BY <2>1, TypeParts DEF LaneTyped
  <2> QED  BY <2>2, <1>1, <1>2
<1> QED  BY <1>3, <1>4

LEMMA RouteTyped ==
    ASSUME TypeOK, NEW c \in Client, NEW v \in Value \cup {Bad}, Routed(c, v)
    PROVE  TypeOK'
<1>0. LaneTyped /\ RestTyped /\ InputTyped  BY TypeParts
<1>1. LaneTyped'
  <2>1. CASE rejecting \/ ~enabled
    <3>1. /\ answered' = Outcome({c})
          /\ UNCHANGED <<blocked, queued, inFlight, commands, configs, efd, cancelled, nextToken>>
      BY <2>1 DEF Routed, control
    <3>2. answered' \in [Client -> Nat]  BY <3>1, OutcomeFacts
    <3> QED  BY <3>1, <3>2, <1>0 DEF LaneTyped
  <2>2. CASE ~(rejecting \/ ~enabled) /\ inFlight # {}
    <3>1. /\ queued' = Append(queued, Asking(c, v))
          /\ blocked' = blocked \cup {c}
          /\ UNCHANGED <<inFlight, commands, configs, efd, cancelled, nextToken, answered>>
      BY <2>2 DEF Routed, control
    <3>2. queued' \in Seq(Requests)  BY <3>1, Asked
    <3>3. blocked' \subseteq Client  BY <3>1, <1>0 DEF LaneTyped
    <3> QED  BY <3>1, <3>2, <3>3, <1>0 DEF LaneTyped
  <2>3. CASE ~(rejecting \/ ~enabled) /\ inFlight = {}
    <3>1. Drive(Append(queued, Asking(c, v)), {})  BY <2>3 DEF Routed
    <3> QED  BY <3>1, Asked, DriveTyped
  <2> QED  BY <2>1, <2>2, <2>3
<1>2. RestTyped'
  <2>1. /\ UNCHANGED <<timedOut, rejecting, clients, left, killed, config, enabled, phase, vt, releases,
                       resets, deferred, putAside>>
        /\ asked' = [asked EXCEPT ![c] = @ + 1]
    BY DEF Routed, core, switch
  <2>2. asked' \in [Client -> Nat]  BY <2>1, <1>0 DEF RestTyped
  <2> QED  BY <2>1, <2>2, <1>0 DEF RestTyped
<1>3. InputTyped'
  <2>1. UNCHANGED <<channel, thread, wakeCommands, wakeConfigs, paused, bound, device>>
    BY DEF Routed, input
  <2> QED  BY <2>1, <1>0 DEF InputTyped
<1> QED  BY <1>1, <1>2, <1>3, TypePartsNext

LEMMA ThreadTyped ==
    ASSUME TypeOK, ThreadInv, InputThread
    PROVE  TypeOK'
<1>0. LaneTyped /\ RestTyped /\ InputTyped  BY TypeParts
<1>1. RestTyped'
  <2>1. UNCHANGED <<timedOut, rejecting, clients, left, killed, config, enabled, phase, vt, releases,
                    resets, deferred, asked, putAside>>
    BY DEF InputThread, ThreadDrain, ThreadTake, ThreadCheck, ThreadApply, ThreadPause,
           ThreadResume, ThreadWait, lane, core, switch, history
  <2> QED  BY <2>1, <1>0 DEF RestTyped
<1>2. LaneTyped'
  <2>1. /\ UNCHANGED <<blocked, queued, inFlight, nextToken, cancelled, answered>>
        /\ efd' \in {efd, FALSE}
        /\ commands' \in {commands, <<>>} /\ configs' \in {configs, <<>>}
    BY DEF InputThread, ThreadDrain, ThreadTake, ThreadCheck, ThreadApply, ThreadPause,
           ThreadResume, ThreadWait, lane, core, control, history
  <2>2. commands' \in Seq({"pause", "resume"}) /\ configs' \in Seq(Writes)
    <3>1. <<>> \in Seq({"pause", "resume"}) /\ <<>> \in Seq(Writes)  OBVIOUS
    <3> QED  BY <3>1, <2>1, <1>0 DEF LaneTyped
  <2>3. efd' \in BOOLEAN  BY <2>1, <1>0 DEF LaneTyped
  <2> QED  BY <2>1, <2>2, <2>3, <1>0 DEF LaneTyped
<1>3. ASSUME wakeConfigs # <<>>, NEW ok \in BOOLEAN
      PROVE  /\ [kind |-> "result", token |-> Head(wakeConfigs).token, ok |-> ok] \in InputMessages
             /\ Append(channel, [kind |-> "result", token |-> Head(wakeConfigs).token, ok |-> ok])
                   \in Seq(InputMessages)
             /\ Tail(wakeConfigs) \in Seq(Writes) /\ Head(wakeConfigs).value \in Value
  <2>1. wakeConfigs \in Seq(Writes) /\ channel \in Seq(InputMessages)  BY <1>0 DEF InputTyped
  <2>2. Head(wakeConfigs) \in Writes /\ Tail(wakeConfigs) \in Seq(Writes)
    BY <2>1, <1>3, TailFacts
  <2>3. Head(wakeConfigs).token \in Nat /\ Head(wakeConfigs).value \in Value
    BY <2>2 DEF Writes
  <2>4. [kind |-> "result", token |-> Head(wakeConfigs).token, ok |-> ok] \in InputMessages
    BY <2>3, MessageMade
  <2> QED  BY <2>1, <2>2, <2>3, <2>4, AppendFacts
<1>4. ASSUME ThreadDrain PROVE InputTyped'
  BY <1>4, <1>0 DEF ThreadDrain, InputTyped, LaneTyped
<1>5. ASSUME ThreadTake PROVE InputTyped'
  BY <1>5, <1>0 DEF ThreadTake, InputTyped, LaneTyped
<1>6. ASSUME ThreadCheck PROVE InputTyped'
  <2>1. wakeConfigs # <<>> /\ UNCHANGED <<wakeCommands, paused, bound, device>>
        /\ thread' \in {"apply", "check"}
        /\ \/ SendResult(FALSE) /\ wakeConfigs' = Tail(wakeConfigs)
           \/ UNCHANGED <<channel, wakeConfigs>>
    BY <1>6 DEF ThreadCheck
  <2>2. channel' \in Seq(InputMessages) /\ wakeConfigs' \in Seq(Writes)
    BY <2>1, <1>0, <1>3 DEF SendResult, InputTyped
  <2> QED  BY <2>1, <2>2, <1>0 DEF InputTyped
<1>7. ASSUME ThreadApply PROVE InputTyped'
  <2>1. wakeConfigs # <<>>  BY <1>7 DEF ThreadApply, ThreadInv
  <2>2. /\ wakeConfigs' = Tail(wakeConfigs) /\ UNCHANGED <<wakeCommands, paused, bound>>
        /\ thread' = "check"
        /\ \/ device' = Head(wakeConfigs).value /\ SendResult(TRUE)
           \/ UNCHANGED device /\ SendResult(FALSE)
    BY <1>7 DEF ThreadApply
  <2>3. channel' \in Seq(InputMessages) /\ wakeConfigs' \in Seq(Writes) /\ device' \in Value
    BY <2>1, <2>2, <1>0, <1>3 DEF SendResult, InputTyped
  <2> QED  BY <2>2, <2>3, <1>0 DEF InputTyped
<1>8. ASSUME ThreadPause PROVE InputTyped'
  <2>1. /\ wakeCommands # <<>> /\ wakeCommands' = Tail(wakeCommands)
        /\ UNCHANGED <<thread, wakeConfigs, device>>
        /\ bound' \in {bound, FALSE} /\ paused' = TRUE
        /\ channel' = channel \o (IF ~paused /\ bound THEN <<[kind |-> "suspended"]>> ELSE <<>>)
                          \o <<[kind |-> "paused"]>>
    BY <1>8 DEF ThreadPause
  <2>2. wakeCommands' \in Seq({"pause", "resume"})  BY <2>1, <1>0, TailFacts DEF InputTyped
  <2>3. channel' \in Seq(InputMessages)
    <3>1. <<[kind |-> "suspended"]>> \in Seq(InputMessages)
          /\ <<[kind |-> "paused"]>> \in Seq(InputMessages) /\ <<>> \in Seq(InputMessages)
      BY MessageMade
    <3>2. channel \in Seq(InputMessages)  BY <1>0 DEF InputTyped
    <3> QED  BY <3>1, <3>2, <2>1
  <2> QED  BY <2>1, <2>2, <2>3, <1>0 DEF InputTyped
<1>9. ASSUME ThreadResume PROVE InputTyped'
  <2>1. /\ wakeCommands # <<>> /\ wakeCommands' = Tail(wakeCommands)
        /\ UNCHANGED <<thread, wakeConfigs>>
        /\ \/ /\ paused' = FALSE /\ bound' = TRUE /\ device' \in Value
              /\ channel' = Append(channel, [kind |-> "resumed", value |-> device'])
           \/ UNCHANGED <<paused, bound, device, channel>>
    BY <1>9 DEF ThreadResume
  <2>2. wakeCommands' \in Seq({"pause", "resume"})  BY <2>1, <1>0, TailFacts DEF InputTyped
  <2>3. device' \in Value => [kind |-> "resumed", value |-> device'] \in InputMessages
    BY MessageMade
  <2> DEFINE r == [kind |-> "resumed", value |-> device']
  <2>4. channel' \in Seq(InputMessages)
    <3>1. channel \in Seq(InputMessages)  BY <1>0 DEF InputTyped
    <3>2. device' \in Value => Append(channel, r) \in Seq(InputMessages)
      <4> HIDE DEF r
      <4>1. r \in InputMessages => Append(channel, r) \in Seq(InputMessages)  BY <3>1, AppendFacts
      <4> QED  BY <4>1, <2>3 DEF r
    <3> QED  BY <3>1, <3>2, <2>1
  <2> QED  BY <2>1, <2>2, <2>4, <1>0 DEF InputTyped
<1>10. ASSUME ThreadWait PROVE InputTyped'
  BY <1>10, <1>0 DEF ThreadWait, InputTyped
<1>11. InputTyped'
  BY <1>4, <1>5, <1>6, <1>7, <1>8, <1>9, <1>10 DEF InputThread
<1> QED  BY <1>1, <1>2, <1>11, TypePartsNext

LEMMA ReceiveTyped ==
    ASSUME TypeOK, DeviceConfigResult \/ DeviceSuspended \/ DeviceResumed \/ StaleInputPaused
                       \/ BarrierDefers
    PROVE  TypeOK'
<1>0. LaneTyped /\ RestTyped /\ InputTyped  BY TypeParts
<1>1. channel # <<>> /\ channel' = Tail(channel)
  BY DEF DeviceConfigResult, DeviceSuspended, DeviceResumed, StaleInputPaused, BarrierDefers
<1>2. channel' \in Seq(InputMessages) /\ Head(channel) \in InputMessages /\ Proper(Head(channel))
  BY <1>1, HeadProper
<1>3. InputTyped'
  <2>1. UNCHANGED <<thread, wakeCommands, wakeConfigs, paused, bound, device>>
    BY DEF DeviceConfigResult, DeviceSuspended, DeviceResumed, StaleInputPaused, BarrierDefers, input
  <2> QED  BY <2>1, <1>2, <1>0 DEF InputTyped
<1>4. CASE DeviceConfigResult
  <2>1. FinishXiConfigResult(Head(channel)) /\ UNCHANGED <<phase, vt, releases, resets, deferred>>
    BY <1>4 DEF DeviceConfigResult, switch
  <2>2. UNCHANGED <<rejecting, clients, left, killed, enabled, asked, putAside>>
    BY <2>1 DEF FinishXiConfigResult
  <2>3. LaneTyped' /\ config' \in Value /\ timedOut' \subseteq Writes  BY <2>1, FinishTyped
  <2>4. RestTyped'  BY <2>1, <2>2, <2>3, <1>0 DEF RestTyped
  <2> QED  BY <2>3, <2>4, <1>3, TypePartsNext
<1>5. CASE DeviceSuspended
  <2>1. /\ enabled' = FALSE /\ FailQueued
        /\ UNCHANGED <<inFlight, timedOut, rejecting, clients, left, killed, config, phase, vt, releases,
                       resets, deferred, commands, configs, efd, cancelled, nextToken, asked, putAside>>
    BY <1>5 DEF DeviceSuspended, switch, control
  <2>2. /\ answered' \in [Client -> Nat] /\ blocked' \subseteq Client /\ queued' \in Seq(Requests)
    BY <2>1, <1>0, OutcomeFacts DEF FailQueued, LaneTyped
  <2>3. LaneTyped'  BY <2>1, <2>2, <1>0 DEF LaneTyped
  <2>4. RestTyped'  BY <2>1, <1>0 DEF RestTyped
  <2> QED  BY <2>3, <2>4, <1>3, TypePartsNext
<1>6. CASE DeviceResumed
  <2>1. /\ enabled' = TRUE /\ config' = Head(channel).value /\ Head(channel).kind = "resumed"
        /\ UNCHANGED <<blocked, queued, inFlight, timedOut, rejecting, clients, left, killed, phase, vt,
                       releases, resets, deferred, commands, configs, efd, cancelled, nextToken,
                       asked, answered, putAside>>
    BY <1>6 DEF DeviceResumed, lane, switch, control, history
  <2>2. config' \in Value  BY <2>1, <1>2 DEF Proper
  <2>3. LaneTyped'  BY <2>1, <1>0 DEF LaneTyped
  <2>4. RestTyped'  BY <2>1, <2>2, <1>0 DEF RestTyped
  <2> QED  BY <2>3, <2>4, <1>3, TypePartsNext
<1>7. CASE StaleInputPaused \/ BarrierDefers
  <2>1. /\ UNCHANGED <<blocked, queued, inFlight, timedOut, rejecting, clients, left, killed, config,
                       enabled, phase, vt, releases, resets, commands, configs, efd, cancelled,
                       nextToken, asked, answered>>
        /\ deferred' \in {deferred, Append(deferred, Head(channel))}
        /\ putAside' \in BOOLEAN
    BY <1>7, <1>0 DEF StaleInputPaused, BarrierDefers, lane, core, switch, control, history, RestTyped
  <2>2. deferred' \in Seq(InputMessages)
    <3>1. deferred \in Seq(InputMessages)  BY <1>0 DEF RestTyped
    <3>2. Append(deferred, Head(channel)) \in Seq(InputMessages)  BY <3>1, <1>2, AppendFacts
    <3> QED  BY <3>1, <3>2, <2>1
  <2>3. LaneTyped'  BY <2>1, <1>0 DEF LaneTyped
  <2>4. RestTyped'  BY <2>1, <2>2, <1>0 DEF RestTyped
  <2> QED  BY <2>3, <2>4, <1>3, TypePartsNext
<1> QED  BY <1>4, <1>5, <1>6, <1>7

\* The channel once the barrier has ended: what was put aside is back in it.
LEMMA BarrierEnds ==
    ASSUME TypeOK, BarrierAcknowledged \/ BarrierTimesOut
    PROVE  /\ phase = "barrier"
           /\ \E rest \in Seq(InputMessages) :
                 /\ \/ rest = channel
                    \/ channel # <<>> /\ Head(channel).kind = "paused" /\ rest = Tail(channel)
                 /\ EndBarrier(rest)
                 /\ \E j \in 0 .. Len(rest) : channel' = Spliced(rest, deferred, j)
<1>1. CASE BarrierAcknowledged
  <2>1. Tail(channel) \in Seq(InputMessages)  BY <1>1, HeadProper DEF BarrierAcknowledged
  <2>2. EndBarrier(Tail(channel))  BY <1>1 DEF BarrierAcknowledged
  <2>3. \E j \in 0 .. Len(Tail(channel)) : channel' = Spliced(Tail(channel), deferred, j)
    BY <2>2 DEF EndBarrier, Spliced
  <2> QED  BY <1>1, <2>1, <2>2, <2>3 DEF BarrierAcknowledged
<1>2. CASE BarrierTimesOut
  <2>1. channel \in Seq(InputMessages)  BY DEF TypeOK
  <2>2. EndBarrier(channel) /\ phase = "barrier"  BY <1>2 DEF BarrierTimesOut
  <2>3. \E j \in 0 .. Len(channel) : channel' = Spliced(channel, deferred, j)
    BY <2>2 DEF EndBarrier, Spliced
  <2> QED  BY <2>1, <2>2, <2>3
<1> QED  BY <1>1, <1>2

LEMMA FailInFlightKnown ==
    ASSUME TypeOK, FailInFlight
    PROVE  Known' = Known /\ timedOut' \subseteq Writes
<1>1. /\ timedOut' = timedOut \cup {[token |-> f.token, value |-> f.value] : f \in inFlight}
      /\ inFlight' = {}
  BY DEF FailInFlight
<1>2. Known' = Known  BY <1>1 DEF Known
<1>3. Known \subseteq Writes  BY KnownWrites
<1> QED  BY <1>1, <1>2, <1>3 DEF Known

LEMMA BarrierEndTyped ==
    ASSUME TypeOK, BarrierAcknowledged \/ BarrierTimesOut
    PROVE  TypeOK'
<1>0. LaneTyped /\ RestTyped /\ InputTyped  BY TypeParts
<1>1. PICK rest \in Seq(InputMessages) :
        /\ EndBarrier(rest)
        /\ \E j \in 0 .. Len(rest) : channel' = Spliced(rest, deferred, j)
  BY BarrierEnds
<1>2. channel' \in Seq(InputMessages)
  <2> PICK j \in 0 .. Len(rest) : channel' = Spliced(rest, deferred, j)  BY <1>1
  <2>1. deferred \in Seq(InputMessages)  BY <1>0 DEF RestTyped
  <2> QED  BY <2>1, SpliceFacts
<1>3. /\ phase' = "run" /\ vt' = "away" /\ deferred' = <<>> /\ FailInFlight
      /\ rejecting' = FALSE /\ enabled' = FALSE
      /\ UNCHANGED <<queued, clients, left, killed, config, releases, resets, commands, configs, efd,
                     nextToken, thread, wakeCommands, wakeConfigs, paused, bound, device, asked,
                     putAside>>
  BY <1>1 DEF EndBarrier, input
<1>4. InputTyped'  BY <1>2, <1>3, <1>0 DEF InputTyped
<1>5. RestTyped'
  <2>1. timedOut' \subseteq Writes  BY <1>3, FailInFlightKnown
  <2>2. deferred' \in Seq(InputMessages)  BY <1>3
  <2> QED  BY <2>1, <2>2, <1>3, <1>0 DEF RestTyped
<1>6. LaneTyped'
  <2>1. /\ cancelled' = cancelled \cup {f.token : f \in inFlight}
        /\ answered' = Outcome(Protocols(inFlight) \cap clients)
        /\ blocked' = blocked \ Protocols(inFlight)
        /\ inFlight' = {}
    BY <1>3 DEF FailInFlight
  <2>2. \A f \in inFlight : f.token \in Nat  BY <1>0 DEF LaneTyped, InFlights
  <2>3. cancelled' \subseteq Nat  BY <2>1, <2>2, <1>0 DEF LaneTyped
  <2>4. answered' \in [Client -> Nat]  BY <2>1, OutcomeFacts
  <2>5. blocked' \subseteq Client  BY <2>1, <1>0 DEF LaneTyped
  <2>6. inFlight' \subseteq InFlights /\ \A f, g \in inFlight' : f = g  BY <2>1
  <2>7. UNCHANGED <<queued, configs, efd, nextToken, commands>>  BY <1>3
  <2> QED  BY <2>3, <2>4, <2>5, <2>6, <2>7, <1>0 DEF LaneTyped
<1> QED  BY <1>4, <1>5, <1>6, TypePartsNext

LEMMA SwitchTyped ==
    ASSUME TypeOK, VtRelease \/ VtAcquire
    PROVE  TypeOK'
<1>0. LaneTyped /\ RestTyped /\ InputTyped  BY TypeParts
<1>1. InputTyped'
  <2>1. UNCHANGED <<channel, thread, wakeCommands, wakeConfigs, paused, bound, device>>
    BY DEF VtRelease, VtAcquire, input
  <2> QED  BY <2>1, <1>0 DEF InputTyped
<1>2. LaneTyped'
  <2>1. /\ commands' \in {Append(commands, "pause"), Append(commands, "resume")}
        /\ efd' = TRUE
        /\ UNCHANGED <<inFlight, configs, cancelled, nextToken>>
        /\ FailQueued \/ UNCHANGED <<answered, blocked, queued>>
    BY DEF VtRelease, VtAcquire, lane, history
  <2>2. answered' \in [Client -> Nat] /\ blocked' \subseteq Client /\ queued' \in Seq(Requests)
    <3>1. CASE FailQueued
      <4>1. answered' \in [Client -> Nat]  BY <3>1, OutcomeFacts DEF FailQueued
      <4>2. blocked' \subseteq Client /\ queued' \in Seq(Requests)
        BY <3>1, <1>0 DEF FailQueued, LaneTyped
      <4> QED  BY <4>1, <4>2
    <3>2. CASE UNCHANGED <<answered, blocked, queued>>  BY <3>2, <1>0 DEF LaneTyped
    <3> QED  BY <2>1, <3>1, <3>2
  <2>3. commands' \in Seq({"pause", "resume"})
    <3>1. commands \in Seq({"pause", "resume"})  BY <1>0 DEF LaneTyped
    <3>2. \A x \in {"pause", "resume"} : Append(commands, x) \in Seq({"pause", "resume"})
      BY <3>1, AppendFacts
    <3> QED  BY <2>1, <3>2
  <2> QED  BY <2>1, <2>2, <2>3, <1>0 DEF LaneTyped
<1>3. RestTyped'
  <2>1. /\ rejecting' \in {rejecting, TRUE}
        /\ phase' \in {phase, "barrier"} /\ vt' \in {vt, "here"}
        /\ releases' \in {releases, releases + 1}
        /\ UNCHANGED <<clients, left, killed, timedOut, enabled, config, resets, deferred, asked, putAside>>
    BY DEF VtRelease, VtAcquire, lane, core, history
  <2>2. rejecting' \in BOOLEAN /\ phase' \in {"run", "barrier"} /\ vt' \in {"here", "away"}
    BY <2>1, <1>0 DEF RestTyped
  <2>3. releases' \in Nat  BY <2>1, <1>0 DEF RestTyped
  <2> QED  BY <2>1, <2>2, <2>3, <1>0 DEF RestTyped
<1> QED  BY <1>1, <1>2, <1>3, TypePartsNext

LEMMA ClientTyped ==
    ASSUME TypeOK, OneAnswer,
           Reset \/ \E c \in Client : Connect(c) \/ Departs(c)
    PROVE  TypeOK'
<1>0. LaneTyped /\ RestTyped /\ InputTyped  BY TypeParts
<1>1. InputTyped'
  <2>1. UNCHANGED <<channel, thread, wakeCommands, wakeConfigs, paused, bound, device>>
    BY DEF Reset, Connect, Departs, Disconnect, KillClient, ClientDisconnected,
         PendingCleanup, input
  <2> QED  BY <2>1, <1>0 DEF InputTyped
<1>2. RestTyped'
  <2>1. UNCHANGED <<timedOut, rejecting, enabled, config, phase, vt, releases, deferred, asked,
                    putAside>>
    BY DEF Reset, Connect, Departs, Disconnect, KillClient, ClientDisconnected,
         PendingCleanup, lane, switch, history
  <2>2. resets' \in {resets, resets + 1}  BY DEF Reset, Connect, Departs, Disconnect, KillClient, ClientDisconnected,
         PendingCleanup, switch
  <2>3. clients' \subseteq Client /\ left' \subseteq Client /\ killed' \subseteq left'
    BY <1>0 DEF Reset, Connect, Departs, Disconnect, KillClient, ClientDisconnected,
         PendingCleanup, RestTyped
  <2> QED  BY <2>1, <2>2, <2>3, <1>0 DEF RestTyped
<1>3. LaneTyped'
  <2>1. UNCHANGED <<configs, efd, nextToken, commands, cancelled, answered>>
    BY DEF Reset, Connect, Departs, Disconnect, KillClient, ClientDisconnected,
         PendingCleanup, control, history
  <2>2. blocked' \subseteq Client  BY <1>0 DEF Reset, Connect, Departs, Disconnect, KillClient, ClientDisconnected,
         PendingCleanup, lane, LaneTyped
  <2>3. queued' \in Seq(Requests)
    <3>1. OnePer(queued)  BY DEF OneAnswer, OnePer
    <3>2. \A c : Without(queued, c) \in Seq(Requests)  BY <3>1, <1>0, WithoutFacts DEF LaneTyped
    <3>3. \/ queued' = queued \/ queued' = <<>>
          \/ \E c : queued' = Without(queued, c)
      BY DEF Reset, Connect, Departs, Disconnect, KillClient, ClientDisconnected,
         PendingCleanup, lane
    <3>4. queued \in Seq(Requests) /\ <<>> \in Seq(Requests)  BY <1>0 DEF LaneTyped
    <3> QED  BY <3>2, <3>3, <3>4
  <2>4. inFlight' \subseteq InFlights /\ \A f, g \in inFlight' : f = g
    <3>1. inFlight' \in {inFlight, WithoutProtocol(inFlight)}
      BY DEF Reset, Connect, Departs, Disconnect, KillClient, ClientDisconnected,
         PendingCleanup, lane
    <3> QED  BY <3>1, <1>0, WithoutProtocolFacts DEF LaneTyped, InFlights
  <2> QED  BY <2>1, <2>2, <2>3, <2>4, <1>0 DEF LaneTyped
<1> QED  BY <1>1, <1>2, <1>3, TypePartsNext

LEMMA TypeStep ==
    ASSUME TypeOK, OneAnswer, ThreadInv, [Next]_vars
    PROVE  TypeOK'
<1>1. ASSUME NEW c \in Client, NEW v \in Value \cup {Bad}, RoutePendingXiConfig(c, v)
      PROVE  TypeOK'
  BY <1>1, RouteRouted, RouteTyped
<1>2. CASE UNCHANGED vars
  <2>1. LaneTyped /\ RestTyped /\ InputTyped  BY TypeParts
  <2>2. LaneTyped'
    BY <2>1, <1>2 DEF LaneTyped, vars, lane, control, history
  <2>3. RestTyped'
    BY <2>1, <1>2 DEF RestTyped, vars, lane, core, switch, history
  <2>4. InputTyped'
    BY <2>1, <1>2 DEF InputTyped, vars, input
  <2> QED  BY <2>2, <2>3, <2>4, TypePartsNext
<1> QED  BY <1>1, <1>2, ThreadTyped, ReceiveTyped, BarrierEndTyped, SwitchTyped, ClientTyped
            DEF Next, Departs, CoreReceives

-----------------------------------------------------------------------------
(* The input thread, and the phases of a VT switch.                        *)

LEMMA ThreadStep ==
    ASSUME TypeOK, ThreadInv, [Next]_vars
    PROVE  ThreadInv'
<1>1. CASE InputThread
  <2>1. CASE ThreadDrain  BY <2>1 DEF ThreadDrain, ThreadInv
  <2>2. CASE ThreadTake  BY <2>2 DEF ThreadTake, ThreadInv
  <2>3. CASE ThreadCheck  BY <2>3 DEF ThreadCheck, ThreadInv
  <2>4. CASE ThreadApply  BY <2>4 DEF ThreadApply, ThreadInv
  <2>5. CASE ThreadPause  BY <2>5 DEF ThreadPause, ThreadInv
  <2>6. CASE ThreadResume
    <3>1. thread = "check" /\ thread' = thread
      BY <2>6 DEF ThreadResume
    <3>2. bound' <=> ~paused'  BY <2>6 DEF ThreadResume, ThreadInv
    <3> QED  BY <3>1, <3>2 DEF ThreadInv
  <2>7. CASE ThreadWait  BY <2>7 DEF ThreadWait, ThreadInv
  <2> QED  BY <1>1, <2>1, <2>2, <2>3, <2>4, <2>5, <2>6, <2>7 DEF InputThread
<1>2. CASE ~InputThread
  <2>1. UNCHANGED input
    <3>1. \A c, v : RoutePendingXiConfig(c, v) => UNCHANGED input
      BY RouteRouted DEF Routed
    <3> QED
      BY <1>2, <3>1 DEF Next, Departs, CoreReceives, DeviceConfigResult, DeviceSuspended, DeviceResumed,
         StaleInputPaused, BarrierDefers, BarrierAcknowledged, BarrierTimesOut, EndBarrier,
         VtRelease, VtAcquire, Reset, Connect, Departs, Disconnect, KillClient, ClientDisconnected,
         PendingCleanup, vars
  <2> QED  BY <2>1 DEF input, ThreadInv
<1> QED  BY <1>1, <1>2

\* A device whose thread ends up paused is not settled.
LEMMA PausedUnsettled ==
    ASSUME TypeOK, ThreadInv, EndsPaused
    PROVE  ~Settled
<1>1. commands \in Seq({"pause", "resume"}) /\ wakeCommands \in Seq({"pause", "resume"})
  BY DEF TypeOK
<1>2. CASE commands # <<>>
  <2>1. Len(commands) \in DOMAIN commands  BY <1>1, <1>2
  <2> QED  BY <2>1, <1>2 DEF EndsPaused, Settled
<1>3. CASE commands = <<>> /\ wakeCommands # <<>>
  <2>1. Len(wakeCommands) \in DOMAIN wakeCommands  BY <1>1, <1>3
  <2> QED  BY <2>1, <1>3 DEF EndsPaused, Settled
<1>4. CASE commands = <<>> /\ wakeCommands = <<>>
  BY <1>4 DEF EndsPaused, Settled, ThreadInv
<1> QED  BY <1>2, <1>3, <1>4

LEMMA EndsPausedKept ==
    ASSUME EndsPaused, UNCHANGED <<commands, wakeCommands, paused>>
    PROVE  EndsPaused'
BY DEF EndsPaused

\* The thread itself keeps what its commands will lead to.
LEMMA EndsPausedThread ==
    ASSUME TypeOK, ThreadInv, EndsPaused, InputThread
    PROVE  EndsPaused'
<1>1. CASE ThreadDrain
  BY <1>1 DEF ThreadDrain, EndsPaused, ThreadInv
<1>2. CASE ThreadTake \/ ThreadCheck \/ ThreadApply \/ ThreadWait
  BY <1>2, EndsPausedKept DEF ThreadTake, ThreadCheck, ThreadApply, ThreadWait, control
<1>3. CASE ThreadPause \/ ThreadResume
  <2>1. /\ wakeCommands # <<>> /\ wakeCommands' = Tail(wakeCommands) /\ commands' = commands
        /\ \/ Head(wakeCommands) = "pause" /\ paused' = TRUE
           \/ Head(wakeCommands) = "resume"
    BY <1>3 DEF ThreadPause, ThreadResume, control
  <2>2. wakeCommands \in Seq({"pause", "resume"})  BY DEF TypeOK
  <2>3. CASE Len(wakeCommands) = 1
    <3>1. wakeCommands' = <<>> /\ wakeCommands[Len(wakeCommands)] = Head(wakeCommands)
      BY <2>1, <2>2, <2>3
    <3> QED  BY <3>1, <2>1 DEF EndsPaused
  <2>4. CASE Len(wakeCommands) # 1
    <3>1. /\ wakeCommands' # <<>>
          /\ wakeCommands'[Len(wakeCommands')] = wakeCommands[Len(wakeCommands)]
      <4> DEFINE n == Len(wakeCommands)
      <4>1. /\ Tail(wakeCommands) \in Seq({"pause", "resume"})
            /\ DOMAIN Tail(wakeCommands) = 1 .. n - 1
            /\ \A i \in 1 .. n - 1 : Tail(wakeCommands)[i] = wakeCommands[i + 1]
            /\ n \in Nat /\ n >= 1
        BY <2>1, <2>2, TailFacts
      <4>2. Len(Tail(wakeCommands)) = n - 1  BY <4>1
      <4> HIDE DEF n
      <4>3. n - 1 \in 1 .. n - 1 /\ (n - 1) + 1 = n /\ Len(Tail(wakeCommands)) # 0
        BY <4>1, <4>2, <2>4 DEF n
      <4>4. Tail(wakeCommands)[n - 1] = wakeCommands[n]  BY <4>1, <4>3
      <4>5. Tail(wakeCommands) # <<>>
        <5>1. Len(<<>>) = 0  OBVIOUS
        <5> QED  BY <5>1, <4>3
      <4>6. wakeCommands'[Len(wakeCommands')] = wakeCommands[n]  BY <4>2, <4>4, <2>1
      <4> QED  BY <4>5, <4>6, <2>1 DEF n
    <3> QED  BY <3>1, <2>1 DEF EndsPaused
  <2> QED  BY <2>3, <2>4
<1> QED  BY <1>1, <1>2, <1>3 DEF InputThread

LEMMA PhaseStep ==
    ASSUME TypeOK, ThreadInv, PhaseInv, [Next]_vars
    PROVE  PhaseInv'
<1>1. CASE InputThread
  <2>1. UNCHANGED <<phase, vt, deferred, putAside>>
    BY <1>1 DEF InputThread, ThreadDrain, ThreadTake, ThreadCheck, ThreadApply, ThreadPause,
           ThreadResume, ThreadWait, switch, history
  <2>2. EndsPaused => EndsPaused'  BY <1>1, EndsPausedThread
  <2> QED  BY <2>1, <2>2 DEF PhaseInv
<1>2. CASE VtRelease
  <2>1. /\ phase = "run" /\ commands' = Append(commands, "pause")
        /\ UNCHANGED <<deferred, putAside>>
    BY <1>2 DEF VtRelease
  <2>2. commands \in Seq({"pause", "resume"})  BY DEF TypeOK
  <2>3. commands' # <<>> /\ commands'[Len(commands')] = "pause"  BY <2>1, <2>2
  <2>4. EndsPaused'  BY <2>3 DEF EndsPaused
  <2>5. deferred' = <<>> /\ DOMAIN deferred' = {}  BY <2>1 DEF PhaseInv
  <2> QED  BY <2>4, <2>5 DEF PhaseInv
<1>3. CASE VtAcquire
  BY <1>3 DEF VtAcquire, PhaseInv, history
<1>4. CASE BarrierDefers
  <2>1. /\ phase = "barrier" /\ Switches(Head(channel)) /\ channel # <<>>
        /\ deferred' = Append(deferred, Head(channel))
        /\ putAside' = (putAside \/ Head(channel).kind = "resumed")
        /\ UNCHANGED <<phase, vt, commands, wakeCommands, paused>>
    BY <1>4 DEF BarrierDefers, control, input, Switches
  <2>2. EndsPaused'  BY <2>1, EndsPausedKept DEF PhaseInv
  <2>3. deferred \in Seq(InputMessages) /\ Head(channel) \in InputMessages
    BY <2>1, HeadProper DEF TypeOK
  <2>4. /\ DOMAIN deferred = 1 .. Len(deferred) /\ Len(deferred) \in Nat
        /\ DOMAIN deferred' = 1 .. Len(deferred) + 1
        /\ \A i \in 1 .. Len(deferred) : deferred'[i] = deferred[i]
        /\ deferred'[Len(deferred) + 1] = Head(channel)
    BY <2>1, <2>3, AppendFacts
  <2>5. \A i \in DOMAIN deferred' : \/ i \in DOMAIN deferred /\ deferred'[i] = deferred[i]
                                    \/ deferred'[i] = Head(channel)
    BY <2>4
  <2>6. ~putAside' => ~putAside /\ Head(channel).kind = "suspended"
    BY <2>1 DEF Switches
  <2>7. ASSUME NEW i \in DOMAIN deferred'
        PROVE  Switches(deferred'[i]) /\ (~putAside' => deferred'[i].kind = "suspended")
    BY <2>1, <2>5, <2>6 DEF PhaseInv
  <2> QED  BY <2>1, <2>2, <2>7 DEF PhaseInv
<1>5. CASE BarrierAcknowledged \/ BarrierTimesOut
  <2>1. /\ phase = "barrier" /\ deferred' = <<>>
        /\ UNCHANGED <<commands, wakeCommands, paused>>
    BY <1>5 DEF BarrierAcknowledged, BarrierTimesOut, EndBarrier, input
  <2>2. EndsPaused'  BY <2>1, EndsPausedKept DEF PhaseInv
  <2>3. DOMAIN deferred' = {}  BY <2>1
  <2> QED  BY <2>1, <2>2, <2>3 DEF PhaseInv
<1>6. ASSUME UNCHANGED <<phase, vt, deferred, putAside, commands, wakeCommands, paused>>
      PROVE  PhaseInv'
  BY <1>6, EndsPausedKept DEF PhaseInv
<1>7. CASE DeviceConfigResult
  <2>1. /\ UNCHANGED <<phase, vt, deferred, wakeCommands, paused, putAside>>
        /\ FinishXiConfigResult(Head(channel))
    BY <1>7 DEF DeviceConfigResult, FinishXiConfigResult, switch, input
  <2>2. commands' = commands  BY <2>1 DEF FinishXiConfigResult, Drive, control
  <2> QED  BY <2>1, <2>2, <1>6
<1>8. ASSUME NEW c \in Client, NEW v \in Value \cup {Bad}, RoutePendingXiConfig(c, v)
      PROVE  PhaseInv'
  <2>1. Routed(c, v)  BY <1>8, RouteRouted
  <2>2. UNCHANGED <<phase, vt, deferred, wakeCommands, paused, putAside>>
    BY <2>1 DEF Routed, switch, input
  <2>3. commands' = commands  BY <2>1 DEF Routed, Drive, control
  <2> QED  BY <2>2, <2>3, <1>6
<1>9. CASE DeviceSuspended \/ DeviceResumed \/ StaleInputPaused \/ Reset
              \/ \E c \in Client : Connect(c) \/ Departs(c)
  <2>1. UNCHANGED <<phase, vt, deferred, putAside, commands, wakeCommands, paused>>
    BY <1>9 DEF DeviceSuspended, DeviceResumed, StaleInputPaused, Reset, Connect, Departs, Disconnect, KillClient, ClientDisconnected,
         PendingCleanup,
                switch, control, input, history
  <2> QED  BY <2>1, <1>6
<1>10. CASE UNCHANGED vars
  BY <1>10, <1>6 DEF vars, switch, control, input, history
<1> QED  BY <1>1, <1>2, <1>3, <1>4, <1>5, <1>7, <1>8, <1>9, <1>10 DEF Next, Departs, CoreReceives

-----------------------------------------------------------------------------
(* The pipeline: each step.                                                *)

LEMMA SameKnown ==
    ASSUME UNCHANGED <<inFlight, timedOut>>
    PROVE  Known' = Known
BY DEF Known

LEMMA WithoutProtocolKnown ==
    ASSUME TypeOK, inFlight' = WithoutProtocol(inFlight), timedOut' = timedOut
    PROVE  Known' = Known
<1>1. \A f \in inFlight' : \E g \in inFlight : f.token = g.token /\ f.value = g.value
  BY WithoutProtocolFacts
<1>2. \A g \in inFlight : \E f \in inFlight' : f.token = g.token /\ f.value = g.value
  BY WithoutProtocolFacts
<1>3. {[token |-> f.token, value |-> f.value] : f \in inFlight'} =
          {[token |-> f.token, value |-> f.value] : f \in inFlight}
  BY <1>1, <1>2
<1> QED  BY <1>3 DEF Known

\* The steps of the thread that answer a write.
LEMMA SendPipe ==
    ASSUME TypeOK, PipeInv, wakeConfigs # <<>>, NEW ok \in BOOLEAN, SendResult(ok),
           wakeConfigs' = Tail(wakeConfigs), UNCHANGED <<configs, inFlight, timedOut, nextToken>>
    PROVE  PipeInv'
<1> DEFINE m == [kind |-> "result", token |-> Head(wakeConfigs).token, ok |-> ok]
<1>1. channel \in Seq(InputMessages) /\ wakeConfigs \in Seq(Writes)  BY DEF TypeOK
<1>2. Head(wakeConfigs) \in Writes  BY <1>1, TailFacts
<1>3. Head(wakeConfigs).token \in Nat  BY <1>2 DEF Writes
<1>4. m \in InputMessages  BY <1>3, MessageMade
<1>5. m.kind = "result" /\ m.token = Head(wakeConfigs).token  OBVIOUS
<1>6. channel' = Append(channel, m)  BY DEF SendResult
<1> HIDE DEF m
<1>7. Pipe(Append(channel, m), Tail(wakeConfigs), configs, Known, nextToken)
  BY <1>1, <1>4, <1>5, PipeSend DEF PipeInv
<1>8. Known' = Known  BY SameKnown
<1> QED  BY <1>6, <1>7, <1>8 DEF PipeInv

\* The same results are in the channel and nothing else moves.
LEMMA SamePipe ==
    ASSUME PipeInv, SameAnswers(channel, channel'), Known' = Known,
           UNCHANGED <<wakeConfigs, configs, nextToken>>
    PROVE  PipeInv'
<1>1. Pipe(channel', wakeConfigs, configs, Known, nextToken)  BY PipeSame DEF PipeInv
<1> QED  BY <1>1 DEF PipeInv

LEMMA PausePipe ==
    ASSUME TypeOK, NEW s \in BOOLEAN,
           channel' = channel \o (IF s THEN <<[kind |-> "suspended"]>> ELSE <<>>)
                          \o <<[kind |-> "paused"]>>
    PROVE  \/ channel' = Append(channel, [kind |-> "paused"])
           \/ channel' = Append(Append(channel, [kind |-> "suspended"]), [kind |-> "paused"])
<1> DEFINE a == [kind |-> "suspended"]
           b == [kind |-> "paused"]
<1>0. channel \in Seq(InputMessages) /\ a \in InputMessages /\ b \in InputMessages
  BY MessageMade DEF TypeOK
<1> HIDE DEF a, b
<1>1. channel \o <<>> = channel  BY <1>0
<1>2. \A c \in Seq(InputMessages), e \in InputMessages : c \o <<e>> = Append(c, e)
  OBVIOUS
<1>3. Append(channel, a) \in Seq(InputMessages)  BY <1>0
<1>4. CASE s
  <2>1. channel' = channel \o <<a>> \o <<b>>  BY <1>4 DEF a, b
  <2>2. channel' = Append(Append(channel, a), b)  BY <2>1, <1>0, <1>2, <1>3
  <2> QED  BY <2>2 DEF a, b
<1>5. CASE ~s
  <2>1. channel' = channel \o <<>> \o <<b>>  BY <1>5 DEF b
  <2>2. channel' = Append(channel, b)  BY <2>1, <1>0, <1>1, <1>2
  <2> QED  BY <2>2 DEF b
<1> QED  BY <1>4, <1>5

LEMMA PipeThread ==
    ASSUME TypeOK, ThreadInv, PipeInv, InputThread
    PROVE  PipeInv'
<1>0. UNCHANGED <<inFlight, timedOut, nextToken>>
  BY DEF InputThread, ThreadDrain, ThreadTake, ThreadCheck, ThreadApply, ThreadPause,
         ThreadResume, ThreadWait, lane, control
<1>1. Known' = Known  BY <1>0, SameKnown
<1>2. ASSUME UNCHANGED <<channel, wakeConfigs, configs>> PROVE PipeInv'
  BY <1>0, <1>1, <1>2 DEF PipeInv
<1>3. CASE ThreadDrain \/ ThreadWait
  BY <1>3, <1>2 DEF ThreadDrain, ThreadWait, control
<1>4. CASE ThreadTake
  <2>1. wakeConfigs = <<>> /\ wakeConfigs' = configs /\ configs' = <<>> /\ channel' = channel
    BY <1>4 DEF ThreadTake, ThreadInv
  <2>2. Pipe(channel, <<>>, configs, Known, nextToken)  BY <2>1 DEF PipeInv
  <2>3. Pipe(channel, configs, <<>>, Known, nextToken)  BY <2>2, PipeTake
  <2> QED  BY <2>1, <2>3, <1>0, <1>1 DEF PipeInv
<1>5. CASE ThreadCheck
  <2>1. CASE Head(wakeConfigs).token \in cancelled
    <3>1. wakeConfigs # <<>> /\ SendResult(FALSE) /\ wakeConfigs' = Tail(wakeConfigs)
          /\ configs' = configs
      BY <1>5, <2>1 DEF ThreadCheck, control
    <3> QED  BY <3>1, <1>0, SendPipe
  <2>2. CASE ~(Head(wakeConfigs).token \in cancelled)
    <3>1. UNCHANGED <<channel, wakeConfigs, configs>>  BY <1>5, <2>2 DEF ThreadCheck, control
    <3> QED  BY <3>1, <1>2
  <2> QED  BY <2>1, <2>2
<1>6. CASE ThreadApply
  <2>1. wakeConfigs # <<>> /\ wakeConfigs' = Tail(wakeConfigs) /\ configs' = configs
    BY <1>6 DEF ThreadApply, ThreadInv, control
  <2>2. SendResult(TRUE) \/ SendResult(FALSE)  BY <1>6 DEF ThreadApply
  <2> QED  BY <2>1, <2>2, <1>0, SendPipe
<1>7. CASE ThreadPause
  <2> DEFINE a == [kind |-> "suspended"]
             b == [kind |-> "paused"]
  <2>1. UNCHANGED <<wakeConfigs, configs>>  BY <1>7 DEF ThreadPause, control
  <2>2. (~paused /\ bound) \in BOOLEAN  OBVIOUS
  <2>3. channel' = Append(channel, b) \/ channel' = Append(Append(channel, a), b)
    BY <1>7, <2>2, PausePipe DEF ThreadPause
  <2>4. /\ channel \in Seq(InputMessages) /\ a \in InputMessages /\ b \in InputMessages
        /\ a.kind # "result" /\ b.kind # "result"
    BY MessageMade DEF TypeOK
  <2> HIDE DEF a, b
  <2>5. Append(channel, a) \in Seq(InputMessages)  BY <2>4, AppendFacts
  <2>6. Pipe(channel, wakeConfigs, configs, Known, nextToken)  BY DEF PipeInv
  <2>7. Pipe(Append(channel, b), wakeConfigs, configs, Known, nextToken)
    BY <2>4, <2>6, SameAppended, PipeSame
  <2>8. Pipe(Append(channel, a), wakeConfigs, configs, Known, nextToken)
    BY <2>4, <2>6, SameAppended, PipeSame
  <2>9. Pipe(Append(Append(channel, a), b), wakeConfigs, configs, Known, nextToken)
    BY <2>4, <2>5, <2>8, SameAppended, PipeSame
  <2>10. Pipe(channel', wakeConfigs, configs, Known, nextToken)  BY <2>3, <2>7, <2>9
  <2> QED  BY <2>1, <2>10, <1>0, <1>1 DEF PipeInv
<1>8. CASE ThreadResume
  <2>1. UNCHANGED <<wakeConfigs, configs>>  BY <1>8 DEF ThreadResume, control
  <2>2. CASE channel' = channel  BY <2>1, <2>2, <1>2
  <2>3. CASE device' \in Value /\ channel' = Append(channel, [kind |-> "resumed", value |-> device'])
    <3> DEFINE r == [kind |-> "resumed", value |-> device']
    <3>1. r \in InputMessages /\ r.kind # "result"  BY <2>3, MessageMade
    <3>2. channel' = Append(channel, r)  BY <2>3
    <3> HIDE DEF r
    <3>3. channel \in Seq(InputMessages)  BY DEF TypeOK
    <3>4. SameAnswers(channel, channel')  BY <3>1, <3>2, <3>3, SameAppended
    <3> QED  BY <3>4, <2>1, <1>0, <1>1, SamePipe
  <2> QED  BY <1>8, <2>2, <2>3 DEF ThreadResume
<1> QED  BY <1>3, <1>4, <1>5, <1>6, <1>7, <1>8 DEF InputThread

\* The core has dropped a message that is no result.
LEMMA PipeDrop ==
    ASSUME TypeOK, PipeInv, channel # <<>>, Head(channel).kind # "result",
           channel' = Tail(channel), UNCHANGED <<wakeConfigs, configs, nextToken, inFlight, timedOut>>
    PROVE  PipeInv'
<1>1. channel \in Seq(InputMessages)  BY DEF TypeOK
<1>2. SameAnswers(channel, channel')  BY <1>1, SameDropped
<1>3. Known' = Known  BY SameKnown
<1> QED  BY <1>2, <1>3, SamePipe

\* A result has been received: what its write leaves behind.
LEMMA PipeResult ==
    ASSUME TypeOK, Apart, PipeInv, DeviceConfigResult
    PROVE  /\ PipeInv'
           /\ \A i \in AnswersIn(channel') : \A t \in Known' :
                 t.token = channel'[i].token => t \in Known
<1> DEFINE m == Head(channel)
           R == Forget(Known, m.token)
<1>1. /\ channel # <<>> /\ m.kind = "result" /\ FinishXiConfigResult(m)
      /\ channel' = Tail(channel) /\ wakeConfigs' = wakeConfigs
  BY DEF DeviceConfigResult, input
<1>2. channel \in Seq(InputMessages) /\ Tail(channel) \in Seq(InputMessages)
  BY <1>1, HeadProper DEF TypeOK
<1>3. Known \in SUBSET Writes  BY KnownWrites
<1>4. R \in SUBSET Writes /\ R \subseteq Known  BY <1>3 DEF Forget
<1>5. Pipe(Tail(channel), wakeConfigs, configs, R, nextToken)
  BY <1>1, <1>2, <1>3, PipeReceive DEF PipeInv
<1>6. Submitted(R)  BY <1>1, FinishSubmits
<1> HIDE DEF m, R
<1>7. /\ Pipe(Tail(channel), wakeConfigs, configs', Known', nextToken')
      /\ \A i \in AnswersIn(Tail(channel)) : \A t \in Known' :
            t.token = Tail(channel)[i].token => t \in R
  BY <1>2, <1>4, <1>5, <1>6, SubmittedPipe
<1> QED  BY <1>1, <1>4, <1>7 DEF PipeInv

LEMMA PipeRoute ==
    ASSUME TypeOK, PipeInv, NEW c \in Client, NEW v \in Value \cup {Bad}, Routed(c, v)
    PROVE  /\ PipeInv' /\ channel' = channel
           /\ \A i \in AnswersIn(channel') : \A t \in Known' :
                 t.token = channel'[i].token => t \in Known
<1>1. channel' = channel /\ wakeConfigs' = wakeConfigs  BY DEF Routed, input
<1>2. channel \in Seq(InputMessages)  BY DEF TypeOK
<1>3. Known \in SUBSET Writes  BY KnownWrites
<1>4. Submitted(Known)  BY RouteSubmits
<1>5. Pipe(channel, wakeConfigs, configs, Known, nextToken)  BY DEF PipeInv
<1>6. /\ Pipe(channel, wakeConfigs, configs', Known', nextToken')
      /\ \A i \in AnswersIn(channel) : \A t \in Known' : t.token = channel[i].token => t \in Known
  BY <1>2, <1>3, <1>4, <1>5, SubmittedPipe
<1> QED  BY <1>1, <1>6 DEF PipeInv

\* What the barrier put aside are no results.
LEMMA PipeBarrierEnd ==
    ASSUME TypeOK, PhaseInv, PipeInv, BarrierAcknowledged \/ BarrierTimesOut
    PROVE  PipeInv' /\ Known' = Known
<1>1. PICK rest \in Seq(InputMessages) :
        /\ \/ rest = channel
           \/ channel # <<>> /\ Head(channel).kind = "paused" /\ rest = Tail(channel)
        /\ EndBarrier(rest)
        /\ \E j \in 0 .. Len(rest) : channel' = Spliced(rest, deferred, j)
  BY BarrierEnds
<1>2. PICK j \in 0 .. Len(rest) : channel' = Spliced(rest, deferred, j)  BY <1>1
<1>3. FailInFlight /\ UNCHANGED <<wakeConfigs, configs, nextToken>>
  BY <1>1 DEF EndBarrier, input
<1>4. Known' = Known  BY <1>3, FailInFlightKnown
<1>5. channel \in Seq(InputMessages) /\ deferred \in Seq(InputMessages)  BY DEF TypeOK
<1>6. Pipe(rest, wakeConfigs, configs, Known, nextToken)
  <2>1. CASE rest = channel  BY <2>1 DEF PipeInv
  <2>2. CASE channel # <<>> /\ Head(channel).kind = "paused" /\ rest = Tail(channel)
    <3>1. SameAnswers(channel, rest)  BY <2>2, <1>5, SameDropped
    <3> QED  BY <3>1, PipeSame DEF PipeInv
  <2> QED  BY <1>1, <2>1, <2>2
<1>7. \A i \in DOMAIN deferred : deferred[i].kind # "result"  BY DEF PhaseInv, Switches
<1>8. SameAnswers(rest, Spliced(rest, deferred, j))  BY <1>5, <1>7, SameSpliced
<1>9. Pipe(channel', wakeConfigs, configs, Known, nextToken)  BY <1>2, <1>6, <1>8, PipeSame
<1> QED  BY <1>3, <1>4, <1>9 DEF PipeInv

LEMMA DriveApart ==
    ASSUME TypeOK, PipeInv, NEW q, NEW done, Drive(q, done), timedOut' \subseteq timedOut
    PROVE  Apart'
<1>1. \A f \in inFlight' : f.token = nextToken  BY DEF Drive
<1>2. \A t \in timedOut : t \in Known /\ t.token \in Nat  BY DEF Known, TypeOK, Writes
<1>3. \A t \in timedOut : t.token < nextToken  BY <1>2 DEF PipeInv, Pipe, Fresh
<1>4. nextToken \in Nat  BY DEF TypeOK
<1>5. \A t \in timedOut : t.token # nextToken  BY <1>2, <1>3, <1>4
<1> QED  BY <1>1, <1>5 DEF Apart

LEMMA ApartStep ==
    ASSUME TypeOK, PipeInv, Apart, [Next]_vars
    PROVE  Apart'
<1>0. ASSUME UNCHANGED <<inFlight, timedOut>> PROVE Apart'  BY <1>0 DEF Apart
<1>1. CASE InputThread
  BY <1>0, <1>1 DEF InputThread, ThreadDrain, ThreadTake, ThreadCheck, ThreadApply, ThreadPause,
         ThreadResume, ThreadWait, lane
<1>2. CASE DeviceConfigResult
  <2> DEFINE m == Head(channel)
  <2>1. FinishXiConfigResult(m)  BY <1>2 DEF DeviceConfigResult
  <2> HIDE DEF m
  <2>2. timedOut' \subseteq timedOut  BY <2>1 DEF FinishXiConfigResult
  <2>3. (\E done : Drive(queued, done)) \/ inFlight' = inFlight  BY <2>1 DEF FinishXiConfigResult
  <2>4. CASE inFlight' = inFlight  BY <2>2, <2>4 DEF Apart
  <2> QED  BY <2>2, <2>3, <2>4, DriveApart
<1>3. CASE DeviceSuspended \/ DeviceResumed \/ StaleInputPaused \/ BarrierDefers
              \/ VtRelease \/ VtAcquire \/ (\E c \in Client : Connect(c))
  BY <1>0, <1>3 DEF DeviceSuspended, DeviceResumed, StaleInputPaused, BarrierDefers, VtRelease,
         VtAcquire, Connect, lane
<1>4. CASE BarrierAcknowledged \/ BarrierTimesOut
  <2>1. inFlight' = {}
    BY <1>4 DEF BarrierAcknowledged, BarrierTimesOut, EndBarrier, FailInFlight
  <2> QED  BY <2>1 DEF Apart
<1>5. CASE Reset \/ \E c \in Client : Departs(c)
  <2>1. timedOut' = timedOut /\ inFlight' \in {inFlight, WithoutProtocol(inFlight)}
    BY <1>5 DEF Reset, Departs, Disconnect, KillClient, ClientDisconnected, PendingCleanup, lane
  <2>2. \A f \in inFlight' : \E g \in inFlight : f.token = g.token
    BY <2>1, WithoutProtocolFacts
  <2> QED  BY <2>1, <2>2 DEF Apart
<1>6. ASSUME NEW c \in Client, NEW v \in Value \cup {Bad}, RoutePendingXiConfig(c, v)
      PROVE  Apart'
  <2>1. Routed(c, v)  BY <1>6, RouteRouted
  <2>2. timedOut' = timedOut  BY <2>1 DEF Routed
  <2>3. (\E q, done : Drive(q, done)) \/ inFlight' = inFlight  BY <2>1 DEF Routed
  <2> QED  BY <2>2, <2>3, <1>0, DriveApart
<1>7. CASE UNCHANGED vars  BY <1>0, <1>7 DEF vars, lane
<1> QED  BY <1>1, <1>2, <1>3, <1>4, <1>5, <1>6, <1>7 DEF Next, Departs, CoreReceives

LEMMA PipeStep ==
    ASSUME TypeOK, ThreadInv, PhaseInv, Apart, PipeInv, [Next]_vars
    PROVE  PipeInv'
<1>0. ASSUME UNCHANGED <<channel, wakeConfigs, configs, nextToken>>, Known' = Known PROVE PipeInv'
  BY <1>0 DEF PipeInv
<1>1. CASE InputThread  BY <1>1, PipeThread
<1>2. CASE DeviceConfigResult  BY <1>2, PipeResult
<1>3. CASE DeviceSuspended \/ DeviceResumed \/ StaleInputPaused \/ BarrierDefers
  <2>1. /\ channel # <<>> /\ Head(channel).kind # "result" /\ channel' = Tail(channel)
        /\ UNCHANGED <<wakeConfigs, configs, nextToken, inFlight, timedOut>>
    BY <1>3 DEF DeviceSuspended, DeviceResumed, StaleInputPaused, BarrierDefers, lane, control, input
  <2> QED  BY <2>1, PipeDrop
<1>4. CASE BarrierAcknowledged \/ BarrierTimesOut  BY <1>4, PipeBarrierEnd
<1>5. CASE VtRelease \/ VtAcquire \/ Reset \/ \E c \in Client : Connect(c) \/ Departs(c)
  <2>1. /\ UNCHANGED <<channel, wakeConfigs, configs, nextToken, timedOut>>
        /\ inFlight' \in {inFlight, WithoutProtocol(inFlight)}
    BY <1>5 DEF VtRelease, VtAcquire, Reset, Connect, Departs, Disconnect, KillClient, ClientDisconnected,
         PendingCleanup, lane, control, input
  <2>2. Known' = Known  BY <2>1, SameKnown, WithoutProtocolKnown
  <2> QED  BY <2>1, <2>2, <1>0
<1>6. ASSUME NEW c \in Client, NEW v \in Value \cup {Bad}, RoutePendingXiConfig(c, v)
      PROVE  PipeInv'
  BY <1>6, RouteRouted, PipeRoute
<1>7. CASE UNCHANGED vars
  <2>1. UNCHANGED <<channel, wakeConfigs, configs, nextToken, inFlight, timedOut>>
    BY <1>7 DEF vars, lane, control, input
  <2> QED  BY <2>1, <1>0, SameKnown
<1> QED  BY <1>1, <1>2, <1>3, <1>4, <1>5, <1>6, <1>7 DEF Next, Departs, CoreReceives

-----------------------------------------------------------------------------
(* The confirmed value and the enabled facet: each step.                   *)

\* The thread has resumed the device and says so.
Resumes ==
    /\ device' \in Value
    /\ channel' = Append(channel, [kind |-> "resumed", value |-> device'])
    /\ UNCHANGED <<lane, config, enabled>>

LEMMA SettledKept ==
    ASSUME Settled', UNCHANGED <<bound, commands, wakeCommands>>
    PROVE  Settled
BY DEF Settled

\* Only a resumption settles the device.
LEMMA SettledStep ==
    ASSUME TypeOK, ThreadInv, [Next]_vars, Settled', ~Resumes
    PROVE  Settled
<1>0. commands \in Seq({"pause", "resume"}) /\ wakeCommands \in Seq({"pause", "resume"})
  BY DEF TypeOK
<1>1. CASE ThreadDrain
  <2>1. wakeCommands' = commands /\ wakeCommands = <<>> /\ bound' = bound
    BY <1>1 DEF ThreadDrain, ThreadInv
  <2>2. DOMAIN wakeCommands = {}  BY <2>1
  <2> QED  BY <2>1, <2>2 DEF Settled
<1>2. CASE ThreadTake \/ ThreadCheck \/ ThreadApply \/ ThreadWait
  BY <1>2, SettledKept DEF ThreadTake, ThreadCheck, ThreadApply, ThreadWait, control
<1>3. CASE ThreadPause
  <2>1. ~bound'  BY <1>3 DEF ThreadPause, ThreadInv
  <2> QED  BY <2>1 DEF Settled
<1>4. CASE ThreadResume
  <2>1. /\ wakeCommands # <<>> /\ Head(wakeCommands) = "resume"
        /\ wakeCommands' = Tail(wakeCommands) /\ commands' = commands /\ bound' = bound
    <3>1. UNCHANGED <<lane, config, enabled>>  BY <1>4 DEF ThreadResume, core
    <3> QED  BY <3>1, <1>4 DEF ThreadResume, Resumes, control
  <2> DEFINE n == Len(wakeCommands)
  <2>2. /\ Head(wakeCommands) = wakeCommands[1] /\ DOMAIN wakeCommands = 1 .. n
        /\ DOMAIN wakeCommands' = 1 .. n - 1
        /\ \A i \in 1 .. n - 1 : wakeCommands'[i] = wakeCommands[i + 1]
        /\ n \in Nat /\ n >= 1
    BY <2>1, <1>0, TailFacts
  <2> HIDE DEF n
  <2>3. ASSUME NEW a \in DOMAIN wakeCommands PROVE wakeCommands[a] # "pause"
    <3>1. CASE a = 1  BY <3>1, <2>1, <2>2
    <3>2. CASE a # 1
      <4>1. a - 1 \in 1 .. n - 1 /\ (a - 1) + 1 = a  BY <3>2, <2>2
      <4>2. wakeCommands'[a - 1] = wakeCommands[a] /\ a - 1 \in DOMAIN wakeCommands'
        BY <4>1, <2>2
      <4> QED  BY <4>2 DEF Settled
    <3> QED  BY <3>1, <3>2
  <2> QED  BY <2>1, <2>3 DEF Settled
<1>5. CASE VtRelease \/ VtAcquire
  <2>1. /\ UNCHANGED <<bound, wakeCommands>>
        /\ \/ commands' = Append(commands, "pause") \/ commands' = Append(commands, "resume")
    BY <1>5 DEF VtRelease, VtAcquire, input
  <2>2. \A x \in {"pause", "resume"} : \A i \in DOMAIN commands :
            i \in DOMAIN Append(commands, x) /\ Append(commands, x)[i] = commands[i]
    BY <1>0
  <2>3. \A i \in DOMAIN commands : i \in DOMAIN commands' /\ commands'[i] = commands[i]
    <3>1. CASE commands' = Append(commands, "pause")  BY <3>1, <2>2
    <3>2. CASE commands' = Append(commands, "resume")  BY <3>2, <2>2
    <3> QED  BY <2>1, <3>1, <3>2
  <2> QED  BY <2>1, <2>3 DEF Settled
<1>6. CASE DeviceConfigResult
  <2>1. FinishXiConfigResult(Head(channel)) /\ UNCHANGED <<bound, wakeCommands>>
    BY <1>6 DEF DeviceConfigResult, input
  <2>2. commands' = commands  BY <2>1 DEF FinishXiConfigResult, Drive, control
  <2> QED  BY <2>1, <2>2, SettledKept
<1>7. ASSUME NEW c \in Client, NEW v \in Value \cup {Bad}, RoutePendingXiConfig(c, v)
      PROVE  Settled
  <2>1. Routed(c, v)  BY <1>7, RouteRouted
  <2>2. UNCHANGED <<bound, wakeCommands>>  BY <2>1 DEF Routed, input
  <2>3. commands' = commands  BY <2>1 DEF Routed, Drive, control
  <2> QED  BY <2>2, <2>3, SettledKept
<1>8. CASE DeviceSuspended \/ DeviceResumed \/ StaleInputPaused \/ BarrierDefers
              \/ BarrierAcknowledged \/ BarrierTimesOut \/ Reset
              \/ \E c \in Client : Connect(c) \/ Departs(c)
  <2>1. UNCHANGED <<bound, commands, wakeCommands>>
    BY <1>8 DEF DeviceSuspended, DeviceResumed, StaleInputPaused, BarrierDefers,
       BarrierAcknowledged, BarrierTimesOut, EndBarrier, Reset, Connect, Departs, Disconnect, KillClient, ClientDisconnected,
         PendingCleanup, control, input
  <2> QED  BY <2>1, SettledKept
<1>9. CASE UNCHANGED vars
  BY <1>9, SettledKept DEF vars, control, input
<1> QED  BY <1>1, <1>2, <1>3, <1>4, <1>5, <1>6, <1>7, <1>8, <1>9
            DEF Next, Departs, CoreReceives, InputThread

LEMMA PutAsideStep ==
    ASSUME [Next]_vars, ~putAside'
    PROVE  ~putAside
<1>1. \A c, v : RoutePendingXiConfig(c, v) => putAside' = putAside
  BY RouteRouted DEF Routed
<1>2. CASE InputThread
  BY <1>2 DEF InputThread, ThreadDrain, ThreadTake, ThreadCheck, ThreadApply, ThreadPause,
         ThreadResume, ThreadWait, history
<1>3. CASE ~InputThread
  BY <1>1, <1>3 DEF Next, Departs, CoreReceives, DeviceConfigResult, FinishXiConfigResult, DeviceSuspended,
     DeviceResumed, StaleInputPaused, BarrierDefers, BarrierAcknowledged, BarrierTimesOut,
     EndBarrier, VtRelease, VtAcquire, Reset, Connect, Departs, Disconnect, KillClient, ClientDisconnected,
         PendingCleanup, vars, history
<1> QED  BY <1>2, <1>3

LEMMA ToldResumed ==
    ASSUME TypeOK, Resumes
    PROVE  Told(channel', Known', config', device') /\ Live(channel', enabled')
<1> DEFINE r == [kind |-> "resumed", value |-> device']
<1>1. r \in InputMessages  BY MessageMade DEF Resumes
<1>2. r.kind = "resumed" /\ r.value = device'  OBVIOUS
<1>3. channel' = Append(channel, r)  BY DEF Resumes
<1> HIDE DEF r
<1>4. channel \in Seq(InputMessages)  BY DEF TypeOK
<1>5. Affects(r) /\ Tells(r, Known', device')  BY <1>2 DEF Affects, Tells
<1>6. Told(Append(channel, r), Known', config', device')  BY <1>1, <1>4, <1>5, ToldAppended
<1>7. Live(Append(channel, r), enabled')  BY <1>1, <1>2, <1>4, LiveResumed
<1> QED  BY <1>3, <1>6, <1>7

\* A result, or the value a result confirms.
LEMMA ToldResult ==
    ASSUME TypeOK, Apart, PipeInv, DeviceConfigResult, Told(channel, Known, config, device)
    PROVE  Told(channel', Known', config', device')
<1> DEFINE m == Head(channel)
<1>1. /\ channel # <<>> /\ m.kind = "result" /\ FinishXiConfigResult(m)
      /\ channel' = Tail(channel) /\ device' = device
  BY DEF DeviceConfigResult, input
<1>2. channel \in Seq(InputMessages) /\ Proper(m)  BY <1>1, HeadProper DEF TypeOK
<1> HIDE DEF m
<1>3. Told(Tail(channel), Known, config', device)
  <2>1. CASE m.ok
    <3>1. Answered(m) # {}
      <4>1. 1 \in AnswersIn(channel) /\ channel[1] = m
        BY <1>1, <1>2, TailFacts DEF AnswersIn, m
      <4>2. PICK t \in Known : t.token = m.token  BY <4>1 DEF PipeInv, Pipe, Covered
      <4>3. CASE t \in timedOut  BY <4>2, <4>3 DEF Answered
      <4>4. CASE t \notin timedOut
        <5>1. PICK f \in inFlight : t = [token |-> f.token, value |-> f.value]
          BY <4>4 DEF Known
        <5>2. f.token = m.token  BY <4>2, <5>1
        <5> QED  BY <5>2 DEF Answered
      <4> QED  BY <4>3, <4>4
    <3>2. config' = (CHOOSE f \in Answered(m) : TRUE).value
      BY <1>1, <2>1, <3>1 DEF FinishXiConfigResult, Answered
    <3>3. \E t \in Known : t.token = m.token /\ t.value = config'
      BY <3>1, <3>2, AnsweredValue
    <3>4. Tells(m, Known, device) => config' = device  BY <1>1, <3>3 DEF Tells
    <3>5. Affects(m)  BY <1>1, <2>1 DEF Affects
    <3> QED  BY <1>1, <1>2, <3>4, <3>5, ToldReceived DEF m
  <2>2. CASE ~m.ok
    <3>1. config' = config  BY <1>1, <2>2 DEF FinishXiConfigResult
    <3>2. ~Affects(m)  BY <1>1, <2>2 DEF Affects
    <3>3. SameEffect(channel, Tail(channel))  BY <1>1, <1>2, <3>2, EffectDropped DEF m
    <3> QED  BY <3>1, <3>3, ToldSame
  <2> QED  BY <2>1, <2>2
<1>4. \A i \in AnswersIn(Tail(channel)) : \A t \in Known' :
          t.token = Tail(channel)[i].token => t \in Known
  BY <1>1, PipeResult
<1>5. Told(Tail(channel), Known', config', device)  BY <1>3, <1>4, ToldKnown
<1> QED  BY <1>1, <1>5

\* A write is answered.
LEMMA ToldAnswer ==
    ASSUME TypeOK, PipeInv, wakeConfigs # <<>>, NEW ok \in BOOLEAN, SendResult(ok),
           device' = IF ok THEN Head(wakeConfigs).value ELSE device,
           UNCHANGED <<inFlight, timedOut, config>>,
           Told(channel, Known, config, device)
    PROVE  Told(channel', Known', config', device')
<1> DEFINE w == Head(wakeConfigs)
           m == [kind |-> "result", token |-> w.token, ok |-> ok]
<1>1. channel \in Seq(InputMessages) /\ wakeConfigs \in Seq(Writes)  BY DEF TypeOK
<1>2. w \in Writes /\ w = wakeConfigs[1] /\ 1 \in DOMAIN wakeConfigs  BY <1>1, TailFacts
<1>3. w \in Known  BY <1>2 DEF PipeInv, Pipe, Covered
<1>4. m \in InputMessages  BY <1>2, MessageMade DEF Writes
<1>5. m.kind = "result" /\ m.token = w.token /\ m.ok = ok  OBVIOUS
<1>6. channel' = Append(channel, m)  BY DEF SendResult
<1>7. Known' = Known  BY SameKnown
<1> HIDE DEF m
<1>8. CASE ok
  <2>1. device' = w.value  BY <1>8
  <2>2. \A t \in Known : t.token = w.token => t = w  BY <1>3 DEF PipeInv, Pipe, Fresh
  <2>3. Affects(m) /\ Tells(m, Known, device')  BY <1>5, <1>8, <2>1, <2>2 DEF Affects, Tells
  <2>4. Told(Append(channel, m), Known, config', device')
    BY <1>1, <1>4, <2>3, ToldAppended
  <2> QED  BY <2>4, <1>6, <1>7
<1>9. CASE ~ok
  <2>1. ~Affects(m)  BY <1>5, <1>9 DEF Affects
  <2>2. SameEffect(channel, Append(channel, m))  BY <1>1, <1>4, <2>1, EffectAppended
  <2>3. Told(Append(channel, m), Known, config, device)  BY <2>2, ToldSame
  <2>4. device' = device  BY <1>9
  <2> QED  BY <2>3, <2>4, <1>6, <1>7
<1> QED  BY <1>8, <1>9

LEMMA ValueStep ==
    ASSUME TypeOK, ThreadInv, PhaseInv, Apart, PipeInv, ValueInv, [Next]_vars
    PROVE  ValueInv'
<1> SUFFICES ASSUME Settled' \/ ~putAside', ~Resumes
             PROVE  Told(channel', Known', config', device')
  BY ToldResumed DEF ValueInv
<1>1. Told(channel, Known, config, device)
  <2>1. CASE Settled'  BY <2>1, SettledStep DEF ValueInv
  <2>2. CASE ~putAside'  BY <2>2, PutAsideStep DEF ValueInv
  <2> QED  BY <2>1, <2>2
<1>2. channel \in Seq(InputMessages)  BY DEF TypeOK
<1>3. ASSUME SameEffect(channel, channel'), UNCHANGED <<config, device>>, Known' = Known
      PROVE  Told(channel', Known', config', device')
  <2>1. Told(channel', Known, config, device)  BY <1>1, <1>3, ToldSame
  <2> QED  BY <2>1, <1>3
<1>4. ASSUME UNCHANGED <<channel, config, device>>, Known' = Known
      PROVE  Told(channel', Known', config', device')
  BY <1>1, <1>4
<1>5. CASE InputThread
  <2>0. UNCHANGED <<inFlight, timedOut, config>>
    BY <1>5 DEF InputThread, ThreadDrain, ThreadTake, ThreadCheck, ThreadApply, ThreadPause,
           ThreadResume, ThreadWait, lane, core
  <2>1. Known' = Known  BY <2>0, SameKnown
  <2>2. CASE ThreadDrain \/ ThreadTake \/ ThreadWait
    BY <2>0, <2>1, <2>2, <1>4 DEF ThreadDrain, ThreadTake, ThreadWait
  <2>3. CASE ThreadCheck
    <3>1. CASE Head(wakeConfigs).token \in cancelled
      <4>1. wakeConfigs # <<>> /\ SendResult(FALSE) /\ device' = device
        BY <2>3, <3>1 DEF ThreadCheck
      <4>2. device' = IF FALSE THEN Head(wakeConfigs).value ELSE device  BY <4>1
      <4> QED  BY <4>1, <4>2, <2>0, <1>1, ToldAnswer
    <3>2. CASE ~(Head(wakeConfigs).token \in cancelled)
      <4>1. UNCHANGED <<channel, device>>  BY <2>3, <3>2 DEF ThreadCheck
      <4> QED  BY <4>1, <2>0, <2>1, <1>4
    <3> QED  BY <3>1, <3>2
  <2>4. CASE ThreadApply
    <3>1. wakeConfigs # <<>>  BY <2>4 DEF ThreadApply, ThreadInv
    <3>2. CASE device' = Head(wakeConfigs).value /\ SendResult(TRUE)
      <4>1. device' = IF TRUE THEN Head(wakeConfigs).value ELSE device  BY <3>2
      <4> QED  BY <3>1, <3>2, <4>1, <2>0, <1>1, ToldAnswer
    <3>3. CASE device' = device /\ SendResult(FALSE)
      <4>1. device' = IF FALSE THEN Head(wakeConfigs).value ELSE device  BY <3>3
      <4> QED  BY <3>1, <3>3, <4>1, <2>0, <1>1, ToldAnswer
    <3> QED  BY <2>4, <3>2, <3>3 DEF ThreadApply
  <2>5. CASE ThreadPause
    <3> DEFINE a == [kind |-> "suspended"]
               b == [kind |-> "paused"]
    <3>1. device' = device  BY <2>5 DEF ThreadPause
    <3>2. (~paused /\ bound) \in BOOLEAN  OBVIOUS
    <3>3. channel' = Append(channel, b) \/ channel' = Append(Append(channel, a), b)
      BY <2>5, <3>2, PausePipe DEF ThreadPause
    <3>4. /\ a \in InputMessages /\ b \in InputMessages
          /\ ~Affects(a) /\ ~Affects(b)
      BY MessageMade DEF Affects
    <3> HIDE DEF a, b
    <3>5. Append(channel, a) \in Seq(InputMessages)  BY <3>4, <1>2, AppendFacts
    <3>6. Told(Append(channel, b), Known, config, device)
      BY <3>4, <1>1, <1>2, EffectAppended, ToldSame
    <3>7. Told(Append(channel, a), Known, config, device)
      BY <3>4, <1>1, <1>2, EffectAppended, ToldSame
    <3>8. Told(Append(Append(channel, a), b), Known, config, device)
      BY <3>4, <3>5, <3>7, EffectAppended, ToldSame
    <3>9. Told(channel', Known, config, device)  BY <3>3, <3>6, <3>8
    <3> QED  BY <3>1, <3>9, <2>0, <2>1
  <2>6. CASE ThreadResume
    <3>1. UNCHANGED <<lane, config, enabled>>  BY <2>6 DEF ThreadResume, core
    <3>2. UNCHANGED <<channel, device>>  BY <2>6, <3>1 DEF ThreadResume, Resumes
    <3> QED  BY <3>2, <2>0, <2>1, <1>4
  <2> QED  BY <1>5, <2>2, <2>3, <2>4, <2>5, <2>6 DEF InputThread
<1>6. CASE DeviceConfigResult  BY <1>1, <1>6, ToldResult
<1>7. CASE DeviceSuspended \/ StaleInputPaused
  <2>1. /\ channel # <<>> /\ ~Affects(Head(channel)) /\ channel' = Tail(channel)
        /\ UNCHANGED <<inFlight, timedOut, config, device>>
    BY <1>7 DEF DeviceSuspended, StaleInputPaused, Affects, lane, core, input
  <2>2. SameEffect(channel, channel')  BY <2>1, <1>2, EffectDropped
  <2> QED  BY <2>1, <2>2, <1>3, SameKnown
<1>8. CASE DeviceResumed
  <2> DEFINE m == Head(channel)
  <2>1. /\ channel # <<>> /\ m.kind = "resumed" /\ config' = m.value
        /\ channel' = Tail(channel) /\ UNCHANGED <<inFlight, timedOut, device>>
    BY <1>8 DEF DeviceResumed, lane, input
  <2>2. Affects(m) /\ (Tells(m, Known, device) => config' = device)
    BY <2>1 DEF Affects, Tells
  <2>3. Told(Tail(channel), Known, config', device)  BY <2>1, <2>2, <1>1, <1>2, ToldReceived
  <2> QED  BY <2>1, <2>3, SameKnown
<1>9. CASE BarrierDefers
  <2>1. /\ channel # <<>> /\ phase = "barrier"
        /\ Head(channel).kind \in {"suspended", "resumed"}
        /\ putAside' = (putAside \/ Head(channel).kind = "resumed")
        /\ channel' = Tail(channel)
        /\ UNCHANGED <<inFlight, timedOut, config, device, bound, commands, wakeCommands>>
    BY <1>9 DEF BarrierDefers, lane, core, control, input
  <2>2. ~Settled'
    <3>1. ~Settled  BY <2>1, PausedUnsettled DEF PhaseInv
    <3> QED  BY <2>1, <3>1, SettledKept
  <2>3. ~Affects(Head(channel))  BY <2>1, <2>2 DEF Affects
  <2>4. SameEffect(channel, channel')  BY <2>1, <2>3, <1>2, EffectDropped
  <2> QED  BY <2>1, <2>4, <1>3, SameKnown
<1>10. CASE BarrierAcknowledged \/ BarrierTimesOut
  <2>1. PICK rest \in Seq(InputMessages) :
          /\ \/ rest = channel
             \/ channel # <<>> /\ Head(channel).kind = "paused" /\ rest = Tail(channel)
          /\ EndBarrier(rest)
          /\ \E j \in 0 .. Len(rest) : channel' = Spliced(rest, deferred, j)
    BY <1>10, BarrierEnds
  <2>2. PICK j \in 0 .. Len(rest) : channel' = Spliced(rest, deferred, j)  BY <2>1
  <2>3. UNCHANGED <<config, device, putAside, bound, commands, wakeCommands>>
    BY <2>1 DEF EndBarrier, input
  <2>4. Known' = Known  BY <1>10, PipeBarrierEnd
  <2>5. ~putAside
    <3>1. ~Settled  BY <1>10, BarrierEnds, PausedUnsettled DEF PhaseInv
    <3>2. ~Settled'  BY <2>3, <3>1, SettledKept
    <3> QED  BY <3>2, <2>3
  <2>6. deferred \in Seq(InputMessages)  BY DEF TypeOK
  <2>7. \A i \in DOMAIN deferred : ~Affects(deferred[i])  BY <2>5 DEF PhaseInv, Affects
  <2>8. Told(rest, Known, config, device)
    <3>1. CASE rest = channel  BY <3>1, <1>1
    <3>2. CASE channel # <<>> /\ Head(channel).kind = "paused" /\ rest = Tail(channel)
      <4>1. ~Affects(Head(channel))  BY <3>2 DEF Affects
      <4> QED  BY <3>2, <4>1, <1>1, <1>2, EffectDropped, ToldSame
    <3> QED  BY <2>1, <3>1, <3>2
  <2>9. SameEffect(rest, Spliced(rest, deferred, j))  BY <2>6, <2>7, EffectSpliced
  <2>10. Told(channel', Known, config, device)  BY <2>2, <2>8, <2>9, ToldSame
  <2> QED  BY <2>3, <2>4, <2>10
<1>11. CASE VtRelease \/ VtAcquire \/ Reset \/ \E c \in Client : Connect(c) \/ Departs(c)
  <2>1. /\ UNCHANGED <<channel, config, device, timedOut>>
        /\ inFlight' \in {inFlight, WithoutProtocol(inFlight)}
    BY <1>11 DEF VtRelease, VtAcquire, Reset, Connect, Departs, Disconnect, KillClient, ClientDisconnected,
         PendingCleanup, lane, core, input
  <2>2. Known' = Known  BY <2>1, SameKnown, WithoutProtocolKnown
  <2> QED  BY <2>1, <2>2, <1>4
<1>12. ASSUME NEW c \in Client, NEW v \in Value \cup {Bad}, RoutePendingXiConfig(c, v)
       PROVE  Told(channel', Known', config', device')
  <2>1. Routed(c, v)  BY <1>12, RouteRouted
  <2>2. UNCHANGED <<config, device>>  BY <2>1 DEF Routed, core, input
  <2>3. /\ channel' = channel
        /\ \A i \in AnswersIn(channel') : \A t \in Known' :
              t.token = channel'[i].token => t \in Known
    BY <2>1, PipeRoute
  <2>4. Told(channel', Known, config, device)  BY <2>3, <1>1
  <2>5. Told(channel', Known', config, device)  BY <2>3, <2>4, ToldKnown
  <2> QED  BY <2>2, <2>5
<1>13. CASE UNCHANGED vars
  <2>1. UNCHANGED <<channel, config, device, inFlight, timedOut>>
    BY <1>13 DEF vars, lane, core, input
  <2> QED  BY <2>1, <1>4, SameKnown
<1> QED  BY <1>5, <1>6, <1>7, <1>8, <1>9, <1>10, <1>11, <1>12, <1>13 DEF Next, Departs, CoreReceives

LEMMA EnabledStep ==
    ASSUME TypeOK, ThreadInv, PhaseInv, EnabledInv, [Next]_vars
    PROVE  EnabledInv'
<1> SUFFICES ASSUME Settled', ~Resumes PROVE Live(channel', enabled')
  BY ToldResumed DEF EnabledInv
<1>1. Settled /\ Live(channel, enabled)  BY SettledStep DEF EnabledInv
<1>2. channel \in Seq(InputMessages)  BY DEF TypeOK
<1>3. phase = "run"
  <2>1. phase # "barrier"  BY <1>1, PausedUnsettled DEF PhaseInv
  <2> QED  BY <2>1 DEF TypeOK
<1>4. ASSUME UNCHANGED <<channel, enabled>> PROVE Live(channel', enabled')  BY <1>1, <1>4
<1>5. CASE ThreadDrain \/ ThreadTake \/ ThreadWait
  BY <1>5, <1>4 DEF ThreadDrain, ThreadTake, ThreadWait, core
<1>6. CASE ThreadCheck \/ ThreadApply
  <2>1. enabled' = enabled  BY <1>6 DEF ThreadCheck, ThreadApply, core
  <2>2. CASE channel' = channel  BY <2>1, <2>2, <1>4
  <2>3. ASSUME wakeConfigs # <<>>, NEW ok \in BOOLEAN, SendResult(ok)
        PROVE  Live(channel', enabled')
    <3> DEFINE m == [kind |-> "result", token |-> Head(wakeConfigs).token, ok |-> ok]
    <3>1. wakeConfigs \in Seq(Writes)  BY DEF TypeOK
    <3>0. Head(wakeConfigs) \in Writes  BY <3>1, <2>3, TailFacts
    <3>2. Head(wakeConfigs).token \in Nat  BY <3>0 DEF Writes
    <3>3. m \in InputMessages  BY <3>2, MessageMade
    <3>4. ~Switches(m)  BY DEF Switches
    <3>5. channel' = Append(channel, m)  BY <2>3 DEF SendResult
    <3> HIDE DEF m
    <3>6. Live(Append(channel, m), enabled)  BY <3>3, <3>4, <1>1, <1>2, LiveAppended
    <3> QED  BY <3>5, <3>6, <2>1
  <2>4. \/ channel' = channel
        \/ wakeConfigs # <<>> /\ (SendResult(FALSE) \/ SendResult(TRUE))
    BY <1>6 DEF ThreadCheck, ThreadApply, ThreadInv
  <2> QED  BY <2>2, <2>3, <2>4
<1>7. CASE ThreadPause
  <2>1. ~bound'  BY <1>7 DEF ThreadPause, ThreadInv
  <2> QED  BY <2>1 DEF Settled
<1>8. CASE ThreadResume
  <2>1. UNCHANGED <<lane, config, enabled>>  BY <1>8 DEF ThreadResume, core
  <2>2. channel' = channel  BY <1>8, <2>1 DEF ThreadResume, Resumes
  <2> QED  BY <2>1, <2>2, <1>4
<1>9. CASE DeviceConfigResult \/ StaleInputPaused
  <2>1. /\ channel # <<>> /\ Head(channel).kind \in {"result", "paused"}
        /\ channel' = Tail(channel) /\ enabled' = enabled
    BY <1>9 DEF DeviceConfigResult, FinishXiConfigResult, StaleInputPaused, core
  <2>2. ~Switches(Head(channel)) /\ Head(channel).kind # "resumed"  BY <2>1 DEF Switches
  <2>3. Live(Tail(channel), enabled)  BY <2>1, <2>2, <1>1, <1>2, LiveReceived
  <2> QED  BY <2>1, <2>3
<1>10. CASE DeviceSuspended \/ DeviceResumed
  <2>1. /\ channel # <<>> /\ channel' = Tail(channel) /\ Switches(Head(channel))
        /\ Head(channel).kind = "resumed" => enabled'
    BY <1>10 DEF DeviceSuspended, DeviceResumed, Switches
  <2>2. Live(Tail(channel), enabled')  BY <2>1, <1>1, <1>2, LiveReceived
  <2> QED  BY <2>1, <2>2
<1>11. CASE BarrierDefers \/ BarrierAcknowledged \/ BarrierTimesOut
  BY <1>3, <1>11 DEF BarrierDefers, BarrierAcknowledged, BarrierTimesOut
<1>12. CASE VtRelease \/ VtAcquire \/ Reset \/ \E c \in Client : Connect(c) \/ Departs(c)
  BY <1>4, <1>12 DEF VtRelease, VtAcquire, Reset, Connect, Departs, Disconnect, KillClient, ClientDisconnected,
         PendingCleanup, core
<1>13. ASSUME NEW c \in Client, NEW v \in Value \cup {Bad}, RoutePendingXiConfig(c, v)
       PROVE  Live(channel', enabled')
  <2>1. Routed(c, v)  BY <1>13, RouteRouted
  <2> QED  BY <2>1, <1>4 DEF Routed, core
<1>14. CASE UNCHANGED vars
  BY <1>4, <1>14 DEF vars, core
<1> QED  BY <1>5, <1>6, <1>7, <1>8, <1>9, <1>10, <1>11, <1>12, <1>13, <1>14
            DEF Next, Departs, CoreReceives, InputThread

-----------------------------------------------------------------------------
(* The theorems.                                                           *)

LEMMA InitLane == Init => LaneInv
<1> SUFFICES ASSUME Init PROVE LaneInv
  OBVIOUS
<1>0. DOMAIN channel = {} /\ DOMAIN wakeConfigs = {} /\ DOMAIN configs = {}
      /\ DOMAIN queued = {} /\ DOMAIN deferred = {}
      /\ DOMAIN commands = {} /\ DOMAIN wakeCommands = {}
  BY DEF Init
<1>1. TypeOK
  <2>0. \A S : <<>> \in Seq(S)  OBVIOUS
  <2>1. LaneTyped
    <3>1. blocked = {} /\ inFlight = {} /\ nextToken = 1 /\ efd = FALSE /\ cancelled = {}
      BY DEF Init
    <3>2. queued = <<>> /\ configs = <<>> /\ commands = <<>>  BY DEF Init
    <3>3. answered \in [Client -> Nat]  BY DEF Init
    <3> QED  BY <2>0, <3>1, <3>2, <3>3 DEF LaneTyped
  <2>2. RestTyped
    <3>1. clients = {} /\ left = {} /\ killed = {} /\ timedOut = {} /\ rejecting = FALSE /\ enabled = TRUE
          /\ config \in Value /\ phase = "run" /\ vt = "here" /\ putAside = FALSE
          /\ releases = 0 /\ resets = 0 /\ deferred = <<>>
      BY DEF Init
    <3>2. asked \in [Client -> Nat]  BY DEF Init
    <3> QED  BY <2>0, <3>1, <3>2 DEF RestTyped
  <2>3. InputTyped
    <3>1. channel = <<>> /\ wakeConfigs = <<>> /\ wakeCommands = <<>> /\ device \in Value
          /\ paused = FALSE /\ bound = TRUE /\ thread = "wait"
      BY DEF Init
    <3> QED  BY <2>0, <3>1 DEF InputTyped
  <2> QED  BY <2>1, <2>2, <2>3, TypeParts
<1>2. OneAnswer  BY <1>0 DEF Init, OneAnswer, ClientsOf, Protocols
<1>3. Strangers  BY DEF Init, Strangers
<1>4. Known = {}  BY DEF Init, Known
<1>5. PipeInv
  <2>1. AnswersIn(channel) = {}  BY <1>0 DEF AnswersIn
  <2>2. Covered(channel, wakeConfigs, configs, Known)  BY <2>1, <1>0, <1>4 DEF Covered
  <2>3. InOrder(channel, wakeConfigs, configs)  BY <2>1, <1>0 DEF InOrder
  <2>4. Fresh(Known, nextToken)  BY <1>4 DEF Fresh
  <2> QED  BY <2>2, <2>3, <2>4 DEF PipeInv, Pipe
<1>6. Apart  BY DEF Init, Apart
<1>7. ThreadInv  BY DEF Init, ThreadInv
<1>8. PhaseInv  BY <1>0 DEF Init, PhaseInv
<1>9. Told(channel, Known, config, device)  BY <1>0 DEF Init, Told
<1>10. Live(channel, enabled)  BY <1>0 DEF Init, Live
<1> QED  BY <1>1, <1>2, <1>3, <1>5, <1>6, <1>7, <1>8, <1>9, <1>10
            DEF LaneInv, ValueInv, EnabledInv

LEMMA NextLane == LaneInv /\ [Next]_vars => LaneInv'
<1> SUFFICES ASSUME LaneInv, [Next]_vars PROVE LaneInv'
  OBVIOUS
<1>0. TypeOK /\ OneAnswer /\ Strangers /\ PipeInv /\ Apart /\ ThreadInv /\ PhaseInv
      /\ ValueInv /\ EnabledInv
  BY DEF LaneInv
<1>1. TypeOK'  BY <1>0, TypeStep
<1>2. OneAnswer' /\ Strangers'  BY <1>0, OutcomeStep DEF OneOutcome
<1>3. PipeInv'  BY <1>0, PipeStep
<1>4. Apart'  BY <1>0, ApartStep
<1>5. ThreadInv'  BY <1>0, ThreadStep
<1>6. PhaseInv'  BY <1>0, PhaseStep
<1>7. ValueInv'  BY <1>0, ValueStep
<1>8. EnabledInv'  BY <1>0, EnabledStep
<1> QED  BY <1>1, <1>2, <1>3, <1>4, <1>5, <1>6, <1>7, <1>8 DEF LaneInv

\* The conjunction the three parts of the argument need of one another holds
\* in every state of the lane and the input thread.
THEOREM LaneInvariant == Spec => []LaneInv
<1>1. Init => LaneInv  BY InitLane
<1>2. LaneInv /\ [Next]_vars => LaneInv'  BY NextLane
<1> QED  BY <1>1, <1>2, PTL DEF Spec

\* Type correctness of the lane, the mailbox, the channel and the thread.
THEOREM TypeCorrect == Spec => []TypeOK
<1>1. LaneInv => TypeOK  BY DEF LaneInv
<1> QED  BY <1>1, LaneInvariant, PTL

\* A connected client is blocked exactly while one request of it is queued or
\* submitted, and every other request it made has had exactly one outcome
\* (drive_xi_config_lane, finish_xi_config_result, the failing of requests by
\* VT releases and suspensions, disconnect_with_pending_cleanup).  A client
\* that is gone is named only between handle_kill_client and its clean-up.
THEOREM EachRequestAnswered == Spec => []OneAnswer
<1>1. LaneInv => OneAnswer  BY DEF LaneInv
<1> QED  BY <1>1, LaneInvariant, PTL

LEMMA PipeMatched ==
    ASSUME TypeOK, PipeInv, Apart
    PROVE  ResultsMatched
<1>1. Answers = AnswersIn(channel)  BY DEF Answers, AnswersIn
<1>2. Covered(channel, wakeConfigs, configs, Known) /\ InOrder(channel, wakeConfigs, configs)
      /\ Fresh(Known, nextToken)
  BY DEF PipeInv, Pipe
<1>3. \A t \in Known : \E f \in inFlight \cup timedOut : f.token = t.token
  <2> SUFFICES ASSUME NEW t \in Known PROVE \E f \in inFlight \cup timedOut : f.token = t.token
    OBVIOUS
  <2>1. CASE t \in timedOut  BY <2>1
  <2>2. CASE t \notin timedOut
    <3>1. PICK f \in inFlight : t = [token |-> f.token, value |-> f.value]  BY <2>2 DEF Known
    <3> QED  BY <3>1
  <2> QED  BY <2>1, <2>2
<1>4. \A f \in inFlight \cup timedOut : \E t \in Known : f.token = t.token
  <2> SUFFICES ASSUME NEW f \in inFlight \cup timedOut PROVE \E t \in Known : f.token = t.token
    OBVIOUS
  <2>1. CASE f \in timedOut  BY <2>1 DEF Known
  <2>2. CASE f \in inFlight
    <3>1. [token |-> f.token, value |-> f.value] \in Known  BY <2>2 DEF Known
    <3>2. [token |-> f.token, value |-> f.value].token = f.token  OBVIOUS
    <3> QED  BY <3>1, <3>2
  <2> QED  BY <2>1, <2>2
<1> DEFINE tokens == {channel[i].token : i \in Answers}
                         \cup {wakeConfigs[i].token : i \in DOMAIN wakeConfigs}
                         \cup {configs[i].token : i \in DOMAIN configs}
<1>5. \A x \in tokens : \E t \in Known : x = t.token  BY <1>1, <1>2 DEF Covered
<1>6. \A t \in Known : t.token \in tokens  BY <1>1, <1>2 DEF Covered
<1>7. tokens = Remembered
  <2> HIDE DEF tokens
  <2> QED  BY <1>3, <1>4, <1>5, <1>6 DEF Remembered
<1>8. \A f \in inFlight, t \in timedOut : f.token # t.token  BY DEF Apart
<1>9. \A t, u \in timedOut : t.token = u.token => t = u  BY <1>2 DEF Known, Fresh
<1> QED  BY <1>1, <1>2, <1>7, <1>8, <1>9 DEF ResultsMatched, InOrder

\* Every write the lane submitted or gave up on is on its way to the device or
\* back exactly once and in order, and every result meets the write it answers
\* (finish_xi_config_result, fail_in_flight_xi_config_for_vt_release).
THEOREM EveryResultMatched == Spec => []ResultsMatched
<1>1. LaneInv => ResultsMatched  BY PipeMatched DEF LaneInv
<1> QED  BY <1>1, LaneInvariant, PTL

LEMMA QuietAgrees ==
    ASSUME LaneInv
    PROVE  ConfigAgrees
<1> SUFFICES ASSUME Quiet PROVE (bound => enabled) /\ (bound \/ ~putAside => config = device)
  BY DEF ConfigAgrees
<1>1. wakeCommands = <<>> /\ commands = <<>>  BY DEF LaneInv, ThreadInv, Quiet
<1>2. DOMAIN wakeCommands = {} /\ DOMAIN commands = {}  BY <1>1
<1>3. bound => Settled  BY <1>2 DEF Settled
<1>4. \A i \in DOMAIN channel : ~Affects(channel[i]) /\ ~Switches(channel[i])
  BY DEF Quiet, Affects, Switches
<1>5. bound => enabled  BY <1>3, <1>4 DEF LaneInv, EnabledInv, Live
<1>6. bound \/ ~putAside => config = device  BY <1>3, <1>4 DEF LaneInv, ValueInv, Told
<1> QED  BY <1>5, <1>6

\* With nothing on its way, the value clients read is the device's and a live
\* device is enabled, after any number of VT switches, timed-out writes and
\* suspensions (apply_confirmed_xi_config, the VT barrier's deferred messages).
THEOREM ConfirmedIsApplied == Spec => []ConfigAgrees
<1>1. LaneInv => ConfigAgrees  BY QuietAgrees
<1> QED  BY <1>1, LaneInvariant, PTL
===============================================================================
