------------------------ MODULE FairRequestQueueProofs ------------------------
(***************************************************************************)
(* What the operators of FairRequestQueue return, for any set of clients:  *)
(* every one of them keeps a ring exact.                                   *)
(***************************************************************************)
EXTENDS FairRequestQueue, TLAPS

(***************************************************************************)
(* Rings: sequences of clients                                             *)
(***************************************************************************)

\* Lists by position.
LEMMA ListsFacts ==
    ASSUME NEW r \in Seq(Client), NEW S
    PROVE  Lists(r, S) <=>
             /\ \A k \in 1..Len(r) : r[k] \in S
             /\ \A d \in S : \E k \in 1..Len(r) : r[k] = d
             /\ \A i, j \in 1..Len(r) : i # j => r[i] # r[j]
BY DEF Lists, Members

\* A client that was not in the ring joins its back.
LEMMA ListsAppend ==
    ASSUME NEW r \in Seq(Client), NEW S, Lists(r, S), NEW c \in Client, c \notin S
    PROVE  Append(r, c) \in Seq(Client) /\ Lists(Append(r, c), S \cup {c})
<1> DEFINE r1 == Append(r, c)
<1>1. /\ r1 \in Seq(Client) /\ Len(r) \in Nat
      /\ Len(r1) = Len(r) + 1 /\ r1[Len(r) + 1] = c
      /\ \A i \in 1..Len(r) : r1[i] = r[i]
  OBVIOUS
<1>2. /\ \A k \in 1..Len(r) : r[k] \in S
      /\ \A d \in S : \E k \in 1..Len(r) : r[k] = d
      /\ \A i, j \in 1..Len(r) : i # j => r[i] # r[j]
  BY ListsFacts
<1> HIDE DEF r1
<1>3. \A k \in 1..Len(r1) : r1[k] \in S \cup {c}
  BY <1>1, <1>2
<1>4. \A d \in S \cup {c} : \E k \in 1..Len(r1) : r1[k] = d
  BY <1>1, <1>2
<1>5. \A i, j \in 1..Len(r1) : i # j => r1[i] # r1[j]
  BY <1>1, <1>2
<1>6. Lists(r1, S \cup {c})
  BY <1>1, <1>3, <1>4, <1>5, ListsFacts
<1> QED BY <1>1, <1>6 DEF r1

\* The ring without its i-th client, rotated to begin behind it.
LEMMA ListsRemove ==
    ASSUME NEW r \in Seq(Client), NEW S, Lists(r, S), NEW i \in DOMAIN r
    PROVE  LET rest == SubSeq(r, i + 1, Len(r)) \o SubSeq(r, 1, i - 1)
           IN  rest \in Seq(Client) /\ Lists(rest, S \ {r[i]})
<1> DEFINE c == r[i]
           n == Len(r)
           hi == SubSeq(r, i + 1, n)
           lo == SubSeq(r, 1, i - 1)
           rest == hi \o lo
           src(k) == IF k <= n - i THEN i + k ELSE k - (n - i)
<1>1. n \in Nat /\ i \in 1..n /\ \A k \in 1..n : r[k] \in Client
  OBVIOUS
<1>2. /\ \A k \in 1..n : r[k] \in S
      /\ \A d \in S : \E k \in 1..n : r[k] = d
      /\ \A j, k \in 1..n : j # k => r[j] # r[k]
  BY ListsFacts
<1>3. /\ hi \in Seq(Client) /\ Len(hi) = n - i
      /\ \A k \in 1..(n - i) : hi[k] = r[i + k]
  BY <1>1
<1>4. /\ lo \in Seq(Client) /\ Len(lo) = i - 1
      /\ \A k \in 1..(i - 1) : lo[k] = r[k]
  BY <1>1
<1> HIDE DEF hi, lo
<1>5. rest \in Seq(Client) /\ Len(rest) = n - 1
  BY <1>1, <1>3, <1>4
<1>6. \A k \in 1..(n - 1) : src(k) \in 1..n /\ src(k) # i /\ rest[k] = r[src(k)]
  <2> SUFFICES ASSUME NEW k \in 1..(n - 1)
               PROVE  src(k) \in 1..n /\ src(k) # i /\ rest[k] = r[src(k)]
    OBVIOUS
  <2>1. CASE k <= n - i
    <3>1. k \in 1..(n - i) /\ rest[k] = hi[k]
      BY <1>1, <1>3, <1>4, <2>1
    <3> QED BY <1>1, <1>3, <2>1, <3>1
  <2>2. CASE ~(k <= n - i)
    <3>1. k - (n - i) \in 1..(i - 1) /\ rest[k] = lo[k - (n - i)]
      <4>1. k - (n - i) \in 1..(i - 1)
        BY <1>1, <2>2
      <4>2. k > Len(hi) /\ k <= Len(hi) + Len(lo) /\ k - (n - i) = k - Len(hi)
        BY <1>1, <1>3, <1>4, <2>2
      <4>3. \A a, b \in Seq(Client) : \A m \in 1..(Len(a) + Len(b)) :
               m > Len(a) => (a \o b)[m] = b[m - Len(a)]
        OBVIOUS
      <4>4. k \in 1..(Len(hi) + Len(lo))
        BY <1>1, <4>2
      <4>5. (hi \o lo)[k] = lo[k - Len(hi)]
        BY <1>3, <1>4, <4>2, <4>3, <4>4
      <4> HIDE DEF rest
      <4>6. rest[k] = lo[k - Len(hi)]
        BY <4>5 DEF rest
      <4> QED BY <4>1, <4>2, <4>6
    <3>2. src(k) = k - (n - i)
      BY <1>1, <2>2
    <3> HIDE DEF src, rest
    <3> QED BY <1>1, <1>4, <3>1, <3>2
  <2> QED BY <2>1, <2>2
<1>7. \A j, k \in 1..(n - 1) : j # k => src(j) # src(k)
  BY <1>1
<1>8. \A m \in 1..n : m # i => \E k \in 1..(n - 1) : src(k) = m
  <2> SUFFICES ASSUME NEW m \in 1..n, m # i PROVE \E k \in 1..(n - 1) : src(k) = m
    OBVIOUS
  <2>1. CASE m > i
    <3>1. m - i \in 1..(n - 1) /\ src(m - i) = m
      BY <1>1, <2>1
    <3> QED BY <3>1
  <2>2. CASE m < i
    <3>1. m + (n - i) \in 1..(n - 1) /\ src(m + (n - i)) = m
      BY <1>1, <2>2
    <3> QED BY <3>1
  <2> QED BY <1>1, <2>1, <2>2
<1> HIDE DEF rest, src
<1>9. \A k \in 1..(n - 1) : rest[k] \in S \ {c}
  <2> SUFFICES ASSUME NEW k \in 1..(n - 1) PROVE rest[k] \in S /\ rest[k] # c
    OBVIOUS
  <2> QED BY <1>1, <1>2, <1>6
<1>10. \A j, k \in 1..(n - 1) : j # k => rest[j] # rest[k]
  <2> SUFFICES ASSUME NEW j \in 1..(n - 1), NEW k \in 1..(n - 1), j # k
               PROVE  rest[j] # rest[k]
    OBVIOUS
  <2>1. src(j) \in 1..n /\ src(k) \in 1..n /\ src(j) # src(k)
    BY <1>6, <1>7
  <2>2. rest[j] = r[src(j)] /\ rest[k] = r[src(k)]
    BY <1>6
  <2> QED BY <1>2, <2>1, <2>2
<1>11. \A d \in S \ {c} : \E k \in 1..(n - 1) : rest[k] = d
  <2> SUFFICES ASSUME NEW d \in S \ {c} PROVE \E k \in 1..(n - 1) : rest[k] = d
    OBVIOUS
  <2>1. PICK m \in 1..n : r[m] = d
    BY <1>2
  <2>2. m # i
    BY <2>1
  <2>3. PICK k \in 1..(n - 1) : src(k) = m
    BY <1>8, <2>2
  <2> QED BY <1>6, <2>1, <2>3
<1>12. Lists(rest, S \ {c})
  <2> DEFINE S1 == S \ {c}
  <2>1. /\ \A k \in 1..Len(rest) : rest[k] \in S1
        /\ \A d \in S1 : \E k \in 1..Len(rest) : rest[k] = d
        /\ \A j, k \in 1..Len(rest) : j # k => rest[j] # rest[k]
    BY <1>5, <1>9, <1>10, <1>11
  <2> HIDE DEF S1
  <2>2. Lists(rest, S1)
    BY <1>5, <2>1, ListsFacts
  <2> QED BY <2>2 DEF S1
<1> QED BY <1>5, <1>12 DEF rest, hi, lo

\* Two rings without a common client.
LEMMA ListsConcat ==
    ASSUME NEW r \in Seq(Client), NEW S, Lists(r, S),
           NEW p \in Seq(Client), NEW T, Lists(p, T), S \cap T = {}
    PROVE  r \o p \in Seq(Client) /\ Lists(r \o p, S \cup T)
<1> DEFINE r1 == r \o p
<1>1. /\ Len(r) \in Nat /\ Len(p) \in Nat
      /\ r1 \in Seq(Client) /\ Len(r1) = Len(r) + Len(p)
      /\ \A k \in 1..Len(r) : r1[k] = r[k]
      /\ \A k \in 1..Len(p) : r1[Len(r) + k] = p[k]
  OBVIOUS
<1>2. /\ \A k \in 1..Len(r) : r[k] \in S
      /\ \A d \in S : \E k \in 1..Len(r) : r[k] = d
      /\ \A i, j \in 1..Len(r) : i # j => r[i] # r[j]
  BY ListsFacts
<1>3. /\ \A k \in 1..Len(p) : p[k] \in T
      /\ \A d \in T : \E k \in 1..Len(p) : p[k] = d
      /\ \A i, j \in 1..Len(p) : i # j => p[i] # p[j]
  BY ListsFacts
<1>4. \A k \in 1..Len(r1) : \/ k \in 1..Len(r) /\ r1[k] = r[k]
                            \/ k - Len(r) \in 1..Len(p) /\ r1[k] = p[k - Len(r)]
  OBVIOUS
<1> HIDE DEF r1
<1>5. \A k \in 1..Len(r1) : r1[k] \in S \cup T
  BY <1>1, <1>2, <1>3, <1>4
<1>6. \A d \in S \cup T : \E k \in 1..Len(r1) : r1[k] = d
  <2> SUFFICES ASSUME NEW d \in S \cup T PROVE \E k \in 1..Len(r1) : r1[k] = d
    OBVIOUS
  <2>1. CASE d \in S
    BY <1>1, <1>2, <2>1
  <2>2. CASE d \in T
    <3>1. PICK k \in 1..Len(p) : p[k] = d
      BY <1>3, <2>2
    <3>2. Len(r) + k \in 1..Len(r1) /\ r1[Len(r) + k] = d
      BY <1>1, <3>1
    <3> QED BY <3>2
  <2> QED BY <2>1, <2>2
<1>7. \A i, j \in 1..Len(r1) : i # j => r1[i] # r1[j]
  <2> SUFFICES ASSUME NEW i \in 1..Len(r1), NEW j \in 1..Len(r1), i # j
               PROVE  r1[i] # r1[j]
    OBVIOUS
  <2>1. i - Len(r) # j - Len(r)
    BY <1>1
  <2>2. CASE i \in 1..Len(r) /\ r1[i] = r[i] /\ j \in 1..Len(r) /\ r1[j] = r[j]
    BY <1>2, <2>2
  <2>3. CASE i \in 1..Len(r) /\ r1[i] = r[i] /\ j - Len(r) \in 1..Len(p) /\ r1[j] = p[j - Len(r)]
    BY <1>2, <1>3, <2>3
  <2>4. CASE i - Len(r) \in 1..Len(p) /\ r1[i] = p[i - Len(r)] /\ j \in 1..Len(r) /\ r1[j] = r[j]
    BY <1>2, <1>3, <2>4
  <2>5. CASE /\ i - Len(r) \in 1..Len(p) /\ r1[i] = p[i - Len(r)]
             /\ j - Len(r) \in 1..Len(p) /\ r1[j] = p[j - Len(r)]
    BY <1>3, <2>1, <2>5
  <2> QED BY <1>4, <2>2, <2>3, <2>4, <2>5
<1>8. Lists(r1, S \cup T)
  BY <1>1, <1>5, <1>6, <1>7, ListsFacts
<1> QED BY <1>1, <1>8 DEF r1

\* The clients that join the ring when the waiters are restored: those that
\* waited and have nothing queued.
LEMMA NewcomersList ==
    ASSUME NEW q, NEW o \in Seq(Client), NEW W, Lists(o, W), NEW p \in Newcomers(q, o)
    PROVE  p \in Seq(Client) /\ Lists(p, W \ Occupied(q))
<1> DEFINE S == {c \in Members(o) : q[c] = << >>}
<1>1. \A k \in 1..Len(o) : o[k] \in Client
  OBVIOUS
<1>2. Members(o) = W /\ DOMAIN o = 1..Len(o) /\ Len(o) \in Nat
  BY DEF Lists
<1>3. W \subseteq Client
  BY <1>1, <1>2 DEF Members
<1>4. S = W \ Occupied(q)
  BY <1>2, <1>3 DEF Occupied
<1>5. /\ p \in UNION {[1..n -> S] : n \in 0..Len(o)}
      /\ Members(p) = S
      /\ \A i, j \in DOMAIN p : i < j =>
            \E a, b \in DOMAIN o : a < b /\ o[a] = p[i] /\ o[b] = p[j]
  BY DEF Newcomers
<1> HIDE DEF S
<1>6. PICK n \in 0..Len(o) : p \in [1..n -> S]
  BY <1>5
<1>7. S \subseteq Client
  BY <1>3, <1>4
<1>8. p \in Seq(Client) /\ Len(p) = n /\ n \in Nat
  BY <1>2, <1>6, <1>7
<1>9. \A i, j \in DOMAIN p : i # j => p[i] # p[j]
  <2>1. ASSUME NEW i \in 1..n, NEW j \in 1..n, i < j
        PROVE  p[i] # p[j]
    <3>1. \E a, b \in DOMAIN o : a < b /\ o[a] = p[i] /\ o[b] = p[j]
      BY <1>5, <1>6, <2>1
    <3>2. PICK a \in 1..Len(o), b \in 1..Len(o) : a < b /\ o[a] = p[i] /\ o[b] = p[j]
      BY <1>2, <3>1
    <3>3. a # b
      BY <3>2
    <3>4. o[a] # o[b]
      BY <1>2, <3>3 DEF Lists
    <3> QED BY <3>2, <3>4
  <2>2. DOMAIN p = 1..n
    BY <1>6
  <2> QED BY <1>8, <2>1, <2>2
<1> QED BY <1>4, <1>5, <1>8, <1>9 DEF Lists
-------------------------------------------------------------------------------
(***************************************************************************)
(* Queues: one sequence of requests per client                             *)
(***************************************************************************)

\* push_back on the client's deque.
LEMMA PushBackQueue ==
    ASSUME NEW q \in [Client -> Seq(Nat)], NEW c \in Client, NEW m \in Nat
    PROVE  /\ PushBack(q, c, m) \in [Client -> Seq(Nat)]
           /\ PushBack(q, c, m)[c] = Append(q[c], m)
           /\ \A d \in Client : d # c => PushBack(q, c, m)[d] = q[d]
           /\ Occupied(PushBack(q, c, m)) = Occupied(q) \cup {c}
<1>1. Append(q[c], m) \in Seq(Nat) /\ Append(q[c], m) # << >>
  OBVIOUS
<1>2. /\ PushBack(q, c, m) \in [Client -> Seq(Nat)]
      /\ PushBack(q, c, m)[c] = Append(q[c], m)
      /\ \A d \in Client : d # c => PushBack(q, c, m)[d] = q[d]
  BY <1>1 DEF PushBack
<1> QED BY <1>1, <1>2 DEF Occupied

\* pop_front on the deque of a client with something queued.
LEMMA PopFrontQueue ==
    ASSUME NEW q \in [Client -> Seq(Nat)], NEW c \in Occupied(q)
    PROVE  /\ c \in Client /\ q[c] \in Seq(Nat) /\ q[c] # << >>
           /\ Head(q[c]) \in Nat
           /\ PopFront(q, c) \in [Client -> Seq(Nat)]
           /\ PopFront(q, c)[c] = Tail(q[c])
           /\ \A d \in Client : d # c => PopFront(q, c)[d] = q[d]
           /\ Occupied(PopFront(q, c)) = IF Tail(q[c]) = << >> THEN Occupied(q) \ {c}
                                                              ELSE Occupied(q)
<1>1. c \in Client /\ q[c] \in Seq(Nat) /\ q[c] # << >>
  BY DEF Occupied
<1>2. Head(q[c]) \in Nat /\ Tail(q[c]) \in Seq(Nat)
  BY <1>1
<1>3. /\ PopFront(q, c) \in [Client -> Seq(Nat)]
      /\ PopFront(q, c)[c] = Tail(q[c])
      /\ \A d \in Client : d # c => PopFront(q, c)[d] = q[d]
  BY <1>1, <1>2 DEF PopFront
<1> QED BY <1>1, <1>2, <1>3 DEF Occupied

\* The waiters ahead of what is queued.
LEMMA RestoredQueue ==
    ASSUME NEW q \in [Client -> Seq(Nat)], NEW w \in [Client -> Seq(Nat)]
    PROVE  /\ Restored(q, w) \in [Client -> Seq(Nat)]
           /\ \A c \in Client : Restored(q, w)[c] = w[c] \o q[c]
           /\ Occupied(Restored(q, w)) = Occupied(q) \cup Occupied(w)
<1>1. \A c \in Client : /\ w[c] \o q[c] \in Seq(Nat)
                        /\ w[c] \o q[c] # << >> <=> w[c] # << >> \/ q[c] # << >>
  <2>1. \A s, t \in Seq(Nat) : /\ s \o t \in Seq(Nat)
                               /\ s \o t # << >> <=> s # << >> \/ t # << >>
    OBVIOUS
  <2> QED BY <2>1
<1>2. /\ Restored(q, w) \in [Client -> Seq(Nat)]
      /\ \A c \in Client : Restored(q, w)[c] = w[c] \o q[c]
  BY <1>1 DEF Restored
<1> QED BY <1>1, <1>2 DEF Occupied
-------------------------------------------------------------------------------
(***************************************************************************)
(* Queue and ring together                                                 *)
(***************************************************************************)

\* push_back keeps the ring exact (also used for the order of the waiters).
LEMMA PushBackExact ==
    ASSUME NEW q \in [Client -> Seq(Nat)], NEW r \in Seq(Client),
           NEW c \in Client, NEW m \in Nat, RingMatches(q, r)
    PROVE  /\ PushBack(q, c, m) \in [Client -> Seq(Nat)]
           /\ RingAfterPush(q, r, c) \in Seq(Client)
           /\ RingMatches(PushBack(q, c, m), RingAfterPush(q, r, c))
<1>1. PushBack(q, c, m) \in [Client -> Seq(Nat)]
      /\ Occupied(PushBack(q, c, m)) = Occupied(q) \cup {c}
  BY PushBackQueue
<1>2. Lists(r, Occupied(q))
  BY DEF RingMatches
<1>3. CASE c \notin Occupied(q)
  <2>1. RingAfterPush(q, r, c) = Append(r, c)
    BY <1>3 DEF RingAfterPush, Occupied
  <2>2. Append(r, c) \in Seq(Client) /\ Lists(Append(r, c), Occupied(q) \cup {c})
    BY <1>2, <1>3, ListsAppend
  <2> QED BY <1>1, <2>1, <2>2 DEF RingMatches
<1>4. CASE c \in Occupied(q)
  <2>1. RingAfterPush(q, r, c) = r /\ Occupied(q) \cup {c} = Occupied(q)
    BY <1>4 DEF RingAfterPush, Occupied
  <2> QED BY <1>1, <1>2, <2>1 DEF RingMatches
<1> QED BY <1>3, <1>4

\* pop_front_if keeps the ring exact.
LEMMA PopFrontExact ==
    ASSUME NEW q \in [Client -> Seq(Nat)], NEW r \in Seq(Client),
           NEW i \in DOMAIN r, RingMatches(q, r)
    PROVE  /\ r[i] \in Client /\ r[i] \in Occupied(q)
           /\ PopFront(q, r[i]) \in [Client -> Seq(Nat)]
           /\ RingAfterPop(q, r, i) \in Seq(Client)
           /\ RingMatches(PopFront(q, r[i]), RingAfterPop(q, r, i))
<1> DEFINE c == r[i]
           rest == SubSeq(r, i + 1, Len(r)) \o SubSeq(r, 1, i - 1)
<1>1. Lists(r, Occupied(q))
  BY DEF RingMatches
<1>2. c \in Occupied(q)
  BY <1>1 DEF Lists, Members
<1>3. /\ c \in Client
      /\ PopFront(q, c) \in [Client -> Seq(Nat)]
      /\ Occupied(PopFront(q, c)) = IF Tail(q[c]) = << >> THEN Occupied(q) \ {c}
                                                         ELSE Occupied(q)
  BY <1>2, PopFrontQueue
<1>4. rest \in Seq(Client) /\ Lists(rest, Occupied(q) \ {c})
  BY <1>1, ListsRemove
<1>5. RingAfterPop(q, r, i) = rest \o (IF Tail(q[c]) = << >> THEN << >> ELSE <<c>>)
  BY DEF RingAfterPop
<1> HIDE DEF rest, c
<1>6. CASE Tail(q[c]) = << >>
  <2>1. \A s \in Seq(Client) : s \o << >> = s
    OBVIOUS
  <2>2. RingAfterPop(q, r, i) = rest
    BY <1>4, <1>5, <1>6, <2>1
  <2> QED BY <1>2, <1>3, <1>4, <1>6, <2>2 DEF RingMatches, c
<1>7. CASE Tail(q[c]) # << >>
  <2>1. \A s \in Seq(Client), d \in Client : s \o <<d>> = Append(s, d)
    OBVIOUS
  <2>2. RingAfterPop(q, r, i) = Append(rest, c)
    BY <1>3, <1>4, <1>5, <1>7, <2>1
  <2>3. /\ Append(rest, c) \in Seq(Client)
        /\ Lists(Append(rest, c), (Occupied(q) \ {c}) \cup {c})
    BY <1>3, <1>4, ListsAppend
  <2>4. (Occupied(q) \ {c}) \cup {c} = Occupied(q)
    BY <1>2
  <2> QED BY <1>2, <1>3, <1>7, <2>2, <2>3, <2>4 DEF RingMatches, c
<1> QED BY <1>6, <1>7

\* release_server_grab_waiters keeps the ring exact: the newcomers were not
\* in it, and each of them comes once.
LEMMA ReleaseExact ==
    ASSUME NEW q \in [Client -> Seq(Nat)], NEW r \in Seq(Client),
           NEW w \in [Client -> Seq(Nat)], NEW o \in Seq(Client),
           RingMatches(q, r), RingMatches(w, o),
           NEW p \in Newcomers(q, o)
    PROVE  /\ Restored(q, w) \in [Client -> Seq(Nat)]
           /\ r \o p \in Seq(Client)
           /\ RingMatches(Restored(q, w), r \o p)
<1>1. Lists(r, Occupied(q)) /\ Lists(o, Occupied(w))
  BY DEF RingMatches
<1>2. p \in Seq(Client) /\ Lists(p, Occupied(w) \ Occupied(q))
  BY <1>1, NewcomersList
<1>3. Occupied(q) \cap (Occupied(w) \ Occupied(q)) = {}
  OBVIOUS
<1>4. /\ r \o p \in Seq(Client)
      /\ Lists(r \o p, Occupied(q) \cup (Occupied(w) \ Occupied(q)))
  BY <1>1, <1>2, <1>3, ListsConcat
<1>5. Occupied(q) \cup (Occupied(w) \ Occupied(q)) = Occupied(q) \cup Occupied(w)
  OBVIOUS
<1>6. /\ Restored(q, w) \in [Client -> Seq(Nat)]
      /\ Occupied(Restored(q, w)) = Occupied(q) \cup Occupied(w)
  BY RestoredQueue
<1> QED BY <1>4, <1>5, <1>6 DEF RingMatches
===============================================================================
