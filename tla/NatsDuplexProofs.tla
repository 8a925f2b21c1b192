-------------------------- MODULE NatsDuplexProofs --------------------------
(***************************************************************************)
(* The byte duplex for any bound on bytes, chunks and reads: each end's    *)
(* stream keeps the promise of ByteStream, a flush that succeeds has seen  *)
(* every byte published, no write follows a failure, and the end of the    *)
(* stream comes after everything delivered.                                *)
(*                                                                         *)
(* The argument follows the bytes of one direction.  They are at every     *)
(* moment split, oldest first, over what the reader's caller has, the rest *)
(* of the chunk it reads, its queue, its subscription, the wire, the chunk *)
(* the writer holds and the writer's queue; a step moves the oldest bytes  *)
(* of one place behind the youngest of the next, or loses them.            *)
(***************************************************************************)
EXTENDS NatsDuplex, SequenceTheorems, TLAPS

-----------------------------------------------------------------------------
(* Sequences of bytes and of chunks.                                       *)

(* Every byte of the one set is older than every byte of the other.        *)
Before(S, T) == \A x \in S, y \in T : x < y

(* A chunk holds consecutive bytes; bytes read may have gaps.              *)
Consecutive(c) == \A i \in DOMAIN c : c[i] = c[1] + i - 1
Increasing(s) == \A i, j \in DOMAIN s : i < j => s[i] < s[j]

(* Chunks of consecutive bytes, oldest first.                              *)
Sorted(chunks) ==
    /\ \A i \in DOMAIN chunks : Consecutive(chunks[i])
    /\ \A i, j \in DOMAIN chunks : i < j => Before(ToSet(chunks[i]), ToSet(chunks[j]))

(* A chunk is a non-empty sequence of bytes, and bytes are numbers. *)
LEMMA ChunkFacts ==
    /\ Bytes \subseteq Nat \ {0}
    /\ \A c \in Chunk : c \in Seq(Bytes) /\ c # <<>> /\ Len(c) \in 1..MaxChunk
  BY DuplexAssumption DEF Bytes, Chunk

(* There are two ends, each the peer of the other. *)
LEMMA PeerFacts ==
    \A e \in End : /\ Peer(e) \in End /\ Peer(e) # e /\ Peer(Peer(e)) = e
                   /\ \A f \in End : f = e \/ f = Peer(e)
<1>1. PICK a, b \in End : a # b /\ End = {a, b}
  BY DuplexAssumption
<1>2. Peer(a) = b /\ Peer(b) = a
  BY <1>1 DEF Peer
<1>3. QED
  BY <1>1, <1>2

(* What holds of no bytes and of no chunks. *)
LEMMA Nothing ==
    /\ ToSet(<<>>) = {} /\ BytesOf(<<>>) = {}
    /\ Sorted(<<>>) /\ Consecutive(<<>>) /\ Increasing(<<>>)
  BY DEF ToSet, BytesOf, Sorted, Consecutive, Increasing

(* A chunk added at the end of a queue (Append in the handlers of NatsDuplex). *)
LEMMA AddChunk ==
    ASSUME NEW s \in Seq(Chunk), NEW c \in Chunk
    PROVE  /\ BytesOf(Append(s, c)) = BytesOf(s) \cup ToSet(c)
           /\ Sorted(s) /\ Consecutive(c) /\ Before(BytesOf(s), ToSet(c))
                 => Sorted(Append(s, c))
<1>1. /\ DOMAIN Append(s, c) = 1..(Len(s) + 1)
      /\ \A i \in 1..Len(s) : Append(s, c)[i] = s[i]
      /\ Append(s, c)[Len(s) + 1] = c
      /\ DOMAIN s = 1..Len(s) /\ Len(s) \in Nat
  OBVIOUS
<1>2. BytesOf(Append(s, c)) = BytesOf(s) \cup ToSet(c)
  BY <1>1 DEF BytesOf
<1>3. ASSUME NEW i \in DOMAIN s PROVE ToSet(s[i]) \subseteq BytesOf(s)
  BY DEF BytesOf
<1>4. ASSUME Sorted(s), Consecutive(c), Before(BytesOf(s), ToSet(c))
      PROVE  Sorted(Append(s, c))
  <2>1. \A i \in DOMAIN Append(s, c) : Consecutive(Append(s, c)[i])
    BY <1>1, <1>4 DEF Sorted
  <2>2. ASSUME NEW i \in DOMAIN Append(s, c), NEW j \in DOMAIN Append(s, c), i < j
        PROVE  Before(ToSet(Append(s, c)[i]), ToSet(Append(s, c)[j]))
    <3>1. i \in DOMAIN s /\ Append(s, c)[i] = s[i]
      BY <1>1, <2>2
    <3>2. CASE j \in DOMAIN s
      BY <1>1, <1>4, <2>2, <3>1, <3>2 DEF Sorted
    <3>3. CASE j = Len(s) + 1
      BY <1>1, <1>3, <1>4, <3>1, <3>3 DEF Before
    <3>4. QED
      BY <1>1, <3>2, <3>3
  <2>3. QED
    BY <2>1, <2>2 DEF Sorted
<1>5. QED
  BY <1>2, <1>4

(* The oldest chunk taken from a queue. *)
LEMMA TakeChunk ==
    ASSUME NEW s \in Seq(Chunk), s # <<>>
    PROVE  /\ Head(s) \in Chunk /\ Tail(s) \in Seq(Chunk)
           /\ BytesOf(s) = ToSet(Head(s)) \cup BytesOf(Tail(s))
           /\ Sorted(s) => /\ Consecutive(Head(s)) /\ Sorted(Tail(s))
                           /\ Before(ToSet(Head(s)), BytesOf(Tail(s)))
<1>1. /\ DOMAIN s = 1..Len(s) /\ Len(s) \in Nat \ {0}
      /\ Head(s) = s[1] /\ Head(s) \in Chunk /\ Tail(s) \in Seq(Chunk)
      /\ DOMAIN Tail(s) = 1..(Len(s) - 1)
      /\ \A i \in DOMAIN Tail(s) : Tail(s)[i] = s[i + 1]
  OBVIOUS
<1>2. BytesOf(s) = ToSet(Head(s)) \cup BytesOf(Tail(s))
  <2>1. ASSUME NEW b \in BytesOf(s) PROVE b \in ToSet(Head(s)) \cup BytesOf(Tail(s))
    <3>1. PICK i \in DOMAIN s : b \in ToSet(s[i])
      BY DEF BytesOf
    <3>2. CASE i = 1
      BY <1>1, <3>1, <3>2
    <3>3. CASE i # 1
      <4>1. i - 1 \in DOMAIN Tail(s) /\ Tail(s)[i - 1] = s[i]
        BY <1>1, <3>3
      <4>2. QED
        BY <3>1, <4>1 DEF BytesOf
    <3>4. QED
      BY <3>2, <3>3
  <2>2. ASSUME NEW b \in BytesOf(Tail(s)) PROVE b \in BytesOf(s)
    <3>1. PICK i \in DOMAIN Tail(s) : b \in ToSet(Tail(s)[i])
      BY DEF BytesOf
    <3>2. i + 1 \in DOMAIN s /\ Tail(s)[i] = s[i + 1]
      BY <1>1
    <3>3. QED
      BY <3>1, <3>2 DEF BytesOf
  <2>3. ToSet(Head(s)) \subseteq BytesOf(s)
    BY <1>1 DEF BytesOf
  <2>4. QED
    BY <2>1, <2>2, <2>3
<1>3. ASSUME Sorted(s)
      PROVE  /\ Consecutive(Head(s)) /\ Sorted(Tail(s))
             /\ Before(ToSet(Head(s)), BytesOf(Tail(s)))
  <2>1. Consecutive(Head(s))
    BY <1>1, <1>3 DEF Sorted
  <2>2. \A i \in DOMAIN Tail(s) : i + 1 \in DOMAIN s
    BY <1>1
  <2>3. Sorted(Tail(s))
    BY <1>1, <1>3, <2>2 DEF Sorted
  <2>4. \A i \in DOMAIN Tail(s) : Before(ToSet(Head(s)), ToSet(Tail(s)[i]))
    BY <1>1, <1>3, <2>2 DEF Sorted
  <2>5. QED
    BY <2>1, <2>3, <2>4 DEF Before, BytesOf
<1>4. QED
  BY <1>1, <1>2, <1>3

(* Consecutive bytes are increasing, and are all those from the first to   *)
(* the last.                                                               *)
LEMMA ConsecutiveBytes ==
    ASSUME NEW c \in Seq(Bytes), Consecutive(c), c # <<>>
    PROVE  /\ Increasing(c)
           /\ c[1] \in Nat /\ ToSet(c) = c[1]..(c[1] + Len(c) - 1)
<1>0. Bytes \subseteq Nat
  BY ChunkFacts
<1>1. DOMAIN c = 1..Len(c) /\ Len(c) \in Nat \ {0} /\ \A i \in DOMAIN c : c[i] \in Nat
  <2>1. DOMAIN c = 1..Len(c) /\ Len(c) \in Nat \ {0} /\ \A i \in DOMAIN c : c[i] \in Bytes
    OBVIOUS
  <2>2. QED
    BY <1>0, <2>1
<1>2. Increasing(c)
  BY <1>1 DEF Increasing, Consecutive
<1>3. ASSUME NEW b \in ToSet(c) PROVE b \in c[1]..(c[1] + Len(c) - 1)
  BY <1>1 DEF ToSet, Consecutive
<1>4. ASSUME NEW b \in c[1]..(c[1] + Len(c) - 1) PROVE b \in ToSet(c)
  <2>1. b - c[1] + 1 \in DOMAIN c
    BY <1>1
  <2>2. c[b - c[1] + 1] = b
    BY <1>1, <2>1 DEF Consecutive
  <2>3. QED
    BY <2>1, <2>2 DEF ToSet
<1>5. ToSet(c) = c[1]..(c[1] + Len(c) - 1)
  BY <1>3, <1>4
<1>6. QED
  BY <1>1, <1>2, <1>5

(* A chunk read in part: what is taken and what is left (Fill).            *)
LEMMA CutChunk ==
    ASSUME NEW s \in Seq(Bytes), Consecutive(s), NEW k \in 0..Len(s)
    PROVE  LET a == SubSeq(s, 1, k)
               b == SubSeq(s, k + 1, Len(s))
           IN  /\ a \in Seq(Bytes) /\ b \in Seq(Bytes) /\ Len(a) = k
               /\ ToSet(s) = ToSet(a) \cup ToSet(b) /\ Before(ToSet(a), ToSet(b))
               /\ Consecutive(a) /\ Consecutive(b)
               /\ k > 0 => a # <<>> /\ a[1] = s[1]
<1> DEFINE a == SubSeq(s, 1, k)
           b == SubSeq(s, k + 1, Len(s))
<1>0. Bytes \subseteq Nat
  BY ChunkFacts
<1>1. /\ DOMAIN s = 1..Len(s) /\ Len(s) \in Nat /\ k \in Nat
      /\ \A i \in DOMAIN s : s[i] \in Bytes
      /\ \A i \in DOMAIN s : s[i] \in Nat
  <2>1. DOMAIN s = 1..Len(s) /\ Len(s) \in Nat /\ \A i \in DOMAIN s : s[i] \in Bytes
    OBVIOUS
  <2>2. k \in Nat
    BY <2>1
  <2>3. \A i \in DOMAIN s : s[i] \in Nat
    BY <1>0, <2>1
  <2>4. QED
    BY <2>1, <2>2, <2>3
<1>2. /\ a \in Seq(Bytes) /\ Len(a) = k /\ DOMAIN a = 1..k
      /\ \A i \in DOMAIN a : a[i] = s[i]
  OBVIOUS
<1>3. /\ b \in Seq(Bytes) /\ Len(b) = Len(s) - k /\ DOMAIN b = 1..(Len(s) - k)
      /\ \A i \in DOMAIN b : b[i] = s[k + i]
  <2>1. k + 1 \in Int /\ Len(s) \in Int /\ \A i \in (k + 1)..Len(s) : s[i] \in Bytes
    BY <1>1
  <2>2. /\ b \in Seq(Bytes)
        /\ Len(b) = IF k + 1 <= Len(s) THEN Len(s) - (k + 1) + 1 ELSE 0
        /\ \A i \in 1..(Len(s) - (k + 1) + 1) : b[i] = s[k + 1 + i - 1]
    BY <2>1, SubSeqProperties
  <2>3. k <= Len(s) /\ Len(s) - (k + 1) + 1 = Len(s) - k
    BY <1>1
  <2> HIDE DEF b
  <2>7. ASSUME NEW x \in Int, NEW y \in Int, NEW z, x <= y,
               z = IF x + 1 <= y THEN y - (x + 1) + 1 ELSE 0
        PROVE  z = y - x
    BY <2>7
  <2>8. k \in Int /\ Len(s) \in Int
    BY <1>1
  <2>0. Len(b) = Len(s) - k
    BY <2>2, <2>3, <2>7, <2>8
  <2>4. \A i \in 1..(Len(s) - k) : k + 1 + i - 1 = k + i
    BY <1>1
  <2>5. DOMAIN b = 1..(Len(s) - k)
    BY <2>0, <2>2
  <2>6. QED
    BY <2>0, <2>2, <2>3, <2>4, <2>5
<1> HIDE DEF a, b
<1>4. ToSet(s) = ToSet(a) \cup ToSet(b)
  <2>1. ASSUME NEW i \in DOMAIN s PROVE s[i] \in ToSet(a) \cup ToSet(b)
    <3>1. CASE i <= k
      BY <1>1, <1>2, <3>1 DEF ToSet
    <3>2. CASE i > k
      <4>1. i - k \in DOMAIN b /\ b[i - k] = s[i]
        BY <1>1, <1>3, <3>2
      <4>2. QED
        BY <4>1 DEF ToSet
    <3>3. QED
      BY <1>1, <3>1, <3>2
  <2>2. ToSet(a) \subseteq ToSet(s)
    BY <1>1, <1>2 DEF ToSet
  <2>3. \A i \in DOMAIN b : k + i \in DOMAIN s
    BY <1>1, <1>3
  <2>4. ToSet(b) \subseteq ToSet(s)
    BY <1>3, <2>3 DEF ToSet
  <2>5. QED
    BY <2>1, <2>2, <2>4 DEF ToSet
<1>5. Before(ToSet(a), ToSet(b))
  <2>1. ASSUME NEW i \in DOMAIN a, NEW j \in DOMAIN b PROVE a[i] < b[j]
    <3>1. i \in DOMAIN s /\ k + j \in DOMAIN s /\ i < k + j
      BY <1>1, <1>2, <1>3
    <3>2. s[i] = s[1] + i - 1 /\ s[k + j] = s[1] + (k + j) - 1 /\ s[1] \in Nat
      BY <1>1, <3>1 DEF Consecutive
    <3>3. QED
      BY <1>1, <1>2, <1>3, <3>1, <3>2
  <2>2. QED
    BY <2>1 DEF Before, ToSet
<1>6. Consecutive(a)
  BY <1>1, <1>2 DEF Consecutive
<1>7. Consecutive(b)
  <2>1. ASSUME NEW i \in DOMAIN b PROVE b[i] = b[1] + i - 1
    <3>1. 1 \in DOMAIN b /\ k + 1 \in DOMAIN s /\ k + i \in DOMAIN s
      BY <1>1, <1>3
    <3>2. s[k + i] = s[1] + (k + i) - 1 /\ s[k + 1] = s[1] + (k + 1) - 1
      BY <3>1 DEF Consecutive
    <3>0. 1 \in DOMAIN s /\ s[1] \in Nat
      BY <1>1, <3>1
    <3>3. b[i] = s[k + i] /\ b[1] = s[k + 1] /\ i \in Nat
      BY <1>1, <1>3, <3>1
    <3>4. QED
      BY <1>1, <3>0, <3>2, <3>3
  <2>2. QED
    BY <2>1 DEF Consecutive
<1>8. k > 0 => a # <<>> /\ a[1] = s[1]
  BY <1>1, <1>2
<1>9. QED
  BY <1>2, <1>3, <1>4, <1>5, <1>6, <1>7, <1>8 DEF a, b

(* Bytes handed to the caller after those it has (Fill).                   *)
LEMMA HandOver ==
    ASSUME NEW g \in Seq(Bytes), NEW a \in Seq(Bytes),
           Increasing(g), Consecutive(a), Before(ToSet(g), ToSet(a))
    PROVE  /\ g \o a \in Seq(Bytes)
           /\ ToSet(g \o a) = ToSet(g) \cup ToSet(a)
           /\ Increasing(g \o a)
           /\ Consecutive(g) /\ (g # <<>> /\ a # <<>> => a[1] = g[Len(g)] + 1)
                 => Consecutive(g \o a)
<1> DEFINE r == g \o a
<1>0. Bytes \subseteq Nat
  BY ChunkFacts
<1>1. /\ DOMAIN g = 1..Len(g) /\ Len(g) \in Nat
      /\ \A i \in DOMAIN g : g[i] \in Nat
      /\ DOMAIN a = 1..Len(a) /\ Len(a) \in Nat
      /\ \A i \in DOMAIN a : a[i] \in Nat
  <2>1. \A q \in Seq(Bytes) : DOMAIN q = 1..Len(q) /\ Len(q) \in Nat
                              /\ \A i \in DOMAIN q : q[i] \in Bytes
    OBVIOUS
  <2>2. QED
    BY <1>0, <2>1
<1>2. /\ r \in Seq(Bytes) /\ Len(r) = Len(g) + Len(a) /\ DOMAIN r = 1..(Len(g) + Len(a))
      /\ \A i \in DOMAIN g : r[i] = g[i]
      /\ \A i \in 1..Len(r) : i > Len(g) => r[i] = a[i - Len(g)]
  OBVIOUS
<1> HIDE DEF r
<1>5. ToSet(r) = ToSet(g) \cup ToSet(a)
  <2>1. ASSUME NEW i \in DOMAIN r PROVE r[i] \in ToSet(g) \cup ToSet(a)
    <3>1. CASE i <= Len(g)
      BY <1>1, <1>2, <3>1 DEF ToSet
    <3>2. CASE i > Len(g)
      <4>1. i - Len(g) \in DOMAIN a /\ r[i] = a[i - Len(g)]
        BY <1>1, <1>2, <3>2
      <4>2. QED
        BY <4>1 DEF ToSet
    <3>3. QED
      BY <1>1, <1>2, <3>1, <3>2
  <2>2. ToSet(g) \subseteq ToSet(r)
    BY <1>1, <1>2 DEF ToSet
  <2>3. ASSUME NEW i \in DOMAIN a PROVE a[i] \in ToSet(r)
    <3>1. Len(g) + i \in DOMAIN r /\ Len(g) + i > Len(g) /\ (Len(g) + i) - Len(g) = i
      BY <1>1, <1>2
    <3>2. r[Len(g) + i] = a[i]
      BY <1>2, <3>1
    <3>3. QED
      BY <3>1, <3>2 DEF ToSet
  <2>4. QED
    BY <2>1, <2>2, <2>3 DEF ToSet
<1>6. Increasing(r)
  <2>1. ASSUME NEW i \in DOMAIN r, NEW j \in DOMAIN r, i < j PROVE r[i] < r[j]
    <3>1. CASE j <= Len(g)
      BY <1>1, <1>2, <2>1, <3>1 DEF Increasing
    <3>2. CASE i > Len(g)
      <4>1. i - Len(g) \in DOMAIN a /\ j - Len(g) \in DOMAIN a /\ i - Len(g) < j - Len(g)
        BY <1>1, <1>2, <2>1, <3>2
      <4>2. j > Len(g) /\ i \in 1..Len(r) /\ j \in 1..Len(r)
        BY <1>1, <1>2, <2>1, <3>2
      <4>3. r[i] = a[i - Len(g)] /\ r[j] = a[j - Len(g)]
        BY <1>2, <3>2, <4>2
      <4>4. 1 \in DOMAIN a /\ a[1] \in Nat
        BY <1>1, <4>1
      <4>5. QED
        BY <1>1, <4>1, <4>3, <4>4 DEF Consecutive
    <3>3. CASE i <= Len(g) /\ j > Len(g)
      <4>1. i \in DOMAIN g /\ j - Len(g) \in DOMAIN a
        BY <1>1, <1>2, <3>3
      <4>2. r[i] = g[i] /\ r[j] = a[j - Len(g)]
        BY <1>1, <1>2, <3>3, <4>1
      <4>3. QED
        BY <4>1, <4>2 DEF Before, ToSet
    <3>4. QED
      BY <1>1, <1>2, <3>1, <3>2, <3>3
  <2>2. QED
    BY <2>1 DEF Increasing
<1>7. ASSUME Consecutive(g), g # <<>> /\ a # <<>> => a[1] = g[Len(g)] + 1
      PROVE  Consecutive(r)
  <2>1. ASSUME NEW i \in DOMAIN r PROVE r[i] = r[1] + i - 1
    <3>1. CASE i <= Len(g)
      <4>1. i \in DOMAIN g /\ 1 \in DOMAIN g
        BY <1>1, <1>2, <3>1
      <4>2. r[i] = g[i] /\ r[1] = g[1]
        BY <1>2, <4>1
      <4>3. QED
        BY <1>7, <4>1, <4>2 DEF Consecutive
    <3>2. CASE i > Len(g)
      <4>1. i - Len(g) \in DOMAIN a /\ 1 \in DOMAIN a /\ r[i] = a[i - Len(g)]
        BY <1>1, <1>2, <3>2
      <4>2. a[i - Len(g)] = a[1] + (i - Len(g)) - 1 /\ a[1] \in Nat
        BY <1>1, <1>7, <4>1 DEF Consecutive
      <4>3. CASE g = <<>>
        <5>1. Len(g) = 0 /\ r[1] = a[1]
          BY <1>1, <1>2, <4>1, <4>3
        <5>2. QED
          BY <1>1, <1>2, <4>1, <4>2, <5>1
      <4>4. CASE g # <<>>
        <5>1. a # <<>> /\ 1 \in DOMAIN g /\ Len(g) \in DOMAIN g
          BY <1>1, <4>1, <4>4
        <5>2. g[Len(g)] = g[1] + Len(g) - 1 /\ g[1] \in Nat /\ r[1] = g[1]
          BY <1>1, <1>2, <1>7, <5>1 DEF Consecutive
        <5>3. a[1] = g[Len(g)] + 1
          BY <1>7, <4>4, <5>1
        <5>4. i \in Nat /\ Len(g) \in Nat
          BY <1>1, <1>2
        <5>5. r[i] = ((g[1] + Len(g) - 1) + 1) + (i - Len(g)) - 1
          BY <4>1, <4>2, <5>2, <5>3
        <5>6. \A x, l, m \in Int : ((x + l - 1) + 1) + (m - l) - 1 = x + m - 1
          OBVIOUS
        <5>8. g[1] \in Int /\ Len(g) \in Int /\ i \in Int
          BY <5>2, <5>4
        <5>9. ((g[1] + Len(g) - 1) + 1) + (i - Len(g)) - 1 = g[1] + i - 1
          BY <5>6, <5>8
        <5>7. QED
          BY <5>2, <5>5, <5>9
      <4>5. QED
        BY <4>3, <4>4
    <3>3. QED
      BY <1>1, <1>2, <3>1, <3>2
  <2>2. QED
    BY <2>1 DEF Consecutive
<1>8. QED
  BY <1>2, <1>5, <1>6, <1>7 DEF r

-----------------------------------------------------------------------------
(* The bytes of one direction on their way: those the caller has, the rest *)
(* of the chunk it reads, its queue, its subscription and the wire, of n   *)
(* bytes published.                                                        *)

Moving(g, h, q, m, w) ==
    ToSet(g) \cup ToSet(h) \cup BytesOf(q) \cup BytesOf(m) \cup BytesOf(w)

InOrder(g, h, q, m, w, n) ==
    /\ Moving(g, h, q, m, w) \subseteq 1..n
    /\ Before(ToSet(g), ToSet(h) \cup BytesOf(q) \cup BytesOf(m) \cup BytesOf(w))
    /\ Before(ToSet(h), BytesOf(q) \cup BytesOf(m) \cup BytesOf(w))
    /\ Before(BytesOf(q), BytesOf(m) \cup BytesOf(w))
    /\ Before(BytesOf(m), BytesOf(w))
    /\ Increasing(g) /\ Consecutive(h)
    /\ Sorted(q) /\ Sorted(m) /\ Sorted(w)

(* What is published after a byte that is there, is there as well.         *)
NoHole(A, n) == \A b \in A : b..n \subseteq A

(* A message moves from the subscription to the queue (ReaderForwards). *)
LEMMA QueueMessage ==
    ASSUME NEW g, NEW h, NEW q \in Seq(Chunk), NEW m \in Seq(Chunk), NEW w, NEW n,
           InOrder(g, h, q, m, w, n), m # <<>>
    PROVE  /\ InOrder(g, h, Append(q, Head(m)), Tail(m), w, n)
           /\ Moving(g, h, Append(q, Head(m)), Tail(m), w) = Moving(g, h, q, m, w)
<1>1. /\ Head(m) \in Chunk /\ BytesOf(m) = ToSet(Head(m)) \cup BytesOf(Tail(m))
      /\ Consecutive(Head(m)) /\ Sorted(Tail(m))
      /\ Before(ToSet(Head(m)), BytesOf(Tail(m)))
  BY TakeChunk DEF InOrder
<1>2. Before(BytesOf(q), ToSet(Head(m)))
  BY <1>1 DEF InOrder, Before
<1>3. /\ BytesOf(Append(q, Head(m))) = BytesOf(q) \cup ToSet(Head(m))
      /\ Sorted(Append(q, Head(m)))
  BY <1>1, <1>2, AddChunk DEF InOrder
<1>4. QED
  BY <1>1, <1>3 DEF InOrder, Before, Moving

(* A message reaches the subscription (Forward). *)
LEMMA DeliverMessage ==
    ASSUME NEW g, NEW h, NEW q, NEW m \in Seq(Chunk), NEW w \in Seq(Chunk), NEW n,
           InOrder(g, h, q, m, w, n), w # <<>>
    PROVE  /\ InOrder(g, h, q, Append(m, Head(w)), Tail(w), n)
           /\ Moving(g, h, q, Append(m, Head(w)), Tail(w)) = Moving(g, h, q, m, w)
<1>1. /\ Head(w) \in Chunk /\ BytesOf(w) = ToSet(Head(w)) \cup BytesOf(Tail(w))
      /\ Consecutive(Head(w)) /\ Sorted(Tail(w))
      /\ Before(ToSet(Head(w)), BytesOf(Tail(w)))
  BY TakeChunk DEF InOrder
<1>2. Before(BytesOf(m), ToSet(Head(w)))
  BY <1>1 DEF InOrder, Before
<1>3. /\ BytesOf(Append(m, Head(w))) = BytesOf(m) \cup ToSet(Head(w))
      /\ Sorted(Append(m, Head(w)))
  BY <1>1, <1>2, AddChunk DEF InOrder
<1>4. QED
  BY <1>1, <1>3 DEF InOrder, Before, Moving

(* A message is lost on the wire (Lose, Forward to nobody): if it was the  *)
(* oldest byte of all, what is left has no hole it did not have.           *)
LEMMA LoseMessage ==
    ASSUME NEW g, NEW h, NEW q, NEW m, NEW w \in Seq(Chunk), NEW n \in Nat,
           InOrder(g, h, q, m, w, n), w # <<>>
    PROVE  /\ InOrder(g, h, q, m, Tail(w), n)
           /\ /\ ToSet(g) = {} /\ ToSet(h) = {} /\ BytesOf(q) = {} /\ BytesOf(m) = {}
              /\ NoHole(Moving(g, h, q, m, w), n)
              => NoHole(Moving(g, h, q, m, Tail(w)), n)
<1>1. /\ BytesOf(w) = ToSet(Head(w)) \cup BytesOf(Tail(w)) /\ Sorted(Tail(w))
      /\ Before(ToSet(Head(w)), BytesOf(Tail(w)))
  BY TakeChunk DEF InOrder
<1>2. InOrder(g, h, q, m, Tail(w), n)
  BY <1>1 DEF InOrder, Before, Moving
<1>3. ASSUME ToSet(g) = {}, ToSet(h) = {}, BytesOf(q) = {}, BytesOf(m) = {},
             NoHole(Moving(g, h, q, m, w), n)
      PROVE  NoHole(Moving(g, h, q, m, Tail(w)), n)
  <2>1. Moving(g, h, q, m, w) = BytesOf(w) /\ Moving(g, h, q, m, Tail(w)) = BytesOf(Tail(w))
    BY <1>3 DEF Moving
  <2>2. ASSUME NEW b \in BytesOf(Tail(w)), NEW c \in b..n PROVE c \in BytesOf(Tail(w))
    <3>1. c \in BytesOf(w) /\ b \in 1..n
      BY <1>1, <1>3, <2>1, <2>2 DEF NoHole, InOrder
    <3>2. c \notin ToSet(Head(w))
      BY <1>1, <2>2, <3>1 DEF Before
    <3>3. QED
      BY <1>1, <3>1, <3>2
  <2>3. QED
    BY <2>1, <2>2 DEF NoHole
<1>4. QED
  BY <1>2, <1>3

(* A chunk is published (PublishSucceeds). *)
LEMMA PublishChunk ==
    ASSUME NEW g, NEW h, NEW q, NEW m, NEW w \in Seq(Chunk), NEW n \in Nat,
           NEW c \in Chunk, NEW k \in Nat,
           InOrder(g, h, q, m, w, n), Consecutive(c), ToSet(c) = (n + 1)..(n + k)
    PROVE  /\ InOrder(g, h, q, m, Append(w, c), n + k)
           /\ Moving(g, h, q, m, Append(w, c)) = Moving(g, h, q, m, w) \cup (n + 1)..(n + k)
           /\ NoHole(Moving(g, h, q, m, w), n)
                 => NoHole(Moving(g, h, q, m, Append(w, c)), n + k)
<1>1. Before(Moving(g, h, q, m, w), ToSet(c))
  BY DEF InOrder, Before
<1>2. Before(BytesOf(w), ToSet(c))
  BY <1>1 DEF Before, Moving
<1>3. BytesOf(Append(w, c)) = BytesOf(w) \cup ToSet(c) /\ Sorted(Append(w, c))
  BY <1>2, AddChunk DEF InOrder
<1>4. Moving(g, h, q, m, Append(w, c)) = Moving(g, h, q, m, w) \cup (n + 1)..(n + k)
  BY <1>3 DEF Moving
<1>5. Moving(g, h, q, m, Append(w, c)) \subseteq 1..(n + k)
  BY <1>4 DEF InOrder
<1>6. InOrder(g, h, q, m, Append(w, c), n + k)
  BY <1>1, <1>3, <1>5 DEF InOrder, Before, Moving
<1>7. ASSUME NoHole(Moving(g, h, q, m, w), n), NEW b \in Moving(g, h, q, m, Append(w, c)),
             NEW d \in b..(n + k)
      PROVE  d \in Moving(g, h, q, m, Append(w, c))
  <2>1. b \in 1..(n + k) /\ d \in Nat
    BY <1>5, <1>7
  <2>2. CASE d > n
    BY <1>4, <1>7, <2>1, <2>2
  <2>3. CASE d <= n
    <3>1. b \in Moving(g, h, q, m, w) /\ d \in b..n
      BY <1>4, <1>7, <2>1, <2>3
    <3>2. QED
      BY <1>4, <1>7, <3>1 DEF NoHole
  <2>4. QED
    BY <2>1, <2>2, <2>3
<1>8. QED
  BY <1>4, <1>6, <1>7 DEF NoHole

(* The next chunk of the queue becomes the one that is read (Read). *)
LEMMA BeginChunk ==
    ASSUME NEW g, NEW h, NEW q \in Seq(Chunk), NEW m, NEW w, NEW n,
           InOrder(g, h, q, m, w, n), h = <<>>, q # <<>>
    PROVE  /\ Head(q) \in Seq(Bytes) /\ Head(q) # <<>> /\ Tail(q) \in Seq(Chunk)
           /\ InOrder(g, Head(q), Tail(q), m, w, n)
           /\ Moving(g, Head(q), Tail(q), m, w) = Moving(g, h, q, m, w)
<1>1. /\ BytesOf(q) = ToSet(Head(q)) \cup BytesOf(Tail(q)) /\ Sorted(Tail(q))
      /\ Before(ToSet(Head(q)), BytesOf(Tail(q))) /\ Consecutive(Head(q))
      /\ Head(q) \in Chunk /\ Tail(q) \in Seq(Chunk)
  BY TakeChunk DEF InOrder
<1>2. Head(q) \in Seq(Bytes) /\ Head(q) # <<>>
  BY <1>1, ChunkFacts
<1>3. ToSet(h) = {}
  BY Nothing
<1>4. Moving(g, Head(q), Tail(q), m, w) = Moving(g, h, q, m, w)
  BY <1>1, <1>3 DEF Moving
<1>5. QED
  BY <1>1, <1>2, <1>3, <1>4 DEF InOrder, Before

(* Bytes are handed to the caller (Fill).  Where the bytes on their way    *)
(* have no hole, they follow the last one it has.                          *)
LEMMA ReadBytes ==
    ASSUME NEW g \in Seq(Bytes), NEW h \in Seq(Bytes), NEW q, NEW m, NEW w, NEW n \in Nat,
           NEW k \in 1..Len(h), InOrder(g, h, q, m, w, n), h # <<>>
    PROVE  LET a == SubSeq(h, 1, k)
               b == SubSeq(h, k + 1, Len(h))
           IN  /\ g \o a \in Seq(Bytes) /\ b \in Seq(Bytes) /\ Len(a) = k
               /\ InOrder(g \o a, b, q, m, w, n)
               /\ Moving(g \o a, b, q, m, w) = Moving(g, h, q, m, w)
               /\ Consecutive(g) /\ NoHole(Moving(g, h, q, m, w), n) => Consecutive(g \o a)
<1> DEFINE a == SubSeq(h, 1, k)
           b == SubSeq(h, k + 1, Len(h))
<1>1. k \in 0..Len(h) /\ k > 0
  OBVIOUS
<1>2. /\ a \in Seq(Bytes) /\ b \in Seq(Bytes) /\ Len(a) = k
      /\ ToSet(h) = ToSet(a) \cup ToSet(b) /\ Before(ToSet(a), ToSet(b))
      /\ Consecutive(a) /\ Consecutive(b)
      /\ a # <<>> /\ a[1] = h[1]
  BY <1>1, CutChunk DEF InOrder
<1> HIDE DEF a, b
<1>3. Before(ToSet(g), ToSet(a))
  BY <1>2 DEF InOrder, Before
<1>4. /\ g \o a \in Seq(Bytes)
      /\ ToSet(g \o a) = ToSet(g) \cup ToSet(a) /\ Increasing(g \o a)
      /\ Consecutive(g) /\ (g # <<>> => a[1] = g[Len(g)] + 1) => Consecutive(g \o a)
  BY <1>2, <1>3, HandOver DEF InOrder
<1>5. Moving(g \o a, b, q, m, w) = Moving(g, h, q, m, w)
  BY <1>2, <1>4 DEF Moving
<1>6. InOrder(g \o a, b, q, m, w, n)
  BY <1>2, <1>4, <1>5 DEF InOrder, Before
<1>7. ASSUME NoHole(Moving(g, h, q, m, w), n), g # <<>> PROVE h[1] = g[Len(g)] + 1
  <2>1. /\ DOMAIN g = 1..Len(g) /\ Len(g) \in DOMAIN g /\ 1 \in DOMAIN h /\ Len(g) \in Nat
    BY <1>7
  <2>2. g[Len(g)] \in ToSet(g) /\ h[1] \in ToSet(h)
    BY <2>1 DEF ToSet
  <2>3. g[Len(g)] \in 1..n /\ h[1] \in 1..n /\ g[Len(g)] < h[1]
    BY <2>2 DEF InOrder, Moving, Before
  <2>4. g[Len(g)] + 1 \in Moving(g, h, q, m, w)
    <3>1. g[Len(g)] \in Moving(g, h, q, m, w) /\ g[Len(g)] + 1 \in g[Len(g)]..n
      BY <2>2, <2>3 DEF Moving
    <3>2. QED
      BY <1>7, <3>1 DEF NoHole
  <2>5. g[Len(g)] + 1 \notin ToSet(g)
    <3>1. ASSUME NEW i \in DOMAIN g PROVE g[i] <= g[Len(g)]
      <4>1. CASE i = Len(g)
        BY <2>3, <4>1
      <4>2. CASE i # Len(g)
        <5>1. i < Len(g)
          BY <2>1, <4>2
        <5>2. g[i] < g[Len(g)] /\ g[i] \in 1..n
          BY <2>1, <5>1 DEF InOrder, Increasing, Moving, ToSet
        <5>3. QED
          BY <2>3, <5>2
      <4>3. QED
        BY <4>1, <4>2
    <3>2. \A i \in DOMAIN g : g[i] \in 1..n
      BY DEF InOrder, Moving, ToSet
    <3>3. QED
      BY <2>3, <3>1, <3>2 DEF ToSet
  <2>6. ASSUME NEW i \in DOMAIN h PROVE h[1] <= h[i]
    BY <2>1, <2>3 DEF InOrder, Consecutive
  <2>7. \A x \in ToSet(h) : h[1] <= x
    BY <2>6 DEF ToSet
  <2>8. \A x \in BytesOf(q) \cup BytesOf(m) \cup BytesOf(w) : h[1] < x
    BY <2>2 DEF InOrder, Before
  <2>9. QED
    BY <2>3, <2>4, <2>5, <2>7, <2>8 DEF Moving
<1>8. QED
  BY <1>2, <1>4, <1>5, <1>6, <1>7 DEF a, b

-----------------------------------------------------------------------------
(* The bytes accepted from the caller and not published yet.               *)

(* The writer's chunk begins the unpublished bytes (PublishSucceeds). *)
LEMMA OldestUnpublished ==
    ASSUME NEW k \in Nat, NEW n \in Nat, NEW c \in Chunk, NEW S,
           Consecutive(c), Before(ToSet(c), S), ToSet(c) \cup S = (k + 1)..n
    PROVE  /\ Len(c) \in Nat /\ ToSet(c) = (k + 1)..(k + Len(c))
           /\ k + Len(c) <= n /\ S = (k + Len(c) + 1)..n
<1>1. c \in Seq(Bytes) /\ c # <<>> /\ Bytes \subseteq Nat
  BY ChunkFacts
<1>3. c[1] \in Nat /\ ToSet(c) = c[1]..(c[1] + Len(c) - 1) /\ Len(c) \in Nat \ {0}
  <2>1. Len(c) \in Nat \ {0}
    BY <1>1
  <2>2. QED
    BY <1>1, <2>1, ConsecutiveBytes
<1>4. c[1] \in ToSet(c) /\ c[1] + Len(c) - 1 \in ToSet(c)
  BY <1>3
<1>5. c[1] = k + 1
  <2>1. c[1] \in (k + 1)..n
    BY <1>4
  <2>2. k + 1 \in ToSet(c) \cup S
    BY <2>1
  <2>3. k + 1 \notin S
    BY <1>4, <2>1 DEF Before
  <2>4. QED
    BY <1>3, <2>1, <2>2, <2>3
<1>6. ToSet(c) = (k + 1)..(k + Len(c)) /\ k + Len(c) <= n
  BY <1>3, <1>4, <1>5
<1>7. ASSUME NEW x \in S PROVE x \in (k + Len(c) + 1)..n
  <2>1. k + Len(c) \in ToSet(c) /\ x \in (k + 1)..n
    BY <1>3, <1>6
  <2>2. k + Len(c) < x
    BY <2>1 DEF Before
  <2>3. QED
    BY <1>3, <2>1, <2>2
<1>8. ASSUME NEW x \in (k + Len(c) + 1)..n PROVE x \in S
  BY <1>3, <1>6
<1>9. QED
  BY <1>3, <1>6, <1>7, <1>8

(* The chunk a write queues holds the next bytes (Write). *)
LEMMA AcceptedChunk ==
    ASSUME NEW e \in End, NEW n \in 1..MaxChunk, written[e] \in Nat, written[e] + n <= MaxBytes
    PROVE  /\ Accepted(e, n) \in Chunk /\ Consecutive(Accepted(e, n))
           /\ ToSet(Accepted(e, n)) = (written[e] + 1)..(written[e] + n)
<1> DEFINE c == Accepted(e, n)
<1>1. MaxBytes \in Nat /\ MaxChunk \in Nat /\ n \in Nat \ {0}
  BY DuplexAssumption
<1>2. DOMAIN c = 1..n /\ \A i \in 1..n : c[i] = written[e] + i
  BY DEF Accepted
<1>3. c \in [1..n -> Bytes]
  BY <1>1 DEF Accepted, Bytes
<1>4. c \in Chunk
  BY <1>3 DEF Chunk
<1>5. Consecutive(c)
  BY <1>1, <1>2 DEF Consecutive
<1>6. ASSUME NEW b \in (written[e] + 1)..(written[e] + n) PROVE b \in ToSet(c)
  <2>1. b - written[e] \in 1..n
    BY <1>1
  <2>2. c[b - written[e]] = b
    BY <1>2, <2>1
  <2>3. QED
    BY <1>2, <2>1, <2>2 DEF ToSet
<1>7. ToSet(c) \subseteq (written[e] + 1)..(written[e] + n)
  BY <1>1, <1>2 DEF ToSet
<1>8. QED
  BY <1>4, <1>5, <1>6, <1>7

-----------------------------------------------------------------------------
(* The inductive invariant: of each end, where it stands, what its writer  *)
(* has, what is acknowledged, and the bytes on their way to its peer.      *)

(* What an end's tasks, its subscription and its caller may have done by   *)
(* the time connect, the reader or the writer has come so far.             *)
Lifecycle(e) ==
    /\ phase[e] \in {"none", "subscribing"} =>
          /\ reader[e] = "none" /\ writer[e] = "none"
          /\ last[e] = "none" /\ ~ refused[e] /\ ~ eof[e]
          /\ pendingPublishes[e] = <<>>
    /\ phase[e] = "open" => reader[e] # "none" /\ writer[e] # "none"
    /\ phase[e] # "gone" /\ ~ registered[e] =>
          got[e] = <<>> /\ inboundBuf[e] = <<>> /\ inbound[e] = <<>> /\ mailbox[e] = <<>>
    /\ reader[e] = "ended" => mailbox[e] = <<>> /\ ~ (registered[e] /\ alive[e])
    /\ eof[e] => reader[e] = "ended" /\ inbound[e] = <<>> /\ inboundBuf[e] = <<>>
    /\ refused[e] => closed[e] \/ writer[e] = "ended"
    /\ ~ faulty => alive[e] /\ (phase[e] = "open" => registered[e] /\ writer[e] = "running")

(* While it runs, the writer has what is accepted and not published yet,   *)
(* in order.                                                               *)
Sender(e) ==
    /\ published[e] <= written[e]
    /\ writer[e] = "none" => written[e] = 0
    /\ writer[e] # "running" => publishing[e] = <<>>
    /\ writer[e] \in {"none", "ended"} => outbound[e] = <<>>
    /\ writer[e] = "running" => Unpublished(e) = (published[e] + 1)..written[e]
    /\ BytesOf(outbound[e]) \subseteq 1..written[e]
    /\ Before(ToSet(publishing[e]), BytesOf(outbound[e]))
    /\ Consecutive(publishing[e]) /\ Sorted(outbound[e])

(* The acknowledgements still to come are the last ones, one for each      *)
(* unpublished chunk; once a chunk is lost an acknowledgement says so, and *)
(* is never taken off.                                                     *)
Unanswered(e) == Len(outbound[e]) + IF publishing[e] = <<>> THEN 0 ELSE 1
Broken(e) == \E i \in DOMAIN pendingPublishes[e] :
                pendingPublishes[e][i] \in {"failed", "dropped", "finished"}
Answers(e) ==
    /\ phase[e] = "open" =>
          /\ Unanswered(e) <= Len(pendingPublishes[e])
          /\ \A i \in DOMAIN pendingPublishes[e] :
                pendingPublishes[e][i] = "waiting"
                   <=> i > Len(pendingPublishes[e]) - Unanswered(e)
          /\ writer[e] \in {"failed", "leaving"} => Broken(e)
          /\ writer[e] = "ended" => Broken(e) \/ published[e] = written[e]
    /\ last[e] \in {"flushed", "shutdown"} => phase[e] = "open" /\ pendingPublishes[e] = <<>>

(* The published bytes reach the peer's caller in order, and over a        *)
(* healthy network without a gap once the first one of them does.          *)
OnTheWay(e) ==
    InOrder(got[Peer(e)], inboundBuf[Peer(e)], inbound[Peer(e)], mailbox[Peer(e)],
            wire[e], published[e])
NoGap(e) ==
    ~ faulty /\ phase[Peer(e)] # "gone" =>
        /\ NoHole(Arriving(e), published[e])
        /\ Consecutive(got[Peer(e)])
        /\ phase[Peer(e)] = "open" => (since[Peer(e)] + 1)..published[e] \subseteq Arriving(e)

Inv ==
    /\ TypeOK
    /\ \A e \in End : Lifecycle(e) /\ Sender(e) /\ Answers(e) /\ OnTheWay(e) /\ NoGap(e)

(* Nothing has happened initially. *)
LEMMA InitInv == Init => Inv
<1> SUFFICES ASSUME Init PROVE Inv
  OBVIOUS
<1> USE DEF Init, Everywhere
<1>1. TypeOK
  BY DuplexAssumption DEF TypeOK
<1> SUFFICES ASSUME NEW e \in End
             PROVE  Lifecycle(e) /\ Sender(e) /\ Answers(e) /\ OnTheWay(e) /\ NoGap(e)
  BY <1>1 DEF Inv
<1>2. Peer(e) \in End
  BY PeerFacts
<1>3. Lifecycle(e)
  BY DEF Lifecycle
<1>4. Sender(e)
  BY Nothing DEF Sender, Before
<1>5. Answers(e)
  BY DEF Answers
<1>6. Arriving(e) = {}
  BY <1>2, Nothing DEF Arriving
<1>7. OnTheWay(e)
  BY <1>2, Nothing DEF OnTheWay, InOrder, Moving, Before
<1>8. NoGap(e)
  BY <1>2, <1>6, Nothing DEF NoGap, NoHole
<1>9. QED
  BY <1>3, <1>4, <1>5, <1>7, <1>8

(* A step of an end, its tasks or its side of the network. *)
Step(x) ==
    Connect(x) \/ Writer(x) \/ ReaderTask(x) \/ Poll(x) \/ CallOf(x) \/ Environment(x)

(* An answer put into the acknowledgements, and those the queue drops. *)
LEMMA AnswerFacts ==
    ASSUME NEW s \in Seq(Answer)
    PROVE  /\ \A i \in DOMAIN s, a \in Answer :
                 /\ [s EXCEPT ![i] = a] \in Seq(Answer)
                 /\ Len([s EXCEPT ![i] = a]) = Len(s)
                 /\ DOMAIN [s EXCEPT ![i] = a] = 1..Len(s)
           /\ LET d == [i \in DOMAIN s |-> IF s[i] = "waiting" THEN "dropped" ELSE s[i]]
              IN  d \in Seq(Answer) /\ Len(d) = Len(s) /\ DOMAIN d = 1..Len(s)
<1>1. DOMAIN s = 1..Len(s) /\ Len(s) \in Nat /\ \A i \in DOMAIN s : s[i] \in Answer
  OBVIOUS
<1>2. ASSUME NEW d, d \in [1..Len(s) -> Answer]
      PROVE  d \in Seq(Answer) /\ Len(d) = Len(s) /\ DOMAIN d = 1..Len(s)
  BY <1>1, <1>2
<1>3. ASSUME NEW i \in DOMAIN s, NEW a \in Answer
      PROVE  [s EXCEPT ![i] = a] \in [1..Len(s) -> Answer]
  BY <1>1
<1>4. [i \in DOMAIN s |-> IF s[i] = "waiting" THEN "dropped" ELSE s[i]] \in [1..Len(s) -> Answer]
  BY <1>1 DEF Answer
<1>5. QED
  BY <1>2, <1>3, <1>4

(* The variables keep their types. *)
LEMMA TypeStep ==
    ASSUME Inv, NEW x \in End, Step(x)
    PROVE  TypeOK'
<1> USE DEF TypeOK, caller, channel, tasks, broker, history
<1>0. TypeOK /\ Peer(x) \in End /\ Sender(x) /\ OnTheWay(Peer(x)) /\ Peer(Peer(x)) = x
  BY PeerFacts DEF Inv
<1>e. <<>> \in Seq(Chunk) /\ <<>> \in Seq(Bytes) /\ <<>> \in Chunk \cup {<<>>}
  OBVIOUS
<1>q. ASSUME NEW s \in Seq(Chunk)
      PROVE  /\ \A c \in Chunk : Append(s, c) \in Seq(Chunk)
             /\ s # <<>> => Head(s) \in Chunk /\ Tail(s) \in Seq(Chunk)
  OBVIOUS
<1>u. ASSUME NEW T, NEW f \in [End -> T], NEW v \in T, NEW y \in End
      PROVE  [f EXCEPT ![y] = v] \in [End -> T]
  OBVIOUS
<1>1. CASE Subscribe(x)
  BY <1>0, <1>1 DEF Subscribe
<1>2. CASE Connected(x)
  BY <1>0, <1>2 DEF Connected, Spawn
<1>3. CASE ConnectFails(x)
  <2>1. mailbox' \in [End -> Seq(Chunk)]
    BY <1>0, <1>3, <1>e, <1>u DEF ConnectFails
  <2>2. QED
    BY <1>0, <1>3, <2>1 DEF ConnectFails
<1>4. CASE ReaderForwards(x)
  <2>1. mailbox[x] \in Seq(Chunk) /\ inbound[x] \in Seq(Chunk) /\ mailbox[x] # <<>>
    BY <1>0, <1>4 DEF ReaderForwards
  <2>2. Append(inbound[x], Head(mailbox[x])) \in Seq(Chunk) /\ Tail(mailbox[x]) \in Seq(Chunk)
    BY <2>1, <1>q
  <2>3. mailbox' \in [End -> Seq(Chunk)] /\ inbound' \in [End -> Seq(Chunk)]
    BY <1>0, <1>4, <1>u, <2>2 DEF ReaderForwards
  <2>4. QED
    BY <1>0, <1>4, <2>3 DEF ReaderForwards
<1>5. CASE ReaderEnds(x)
  BY <1>0, <1>5 DEF ReaderEnds
<1>6. CASE AbortReader(x)
  <2>1. mailbox' \in [End -> Seq(Chunk)]
    BY <1>0, <1>6, <1>e, <1>u DEF AbortReader
  <2>2. QED
    BY <1>0, <1>6, <2>1 DEF AbortReader
<1>7. CASE WriterTakes(x)
  <2>1. outbound[x] \in Seq(Chunk) /\ outbound[x] # <<>>
    BY <1>0, <1>7 DEF WriterTakes
  <2>2. Head(outbound[x]) \in Chunk \cup {<<>>} /\ Tail(outbound[x]) \in Seq(Chunk)
    BY <2>1, <1>q
  <2>3. outbound' \in [End -> Seq(Chunk)] /\ publishing' \in [End -> Chunk \cup {<<>>}]
    BY <1>0, <1>7, <1>u, <2>2 DEF WriterTakes
  <2>4. QED
    BY <1>0, <1>7, <2>3 DEF WriterTakes
<1>a. ASSUME NEW a \in Answer, Acknowledge(x, a) PROVE pendingPublishes' \in [End -> Seq(Answer)]
  <2>1. PICK i \in DOMAIN pendingPublishes[x] :
            pendingPublishes' = [pendingPublishes EXCEPT ![x] = [@ EXCEPT ![i] = a]]
    BY <1>a DEF Acknowledge
  <2>2. [pendingPublishes[x] EXCEPT ![i] = a] \in Seq(Answer)
    BY <1>0, AnswerFacts
  <2>3. QED
    BY <1>0, <2>1, <2>2
<1>8. CASE PublishSucceeds(x)
  <2>1. pendingPublishes' \in [End -> Seq(Answer)]
    BY <1>8, <1>a DEF PublishSucceeds, Answer
  <2>2. publishing[x] \in Chunk
    BY <1>0, <1>8 DEF PublishSucceeds
  <2>3. published[x] + Len(publishing[x]) <= written[x] /\ Len(publishing[x]) \in Nat
    <3>1. /\ Unpublished(x) = (published[x] + 1)..written[x]
          /\ Consecutive(publishing[x]) /\ Before(ToSet(publishing[x]), BytesOf(outbound[x]))
      BY <1>0, <1>8 DEF PublishSucceeds, Sender
    <3>2. published[x] \in Nat /\ written[x] \in Nat
      BY <1>0
    <3>3. QED
      BY <2>2, <3>1, <3>2, OldestUnpublished DEF Unpublished
  <2>4. published[x] + Len(publishing[x]) \in 0..MaxBytes
    <3>1. \A p, l, w, m \in Nat : p + l <= w /\ w <= m => p + l \in 0..m
      OBVIOUS
    <3>2. MaxBytes \in Nat /\ published[x] \in 0..MaxBytes /\ written[x] \in 0..MaxBytes
      BY <1>0, DuplexAssumption
    <3>3. published[x] \in Nat /\ written[x] \in Nat /\ written[x] <= MaxBytes
      BY <3>2
    <3>4. QED
      BY <2>3, <3>1, <3>2, <3>3
  <2>5. Append(wire[x], publishing[x]) \in Seq(Chunk)
    BY <1>0, <1>q, <2>2
  <2>6. /\ wire' \in [End -> Seq(Chunk)] /\ published' \in [End -> 0..MaxBytes]
        /\ publishing' \in [End -> Chunk \cup {<<>>}]
    BY <1>0, <1>8, <1>e, <1>u, <2>4, <2>5 DEF PublishSucceeds
  <2>7. QED
    BY <1>0, <1>8, <2>1, <2>6 DEF PublishSucceeds
<1>9. CASE PublishFails(x)
  <2>1. pendingPublishes' \in [End -> Seq(Answer)]
    BY <1>9, <1>a DEF PublishFails, Answer
  <2>2. publishing' \in [End -> Chunk \cup {<<>>}]
    BY <1>0, <1>9, <1>e, <1>u DEF PublishFails
  <2>3. QED
    BY <1>0, <1>9, <2>1, <2>2 DEF PublishFails
<1>10. CASE WriterCloses(x)
  BY <1>0, <1>10 DEF WriterCloses
<1>b. ASSUME QueueDropped(x)
      PROVE  /\ pendingPublishes' \in [End -> Seq(Answer)]
             /\ outbound' \in [End -> Seq(Chunk)]
  <2>1. pendingPublishes[x] \in Seq(Answer)
    BY <1>0
  <2>2. [i \in DOMAIN pendingPublishes[x] |->
            IF pendingPublishes[x][i] = "waiting" THEN "dropped" ELSE pendingPublishes[x][i]]
        \in Seq(Answer)
    BY <2>1, AnswerFacts
  <2>3. QED
    BY <1>0, <1>b, <1>e, <1>u, <2>2 DEF QueueDropped
<1>11. CASE WriterEnds(x)
  BY <1>0, <1>b, <1>11 DEF WriterEnds
<1>12. CASE AbortWriter(x)
  <2>1. outbound' \in [End -> Seq(Chunk)] /\ publishing' \in [End -> Chunk \cup {<<>>}]
    BY <1>0, <1>12, <1>e, <1>u DEF AbortWriter
  <2>2. QED
    BY <1>0, <1>12, <2>1 DEF AbortWriter
<1>13. CASE WriterDies(x)
  <2>1. publishing' \in [End -> Chunk \cup {<<>>}]
    BY <1>0, <1>13, <1>e, <1>u DEF WriterDies
  <2>2. QED
    BY <1>0, <1>b, <1>13, <2>1 DEF WriterDies
<1>14. CASE PollPendingPublishes(x)
  <2> USE DEF PollPendingPublishes, Returns
  <2>1. CASE PublishSeen(x)
    <3>1. pendingPublishes[x] \in Seq(Answer) /\ pendingPublishes[x] # <<>>
      BY <1>0, <1>14
    <3>2. Tail(pendingPublishes[x]) \in Seq(Answer)
      BY <3>1
    <3>3. pendingPublishes' \in [End -> Seq(Answer)]
      BY <1>0, <1>u, <2>1, <3>2 DEF PublishSeen
    <3>4. QED
      BY <1>0, <1>14, <2>1, <3>3 DEF PublishSeen
  <2>2. CASE FailureSeen(x)
    <3>1. PICK left \in {"finished", "dropped"} :
              pendingPublishes' = [pendingPublishes EXCEPT ![x] = [@ EXCEPT ![1] = left]]
      BY <2>2 DEF FailureSeen
    <3>2. [pendingPublishes[x] EXCEPT ![1] = left] \in Seq(Answer)
      <4>1. pendingPublishes[x] \in Seq(Answer) /\ pendingPublishes[x] # <<>>
        BY <1>0, <1>14
      <4>2. 1 \in DOMAIN pendingPublishes[x]
        BY <4>1
      <4>3. left \in Answer
        BY DEF Answer
      <4>4. QED
        BY <4>1, <4>2, <4>3, AnswerFacts
    <3>3. pendingPublishes' \in [End -> Seq(Answer)]
      BY <1>0, <1>u, <3>1, <3>2
    <3>4. QED
      BY <1>0, <1>14, <2>2, <3>3 DEF FailureSeen
  <2>3. CASE PollFinished(x)
    BY <1>0, <1>14, <2>3 DEF PollFinished
  <2>4. QED
    BY <1>14, <2>1, <2>2, <2>3
<1>15. CASE Flushed(x)
  BY <1>0, <1>15 DEF Flushed, Returns
<1>16. CASE ShutDown(x)
  BY <1>0, <1>16 DEF ShutDown, Returns
<1>17. ASSUME NEW n \in 1..MaxChunk, Read(x, n) PROVE TypeOK'
  <2>1. /\ got' \in [End -> Seq(Bytes)] /\ inbound' \in [End -> Seq(Chunk)]
        /\ inboundBuf' \in [End -> Seq(Bytes)] /\ eof' \in [End -> BOOLEAN]
    <3>1. ASSUME NEW c \in Seq(Bytes), Fill(x, n, c)
          PROVE  got' \in [End -> Seq(Bytes)] /\ inboundBuf' \in [End -> Seq(Bytes)]
      <4> DEFINE k == IF n < Len(c) THEN n ELSE Len(c)
                 a == SubSeq(c, 1, k)
                 b == SubSeq(c, Len(a) + 1, Len(c))
      <4>1. n \in Nat /\ Len(c) \in Nat /\ k \in 0..Len(c)
        BY DuplexAssumption
      <4>2. a \in Seq(Bytes) /\ Len(a) \in Nat
        BY <4>1
      <4>3. b \in Seq(Bytes)
        BY <4>1, <4>2
      <4>4. got[x] \in Seq(Bytes)
        BY <1>0
      <4>5. got[x] \o a \in Seq(Bytes)
        BY <4>2, <4>4
      <4>6. /\ got' = [got EXCEPT ![x] = got[x] \o a]
            /\ inboundBuf' = [inboundBuf EXCEPT ![x] = b]
        BY <3>1 DEF Fill
      <4> HIDE DEF a, b, k
      <4>7. QED
        BY <1>0, <1>u, <4>3, <4>5, <4>6
    <3>2. CASE inboundBuf[x] # <<>> /\ Fill(x, n, inboundBuf[x]) /\ UNCHANGED <<inbound, eof>>
      BY <1>0, <3>1, <3>2
    <3>3. CASE /\ inbound[x] # <<>> /\ Fill(x, n, Head(inbound[x]))
               /\ inbound' = [inbound EXCEPT ![x] = Tail(@)] /\ UNCHANGED eof
      <4>1. inbound[x] \in Seq(Chunk) /\ inbound[x] # <<>>
        BY <1>0, <3>3
      <4>2. Head(inbound[x]) \in Seq(Bytes) /\ Tail(inbound[x]) \in Seq(Chunk)
        BY <4>1, <1>q, ChunkFacts
      <4>3. inbound' \in [End -> Seq(Chunk)]
        BY <1>0, <1>u, <3>3, <4>2
      <4>4. QED
        BY <1>0, <3>1, <3>3, <4>2, <4>3
    <3>4. CASE eof' = [eof EXCEPT ![x] = TRUE] /\ UNCHANGED <<inbound, inboundBuf, got>>
      BY <1>0, <3>4
    <3>5. QED
      BY <1>17, <3>2, <3>3, <3>4 DEF Read
  <2>2. QED
    BY <1>0, <1>17, <2>1 DEF Read
<1>18. ASSUME NEW n \in 1..MaxChunk, Write(x, n) PROVE TypeOK'
  <2>1. n \in Nat /\ written[x] \in Nat /\ written[x] + n <= MaxBytes /\ MaxBytes \in Nat
    <3>1. n \in Nat /\ MaxBytes \in Nat
      BY DuplexAssumption
    <3>2. QED
      BY <1>0, <1>18, <3>1 DEF Write
  <2>2. Accepted(x, n) \in Chunk
    BY <2>1, AcceptedChunk
  <2>3. written[x] + n \in 0..MaxBytes
    BY <2>1
  <2>4. /\ Append(outbound[x], Accepted(x, n)) \in Seq(Chunk)
        /\ Append(pendingPublishes[x], "waiting") \in Seq(Answer)
    <3>1. pendingPublishes[x] \in Seq(Answer) /\ "waiting" \in Answer
      BY <1>0 DEF Answer
    <3>2. QED
      BY <1>0, <1>q, <2>2, <3>1
  <2>5. /\ outbound' \in [End -> Seq(Chunk)] /\ pendingPublishes' \in [End -> Seq(Answer)]
        /\ written' \in [End -> 0..MaxBytes]
    <3>1. CASE UNCHANGED <<outbound, pendingPublishes, written>>
      BY <1>0, <3>1
    <3>2. CASE /\ outbound' = [outbound EXCEPT ![x] = Append(outbound[x], Accepted(x, n))]
               /\ pendingPublishes' =
                     [pendingPublishes EXCEPT ![x] = Append(pendingPublishes[x], "waiting")]
               /\ written' = [written EXCEPT ![x] = written[x] + n]
      BY <1>0, <1>u, <2>3, <2>4, <3>2
    <3>3. QED
      BY <1>18, <3>1, <3>2 DEF Write
  <2>6. /\ last' \in [End -> {"none", "wrote", "flushed", "shutdown", "BrokenPipe", "panic"}]
        /\ op' \in [End -> {"idle", "flushing", "closing"}]
        /\ \A e \in End : phase[e] # "open" => op'[e] = "idle"
        /\ refused' \in [End -> BOOLEAN]
    <3>1. PICK outcome \in {"BrokenPipe", "wrote"} : Returns(x, outcome)
      BY <1>18 DEF Write
    <3>2. last' = [last EXCEPT ![x] = outcome] /\ op' = [op EXCEPT ![x] = "idle"]
      BY <3>1 DEF Returns
    <3>3. refused' \in [End -> BOOLEAN]
      BY <1>0, <3>1 DEF Returns
    <3>4. QED
      BY <1>0, <3>2, <3>3
  <2>7. UNCHANGED <<phase, eof, closed, inbound, inboundBuf, tasks, broker, published, got, since>>
    BY <1>18 DEF Write
  <2>8. QED
    BY <1>0, <2>5, <2>6, <2>7
<1>19. ASSUME NEW call \in {"flushing", "closing"}, Flush(x, call) PROVE TypeOK'
  BY <1>0, <1>19 DEF Flush
<1>20. CASE Abandon(x)
  BY <1>0, <1>20 DEF Abandon
<1>21. CASE Drop(x)
  BY <1>0, <1>21 DEF Drop
<1>22. CASE Register(x)
  BY <1>0, <1>22 DEF Register
<1>23. CASE Forward(x)
  <2>1. wire[x] \in Seq(Chunk) /\ wire[x] # <<>> /\ mailbox[Peer(x)] \in Seq(Chunk)
    BY <1>0, <1>23 DEF Forward
  <2>2. Tail(wire[x]) \in Seq(Chunk) /\ Append(mailbox[Peer(x)], Head(wire[x])) \in Seq(Chunk)
    BY <2>1, <1>q
  <2>3. wire' \in [End -> Seq(Chunk)] /\ mailbox' \in [End -> Seq(Chunk)]
    BY <1>0, <1>23, <1>u, <2>2 DEF Forward
  <2>4. QED
    BY <1>0, <1>23, <2>3 DEF Forward
<1>24. CASE Lose(x)
  <2>1. wire[x] \in Seq(Chunk) /\ wire[x] # <<>>
    BY <1>0, <1>24 DEF Lose
  <2>2. Tail(wire[x]) \in Seq(Chunk)
    BY <2>1, <1>q
  <2>3. wire' \in [End -> Seq(Chunk)]
    BY <1>0, <1>24, <1>u, <2>2 DEF Lose
  <2>4. QED
    BY <1>0, <1>24, <2>3 DEF Lose
<1>25. CASE ClientStops(x)
  BY <1>0, <1>25 DEF ClientStops
<1>26. QED
  BY <1>1, <1>2, <1>3, <1>4, <1>5, <1>6, <1>7, <1>8, <1>9, <1>10, <1>11, <1>12, <1>13, <1>14,
     <1>15, <1>16, <1>17, <1>18, <1>19, <1>20, <1>21, <1>22, <1>23, <1>24, <1>25
     DEF Step, Connect, Writer, WriterTask, ReaderTask, Poll, CallOf, Environment

(* Each end stands where its tasks and its caller can have brought it. *)
LEMMA LifecycleStep ==
    ASSUME Inv, NEW x \in End, Step(x), NEW e \in End
    PROVE  Lifecycle(e)'
<1> USE DEF caller, channel, tasks, broker, history
<1>0. /\ Lifecycle(e) /\ Lifecycle(x) /\ Peer(x) \in End /\ Peer(x) # x
      /\ e = x \/ e = Peer(x)
  BY PeerFacts DEF Inv
<1>t. /\ phase \in [End -> {"none", "subscribing", "open", "gone"}]
      /\ op \in [End -> {"idle", "flushing", "closing"}]
      /\ \A f \in End : phase[f] # "open" => op[f] = "idle"
      /\ reader \in [End -> {"none", "running", "ended"}]
      /\ writer \in [End -> {"none", "running", "failed", "leaving", "ended"}]
      /\ DOMAIN last = End /\ refused \in [End -> BOOLEAN] /\ eof \in [End -> BOOLEAN]
      /\ closed \in [End -> BOOLEAN] /\ DOMAIN pendingPublishes = End
      /\ alive \in [End -> BOOLEAN] /\ registered \in [End -> BOOLEAN]
      /\ DOMAIN got = End /\ DOMAIN inboundBuf = End /\ DOMAIN inbound = End /\ DOMAIN mailbox = End
  BY DEF Inv, TypeOK
<1> USE DEF Lifecycle
<1>1. CASE Subscribe(x)
  BY <1>0, <1>t, <1>1 DEF Subscribe
<1>2. CASE Connected(x)
  BY <1>0, <1>t, <1>2 DEF Connected, Spawn
<1>3. CASE ConnectFails(x)
  BY <1>0, <1>t, <1>3 DEF ConnectFails
<1>4. CASE ReaderForwards(x)
  BY <1>0, <1>t, <1>4 DEF ReaderForwards
<1>5. CASE ReaderEnds(x)
  BY <1>0, <1>t, <1>5 DEF ReaderEnds
<1>6. CASE AbortReader(x)
  BY <1>0, <1>t, <1>6 DEF AbortReader
<1>7. CASE WriterTakes(x)
  BY <1>0, <1>t, <1>7 DEF WriterTakes
<1>a. ASSUME NEW a, Acknowledge(x, a)
      PROVE  \A f \in End : pendingPublishes[f] = <<>> => pendingPublishes'[f] = <<>>
  <2>1. PICK i \in DOMAIN pendingPublishes[x] :
            pendingPublishes' = [pendingPublishes EXCEPT ![x] = [@ EXCEPT ![i] = a]]
    BY <1>a DEF Acknowledge
  <2>2. pendingPublishes[x] # <<>>
    OBVIOUS
  <2>3. QED
    BY <1>t, <2>1, <2>2
<1>8. CASE PublishSucceeds(x)
  BY <1>0, <1>t, <1>a, <1>8 DEF PublishSucceeds
<1>9. CASE PublishFails(x)
  BY <1>0, <1>t, <1>a, <1>9 DEF PublishFails
<1>10. CASE WriterCloses(x)
  BY <1>0, <1>t, <1>10 DEF WriterCloses
<1>11. CASE WriterEnds(x)
  BY <1>0, <1>t, <1>11 DEF WriterEnds, QueueDropped
<1>12. CASE AbortWriter(x)
  BY <1>0, <1>t, <1>12 DEF AbortWriter
<1>13. CASE WriterDies(x)
  BY <1>0, <1>t, <1>13 DEF WriterDies, QueueDropped
<1>14. CASE PollPendingPublishes(x)
  BY <1>0, <1>t, <1>14
     DEF PollPendingPublishes, PublishSeen, FailureSeen, PollFinished, Returns
<1>15. CASE Flushed(x)
  BY <1>0, <1>t, <1>15 DEF Flushed, Returns
<1>16. CASE ShutDown(x)
  BY <1>0, <1>t, <1>16 DEF ShutDown, Returns
<1>17. ASSUME NEW n \in 1..MaxChunk, Read(x, n) PROVE Lifecycle(e)'
  <2>1. /\ phase[x] = "open" /\ reader[e] \in {"none", "running", "ended"}
        /\ \A f \in End : f # x => /\ got'[f] = got[f] /\ inboundBuf'[f] = inboundBuf[f]
                                 /\ inbound'[f] = inbound[f] /\ eof'[f] = eof[f]
        /\ UNCHANGED <<phase, last, refused, closed, pendingPublishes, tasks, broker>>
    BY <1>t, <1>17 DEF Read, Fill
  <2>2. CASE inboundBuf[x] # <<>> \/ inbound[x] # <<>>
    <3>1. eof' = eof /\ registered[x] /\ ~ eof[x]
      BY <1>0, <1>17, <2>1, <2>2 DEF Read
    <3>2. QED
      BY <1>0, <2>1, <3>1
  <2>3. CASE inboundBuf[x] = <<>> /\ inbound[x] = <<>>
    <3>1. reader[x] = "ended" /\ UNCHANGED <<inbound, inboundBuf, got>>
      BY <1>17, <2>3 DEF Read
    <3>2. QED
      BY <1>0, <2>1, <2>3, <3>1
  <2>4. QED
    BY <2>2, <2>3
<1>18. ASSUME NEW n \in 1..MaxChunk, Write(x, n) PROVE Lifecycle(e)'
  <2>1. CASE (closed[x] \/ writer[x] = "ended") /\ Returns(x, "BrokenPipe")
    BY <1>0, <1>t, <1>18, <2>1 DEF Write, Returns
  <2>2. CASE Returns(x, "wrote")
    BY <1>0, <1>t, <1>18, <2>2 DEF Write, Returns
  <2>3. QED
    BY <1>18, <2>1, <2>2 DEF Write
<1>19. ASSUME NEW call \in {"flushing", "closing"}, Flush(x, call) PROVE Lifecycle(e)'
  BY <1>0, <1>t, <1>19 DEF Flush
<1>20. CASE Abandon(x)
  BY <1>0, <1>t, <1>20 DEF Abandon
<1>21. CASE Drop(x)
  BY <1>0, <1>t, <1>21 DEF Drop
<1>22. CASE Register(x)
  BY <1>0, <1>t, <1>22 DEF Register
<1>23. CASE Forward(x)
  <2>1. ~ (registered[Peer(x)] /\ alive[Peer(x)]) => mailbox' = mailbox
    BY <1>23 DEF Forward
  <2>2. mailbox'[x] = mailbox[x]
    BY <1>0, <1>t, <1>23 DEF Forward
  <2>3. /\ e = Peer(x) => mailbox'[e] = mailbox[e] \/ (registered[e] /\ alive[e])
        /\ UNCHANGED <<phase, caller, channel, tasks, faulty, alive, registered, history>>
    BY <2>1, <1>23 DEF Forward
  <2>4. QED
    BY <1>0, <2>2, <2>3
<1>24. CASE Lose(x)
  BY <1>0, <1>t, <1>24 DEF Lose
<1>25. CASE ClientStops(x)
  BY <1>0, <1>t, <1>25 DEF ClientStops
<1>26. QED
  BY <1>1, <1>2, <1>3, <1>4, <1>5, <1>6, <1>7, <1>8, <1>9, <1>10, <1>11, <1>12, <1>13, <1>14,
     <1>15, <1>16, <1>17, <1>18, <1>19, <1>20, <1>21, <1>22, <1>23, <1>24, <1>25
     DEF Step, Connect, Writer, WriterTask, ReaderTask, Poll, CallOf, Environment

(* What its writer has, is what is accepted and not published yet. *)
LEMMA SenderStep ==
    ASSUME Inv, NEW x \in End, Step(x), NEW e \in End
    PROVE  Sender(e)'
<1> USE DEF caller, channel, tasks, broker, history
<1>0. /\ Sender(e) /\ Sender(x) /\ Lifecycle(x)
      /\ Peer(x) \in End /\ Peer(x) # x /\ (e = x \/ e = Peer(x))
  BY PeerFacts DEF Inv
<1>t. /\ writer \in [End -> {"none", "running", "failed", "leaving", "ended"}]
      /\ outbound \in [End -> Seq(Chunk)] /\ publishing \in [End -> Chunk \cup {<<>>}]
      /\ published \in [End -> Nat] /\ written \in [End -> Nat] /\ DOMAIN pendingPublishes = End
      /\ MaxBytes \in Nat /\ MaxChunk \in Nat
  BY DuplexAssumption DEF Inv, TypeOK
<1>p. \A f \in End : publishing[f] # <<>> => publishing[f] \in Chunk
  BY <1>t
<1>i. ASSUME UNCHANGED <<published[e], written[e], writer[e], publishing[e], outbound[e]>>
      PROVE  Sender(e)'
  BY <1>0, <1>i DEF Sender, Unpublished, BytesOf
<1>1. CASE Subscribe(x)
  BY <1>i, <1>1 DEF Subscribe
<1>2. CASE Connected(x)
  <2>1. CASE e # x
    BY <1>0, <1>i, <1>t, <1>2, <2>1 DEF Connected, Spawn
  <2>2. CASE e = x
    <3>1. /\ writer[e] = "none" /\ writer' = [writer EXCEPT ![e] = "running"]
          /\ UNCHANGED <<published, written, publishing, outbound>>
      BY <1>0, <1>2, <2>2 DEF Connected, Spawn, Lifecycle
    <3>2. written[e] = 0 /\ published[e] = 0 /\ publishing[e] = <<>> /\ outbound[e] = <<>>
      BY <1>0, <1>t, <3>1 DEF Sender
    <3>3. Unpublished(e)' = {} /\ (published[e] + 1)..written[e] = {}
      BY <3>1, <3>2, Nothing DEF Unpublished
    <3>4. writer'[e] = "running"
      BY <1>t, <3>1
    <3>5. BytesOf(outbound'[e]) = {} /\ ToSet(publishing'[e]) = {}
      BY <3>1, <3>2, Nothing
    <3>6. Consecutive(publishing'[e]) /\ Sorted(outbound'[e])
      BY <3>1, <3>2, Nothing
    <3>7. QED
      BY <3>1, <3>2, <3>3, <3>4, <3>5, <3>6 DEF Sender, Before
  <2>3. QED
    BY <2>1, <2>2
<1>3. CASE ConnectFails(x)
  BY <1>i, <1>3 DEF ConnectFails
<1>4. CASE ReaderForwards(x)
  BY <1>i, <1>4 DEF ReaderForwards
<1>5. CASE ReaderEnds(x)
  BY <1>i, <1>5 DEF ReaderEnds
<1>6. CASE AbortReader(x)
  BY <1>i, <1>6 DEF AbortReader
<1>7. CASE WriterTakes(x)
  <2>1. CASE e # x
    BY <1>0, <1>i, <1>t, <1>7, <2>1 DEF WriterTakes
  <2>2. CASE e = x
    <3>1. /\ writer[e] = "running" /\ publishing[e] = <<>> /\ outbound[e] # <<>>
          /\ publishing'[e] = Head(outbound[e]) /\ outbound'[e] = Tail(outbound[e])
          /\ UNCHANGED <<published, written, writer>>
      BY <1>t, <1>7, <2>2 DEF WriterTakes
    <3>2. outbound[e] \in Seq(Chunk)
      BY <1>t
    <3>3. /\ BytesOf(outbound[e]) = ToSet(Head(outbound[e])) \cup BytesOf(Tail(outbound[e]))
          /\ Consecutive(Head(outbound[e])) /\ Sorted(Tail(outbound[e]))
          /\ Before(ToSet(Head(outbound[e])), BytesOf(Tail(outbound[e])))
      BY <1>0, <3>1, <3>2, TakeChunk DEF Sender
    <3>4. ToSet(publishing[e]) = {}
      BY <3>1, Nothing
    <3>5. ToSet(publishing'[e]) \cup BytesOf(outbound'[e]) = Unpublished(e)
      BY <3>1, <3>3, <3>4 DEF Unpublished
    <3>6. Unpublished(e)' = Unpublished(e)
      BY <3>5 DEF Unpublished, BytesOf
    <3>7. QED
      BY <1>0, <3>1, <3>3, <3>6 DEF Sender, BytesOf
  <2>3. QED
    BY <2>1, <2>2
<1>8. CASE PublishSucceeds(x)
  <2>1. CASE e # x
    BY <1>0, <1>i, <1>t, <1>8, <2>1 DEF PublishSucceeds
  <2>2. CASE e = x
    <3>1. /\ writer[e] = "running" /\ publishing[e] # <<>> /\ publishing[e] \in Chunk
          /\ publishing'[e] = <<>> /\ published'[e] = published[e] + Len(publishing[e])
          /\ UNCHANGED <<written, writer, outbound>>
      BY <1>p, <1>t, <1>8, <2>2 DEF PublishSucceeds
    <3>2. /\ published[e] + Len(publishing[e]) <= written[e]
          /\ BytesOf(outbound[e]) = (published[e] + Len(publishing[e]) + 1)..written[e]
      <4>1. /\ ToSet(publishing[e]) \cup BytesOf(outbound[e]) = (published[e] + 1)..written[e]
            /\ Consecutive(publishing[e])
            /\ Before(ToSet(publishing[e]), BytesOf(outbound[e]))
            /\ published[e] \in Nat /\ written[e] \in Nat
        BY <1>0, <1>t, <3>1 DEF Sender, Unpublished
      <4>2. QED
        BY <3>1, <4>1, OldestUnpublished
    <3>3. /\ ToSet(publishing'[e]) = {} /\ Consecutive(publishing'[e])
      BY <3>1, Nothing
    <3>4. Unpublished(e)' = (published'[e] + 1)..written[e]
      BY <3>1, <3>2, <3>3 DEF Unpublished, BytesOf
    <3>5. QED
      BY <1>0, <3>1, <3>2, <3>3, <3>4 DEF Sender, Before, BytesOf
  <2>3. QED
    BY <2>1, <2>2
<1>s. ASSUME e = x, writer'[e] # "running", writer'[e] # "none", writer[e] # "none",
             publishing'[e] = <<>>,
             outbound'[e] = <<>> \/ (outbound'[e] = outbound[e] /\ writer'[e] # "ended"),
             UNCHANGED <<published, written>>
      PROVE  Sender(e)'
  <2>1. ToSet(publishing'[e]) = {} /\ Consecutive(publishing'[e])
    BY <1>s, Nothing
  <2>2. BytesOf(outbound'[e]) \subseteq 1..written'[e] /\ Sorted(outbound'[e])
    BY <1>0, <1>s, Nothing DEF Sender
  <2>3. QED
    BY <1>0, <1>s, <2>1, <2>2 DEF Sender, Before, BytesOf
<1>9. CASE PublishFails(x)
  <2>1. CASE e # x
    BY <1>0, <1>i, <1>t, <1>9, <2>1 DEF PublishFails
  <2>2. CASE e = x
    BY <1>s, <1>t, <1>9, <2>2 DEF PublishFails
  <2>3. QED
    BY <2>1, <2>2
<1>10. CASE WriterCloses(x)
  <2>1. CASE e # x
    BY <1>0, <1>i, <1>t, <1>10, <2>1 DEF WriterCloses
  <2>2. CASE e = x
    BY <1>0, <1>s, <1>t, <1>10, <2>2 DEF WriterCloses, Sender
  <2>3. QED
    BY <2>1, <2>2
<1>11. CASE WriterEnds(x)
  <2>1. CASE e # x
    BY <1>0, <1>i, <1>t, <1>11, <2>1 DEF WriterEnds, QueueDropped
  <2>2. CASE e = x
    BY <1>0, <1>s, <1>t, <1>11, <2>2 DEF WriterEnds, QueueDropped, Sender
  <2>3. QED
    BY <2>1, <2>2
<1>12. CASE AbortWriter(x)
  <2>1. CASE e # x
    BY <1>0, <1>i, <1>t, <1>12, <2>1 DEF AbortWriter
  <2>2. CASE e = x
    BY <1>s, <1>t, <1>12, <2>2 DEF AbortWriter
  <2>3. QED
    BY <2>1, <2>2
<1>13. CASE WriterDies(x)
  <2>1. CASE e # x
    BY <1>0, <1>i, <1>t, <1>13, <2>1 DEF WriterDies, QueueDropped
  <2>2. CASE e = x
    BY <1>s, <1>t, <1>13, <2>2 DEF WriterDies, QueueDropped
  <2>3. QED
    BY <2>1, <2>2
<1>14. CASE PollPendingPublishes(x)
  BY <1>i, <1>14 DEF PollPendingPublishes
<1>15. CASE Flushed(x)
  BY <1>i, <1>15 DEF Flushed
<1>16. CASE ShutDown(x)
  BY <1>i, <1>16 DEF ShutDown
<1>17. ASSUME NEW n \in 1..MaxChunk, Read(x, n) PROVE Sender(e)'
  BY <1>i, <1>17 DEF Read
<1>18. ASSUME NEW n \in 1..MaxChunk, Write(x, n) PROVE Sender(e)'
  <2>1. CASE UNCHANGED <<outbound, pendingPublishes, written>>
    BY <1>i, <1>18, <2>1 DEF Write
  <2>2. CASE e # x
    BY <1>0, <1>i, <1>t, <1>18, <2>2 DEF Write
  <2>3. CASE e = x /\ ~ UNCHANGED <<outbound, pendingPublishes, written>>
    <3> DEFINE c == Accepted(e, n)
    <3>1. /\ writer[e] # "ended" /\ phase[e] = "open" /\ written[e] + n <= MaxBytes
          /\ outbound'[e] = Append(outbound[e], c)
          /\ written'[e] = written[e] + n
          /\ UNCHANGED <<published, writer, publishing>>
      BY <1>t, <1>18, <2>3 DEF Write
    <3>2. /\ c \in Chunk /\ Consecutive(c) /\ ToSet(c) = (written[e] + 1)..(written[e] + n)
          /\ n \in Nat /\ written[e] \in Nat /\ published[e] \in Nat
      BY <1>t, <3>1, AcceptedChunk
    <3> HIDE DEF c
    <3>3. writer[e] # "none"
      BY <1>0, <2>3, <3>1 DEF Lifecycle
    <3>4. Before(BytesOf(outbound[e]), ToSet(c))
      BY <1>0, <3>2 DEF Sender, Before
    <3>5. /\ BytesOf(outbound'[e]) = BytesOf(outbound[e]) \cup ToSet(c)
          /\ Sorted(outbound'[e])
      <4>1. outbound[e] \in Seq(Chunk)
        BY <1>t
      <4>2. QED
        BY <1>0, <3>1, <3>2, <3>4, <4>1, AddChunk DEF Sender
    <3>6. Before(ToSet(publishing[e]), ToSet(c))
      <4>1. CASE writer[e] = "running"
        <5>1. ToSet(publishing[e]) \subseteq (published[e] + 1)..written[e]
          BY <1>0, <4>1 DEF Sender, Unpublished
        <5>2. QED
          BY <3>2, <5>1 DEF Before
      <4>2. CASE writer[e] # "running"
        <5>1. ToSet(publishing[e]) = {}
          BY <1>0, <4>2, Nothing DEF Sender
        <5>2. QED
          BY <5>1 DEF Before
      <4>3. QED
        BY <4>1, <4>2
    <3>7. Before(ToSet(publishing'[e]), BytesOf(outbound'[e]))
      BY <1>0, <3>1, <3>5, <3>6 DEF Sender, Before
    <3>8. BytesOf(outbound'[e]) \subseteq 1..written'[e]
      BY <1>0, <3>1, <3>2, <3>5 DEF Sender
    <3>9. ASSUME writer[e] = "running"
          PROVE  ToSet(publishing'[e]) \cup BytesOf(outbound'[e]) = (published'[e] + 1)..written'[e]
      <4>1. ToSet(publishing[e]) \cup BytesOf(outbound[e]) = (published[e] + 1)..written[e]
        BY <1>0, <3>9 DEF Sender, Unpublished
      <4>2. published[e] <= written[e]
        BY <1>0 DEF Sender
      <4>3. (published[e] + 1)..written[e] \cup ToSet(c) = (published[e] + 1)..(written[e] + n)
        BY <3>2, <4>2
      <4>4. QED
        BY <3>1, <3>5, <4>1, <4>3
    <3>10. Unpublished(e)' = ToSet(publishing'[e]) \cup BytesOf(outbound'[e])
      BY DEF Unpublished, BytesOf
    <3>11. BytesOf(outbound[e])' = BytesOf(outbound'[e])
      BY DEF BytesOf
    <3>12. published'[e] <= written'[e]
      BY <1>0, <3>1, <3>2 DEF Sender
    <3>13. QED
      BY <1>0, <3>1, <3>3, <3>5, <3>7, <3>8, <3>9, <3>10, <3>11, <3>12 DEF Sender
  <2>4. QED
    BY <2>1, <2>2, <2>3
<1>19. ASSUME NEW call \in {"flushing", "closing"}, Flush(x, call) PROVE Sender(e)'
  BY <1>i, <1>19 DEF Flush
<1>20. CASE Abandon(x)
  BY <1>i, <1>20 DEF Abandon
<1>21. CASE Drop(x)
  BY <1>i, <1>21 DEF Drop
<1>22. CASE Register(x)
  BY <1>i, <1>22 DEF Register
<1>23. CASE Forward(x)
  BY <1>i, <1>23 DEF Forward
<1>24. CASE Lose(x)
  BY <1>i, <1>24 DEF Lose
<1>25. CASE ClientStops(x)
  BY <1>i, <1>25 DEF ClientStops
<1>26. QED
  BY <1>1, <1>2, <1>3, <1>4, <1>5, <1>6, <1>7, <1>8, <1>9, <1>10, <1>11, <1>12, <1>13, <1>14,
     <1>15, <1>16, <1>17, <1>18, <1>19, <1>20, <1>21, <1>22, <1>23, <1>24, <1>25
     DEF Step, Connect, Writer, WriterTask, ReaderTask, Poll, CallOf, Environment

(* What is answered and what is still to be. *)
LEMMA AnswersStep ==
    ASSUME Inv, NEW x \in End, Step(x), NEW e \in End
    PROVE  Answers(e)'
<1> USE DEF caller, channel, tasks, broker, history
<1>0. /\ Answers(e) /\ Sender(e) /\ Lifecycle(e)
      /\ Peer(x) \in End /\ Peer(x) # x /\ (e = x \/ e = Peer(x))
  BY PeerFacts DEF Inv
<1>t. /\ phase \in [End -> {"none", "subscribing", "open", "gone"}]
      /\ op \in [End -> {"idle", "flushing", "closing"}]
      /\ \A f \in End : phase[f] # "open" => op[f] = "idle"
      /\ writer \in [End -> {"none", "running", "failed", "leaving", "ended"}]
      /\ outbound \in [End -> Seq(Chunk)] /\ publishing \in [End -> Chunk \cup {<<>>}]
      /\ published \in [End -> Nat] /\ written \in [End -> Nat]
      /\ pendingPublishes \in [End -> Seq(Answer)] /\ DOMAIN last = End
  BY DuplexAssumption DEF Inv, TypeOK
<1>d. \A s \in Seq(Answer) : DOMAIN s = 1..Len(s) /\ Len(s) \in Nat
  OBVIOUS
<1>l. Len(outbound[e]) \in Nat /\ Unanswered(e) \in Nat
  BY <1>t DEF Unanswered
<1>i. ASSUME UNCHANGED <<phase[e], pendingPublishes[e], writer[e], outbound[e], publishing[e],
                         published[e], written[e], last[e]>>
      PROVE  Answers(e)'
  BY <1>0, <1>i DEF Answers, Unanswered, Broken
<1>g. ASSUME phase'[e] # "open", last'[e] \notin {"flushed", "shutdown"}
      PROVE  Answers(e)'
  BY <1>g DEF Answers
<1>1. CASE Subscribe(x)
  <2>1. CASE e # x
    BY <1>0, <1>i, <1>t, <1>1, <2>1 DEF Subscribe
  <2>2. CASE e = x
    BY <1>0, <1>g, <1>t, <1>1, <2>2 DEF Subscribe, Lifecycle
  <2>3. QED
    BY <2>1, <2>2
<1>2. CASE Connected(x)
  <2>1. CASE e # x
    BY <1>0, <1>i, <1>t, <1>2, <2>1 DEF Connected, Spawn
  <2>2. CASE e = x
    <3>1. /\ pendingPublishes[e] = <<>> /\ last[e] = "none" /\ writer[e] = "none"
          /\ writer'[e] = "running" /\ UNCHANGED <<pendingPublishes, last, outbound, publishing>>
      BY <1>0, <1>t, <1>2, <2>2 DEF Connected, Spawn, Lifecycle
    <3>2. outbound[e] = <<>> /\ publishing[e] = <<>>
      BY <1>0, <3>1 DEF Sender
    <3>3. Unanswered(e)' = 0
      BY <3>1, <3>2 DEF Unanswered
    <3>4. QED
      BY <3>1, <3>3 DEF Answers
  <2>3. QED
    BY <2>1, <2>2
<1>3. CASE ConnectFails(x)
  <2>1. CASE e # x
    BY <1>0, <1>i, <1>t, <1>3, <2>1 DEF ConnectFails
  <2>2. CASE e = x
    BY <1>0, <1>g, <1>t, <1>3, <2>2 DEF ConnectFails, Lifecycle
  <2>3. QED
    BY <2>1, <2>2
<1>4. CASE ReaderForwards(x)
  BY <1>i, <1>4 DEF ReaderForwards
<1>5. CASE ReaderEnds(x)
  BY <1>i, <1>5 DEF ReaderEnds
<1>6. CASE AbortReader(x)
  BY <1>i, <1>6 DEF AbortReader
<1>7. CASE WriterTakes(x)
  <2>1. CASE e # x
    BY <1>0, <1>i, <1>t, <1>7, <2>1 DEF WriterTakes
  <2>2. CASE e = x
    <3>1. /\ writer[e] = "running" /\ publishing[e] = <<>> /\ outbound[e] # <<>>
          /\ publishing'[e] = Head(outbound[e]) /\ outbound'[e] = Tail(outbound[e])
          /\ UNCHANGED <<phase, pendingPublishes, last, published, written, writer>>
      BY <1>t, <1>7, <2>2 DEF WriterTakes
    <3>2. Head(outbound[e]) # <<>> /\ Len(Tail(outbound[e])) + 1 = Len(outbound[e])
      <4>1. outbound[e] \in Seq(Chunk)
        BY <1>t
      <4>2. Head(outbound[e]) \in Chunk
        BY <3>1, <4>1
      <4>3. QED
        BY <3>1, <4>1, <4>2, ChunkFacts
    <3>3. Unanswered(e)' = Unanswered(e)
      BY <1>l, <3>1, <3>2 DEF Unanswered
    <3>4. QED
      BY <1>0, <3>1, <3>3 DEF Answers, Broken
  <2>3. QED
    BY <2>1, <2>2
(* The writer answers the first that waits; what it loses, it says. *)
<1>a. ASSUME NEW a \in {"ok", "failed"}, e = x, Acknowledge(x, a),
             publishing[e] # <<>>, publishing'[e] = <<>>, writer[e] = "running",
             UNCHANGED <<phase, last, outbound>>,
             IF a = "ok" THEN writer'[e] = "running" ELSE writer'[e] = "failed"
      PROVE  Answers(e)'
  <2> DEFINE p == pendingPublishes[e]
  <2>1. PICK i \in DOMAIN p : /\ p[i] = "waiting" /\ \A j \in 1..(i - 1) : p[j] # "waiting"
                              /\ pendingPublishes' = [pendingPublishes EXCEPT ![e] = [p EXCEPT ![i] = a]]
    BY <1>a DEF Acknowledge
  <2>2. p \in Seq(Answer) /\ a \in Answer /\ DOMAIN p = 1..Len(p) /\ Len(p) \in Nat /\ i \in Nat
    BY <1>d, <1>t DEF Answer
  <2>3. /\ pendingPublishes'[e] = [p EXCEPT ![i] = a]
        /\ Len(pendingPublishes'[e]) = Len(p) /\ DOMAIN pendingPublishes'[e] = 1..Len(p)
    BY <1>t, <2>1, <2>2, AnswerFacts
  <2> HIDE DEF p
  <2>4. /\ Unanswered(e)' = Len(outbound[e]) /\ Unanswered(e) = Len(outbound[e]) + 1
    BY <1>a DEF Unanswered
  <2>5. ASSUME phase[e] = "open"
        PROVE  /\ i = Len(p) - Len(outbound[e])
               /\ \A j \in 1..Len(p) : p[j] = "waiting" <=> j >= i
    <3>1. /\ Len(outbound[e]) + 1 <= Len(p)
          /\ \A j \in 1..Len(p) : p[j] = "waiting" <=> j > Len(p) - (Len(outbound[e]) + 1)
      BY <1>0, <2>2, <2>4, <2>5 DEF Answers, p
    <3>2. Len(p) - Len(outbound[e]) \in 1..Len(p)
      BY <1>l, <2>2, <3>1
    <3>3. p[Len(p) - Len(outbound[e])] = "waiting"
      BY <1>l, <2>2, <3>1, <3>2
    <3>4. i > Len(p) - (Len(outbound[e]) + 1)
      BY <2>1, <2>2, <3>1
    <3>5. ~ (Len(p) - Len(outbound[e]) \in 1..(i - 1))
      BY <2>1, <3>3
    <3>6. i = Len(p) - Len(outbound[e])
      BY <1>l, <2>2, <3>2, <3>4, <3>5
    <3>7. QED
      BY <1>l, <2>2, <3>1, <3>6
  <2>6. ASSUME phase'[e] = "open"
        PROVE  /\ Unanswered(e)' <= Len(pendingPublishes'[e])
               /\ \A j \in DOMAIN pendingPublishes'[e] :
                     pendingPublishes'[e][j] = "waiting"
                        <=> j > Len(pendingPublishes'[e]) - Unanswered(e)'
    <3>1. /\ i = Len(p) - Len(outbound[e])
          /\ \A j \in 1..Len(p) : p[j] = "waiting" <=> j >= i
      BY <1>a, <2>5, <2>6
    <3>2. \A j \in 1..Len(p) : pendingPublishes'[e][j] = IF j = i THEN a ELSE p[j]
      BY <2>2, <2>3
    <3>3. Len(outbound[e]) <= Len(p) /\ i > Len(p) - (Len(outbound[e]) + 1)
      BY <1>l, <2>2, <3>1
    <3>4. ASSUME NEW j \in 1..Len(p)
          PROVE  pendingPublishes'[e][j] = "waiting" <=> j > Len(p) - Len(outbound[e])
      <4>1. CASE j = i
        <5>1. pendingPublishes'[e][j] = a /\ a # "waiting"
          BY <1>a, <3>2, <4>1
        <5>2. ~ (j > Len(p) - Len(outbound[e]))
          BY <2>2, <3>1, <4>1
        <5>3. QED
          BY <5>1, <5>2
      <4>2. CASE j # i
        <5>1. pendingPublishes'[e][j] = p[j] /\ (p[j] = "waiting" <=> j >= i)
          BY <3>1, <3>2, <4>2
        <5>2. j >= i <=> j > Len(p) - Len(outbound[e])
          <6>1. Len(p) - Len(outbound[e]) = i
            BY <3>1
          <6>2. j >= i <=> j > i
            BY <2>2, <4>2
          <6>3. QED
            BY <6>1, <6>2
        <5>3. QED
          BY <5>1, <5>2
      <4>3. QED
        BY <4>1, <4>2
    <3>5. QED
      BY <2>3, <2>4, <3>3, <3>4
  <2>7. writer'[e] = "failed" => Broken(e)'
    BY <1>a, <2>1, <2>2, <2>3 DEF Broken
  <2>8. last[e] \notin {"flushed", "shutdown"}
    BY <1>0, <2>1 DEF Answers, p
  <2>9. QED
    BY <1>a, <2>6, <2>7, <2>8 DEF Answers
<1>8. CASE PublishSucceeds(x)
  <2>1. CASE e # x
    BY <1>0, <1>i, <1>t, <1>8, <2>1 DEF PublishSucceeds, Acknowledge
  <2>2. CASE e = x
    BY <1>a, <1>t, <1>8, <2>2 DEF PublishSucceeds
  <2>3. QED
    BY <2>1, <2>2
<1>9. CASE PublishFails(x)
  <2>1. CASE e # x
    BY <1>0, <1>i, <1>t, <1>9, <2>1 DEF PublishFails, Acknowledge
  <2>2. CASE e = x
    BY <1>a, <1>t, <1>9, <2>2 DEF PublishFails
  <2>3. QED
    BY <2>1, <2>2
<1>10. CASE WriterCloses(x)
  <2>1. CASE e # x
    BY <1>0, <1>i, <1>t, <1>10, <2>1 DEF WriterCloses
  <2>2. CASE e = x
    BY <1>0, <1>t, <1>10, <2>2 DEF WriterCloses, Answers, Unanswered, Broken
  <2>3. QED
    BY <2>1, <2>2
(* The queue goes: whoever waited is told so. *)
<1>b. ASSUME e = x, QueueDropped(x), publishing'[e] = <<>>, writer'[e] = "ended",
             writer[e] \in {"running", "leaving"}, UNCHANGED <<phase, last, published, written>>
      PROVE  Answers(e)'
  <2> DEFINE p == pendingPublishes[e]
             d == [i \in DOMAIN p |-> IF p[i] = "waiting" THEN "dropped" ELSE p[i]]
  <2>1. pendingPublishes'[e] = d /\ outbound'[e] = <<>>
    BY <1>b, <1>t DEF QueueDropped
  <2>2. p \in Seq(Answer) /\ DOMAIN p = 1..Len(p) /\ Len(p) \in Nat
    BY <1>d, <1>t
  <2>3. d \in Seq(Answer) /\ Len(d) = Len(p) /\ DOMAIN d = 1..Len(p)
    BY <2>2, AnswerFacts
  <2>4. \A i \in 1..Len(p) : d[i] # "waiting" /\ (p[i] # "waiting" => d[i] = p[i])
                          /\ (p[i] = "waiting" => d[i] = "dropped")
    BY <2>2
  <2>5. p = <<>> => d = <<>>
    BY <2>2, <2>3
  <2> HIDE DEF p, d
  <2>6. Unanswered(e)' = 0
    BY <1>b, <2>1 DEF Unanswered
  <2>7. \A i \in DOMAIN pendingPublishes'[e] :
            pendingPublishes'[e][i] = "waiting" <=> i > Len(pendingPublishes'[e]) - 0
    BY <2>1, <2>2, <2>3, <2>4
  <2>8. ASSUME phase[e] = "open" PROVE Broken(e)' \/ published[e] = written[e]
    <3>1. CASE writer[e] = "leaving"
      <4>1. PICK i \in DOMAIN p : p[i] \in {"failed", "dropped", "finished"}
        BY <1>0, <2>8, <3>1 DEF Answers, Broken, p
      <4>2. d[i] = p[i] /\ i \in DOMAIN d
        BY <2>2, <2>3, <2>4, <4>1
      <4>3. QED
        BY <2>1, <4>1, <4>2 DEF Broken
    <3>2. CASE writer[e] = "running" /\ Unanswered(e) = 0
      <4>1. Len(outbound[e]) = 0 /\ publishing[e] = <<>>
        <5>1. CASE publishing[e] = <<>>
          BY <1>l, <3>2, <5>1 DEF Unanswered
        <5>2. CASE publishing[e] # <<>>
          <6>1. Unanswered(e) = Len(outbound[e]) + 1
            BY <5>2 DEF Unanswered
          <6>2. QED
            BY <1>l, <3>2, <6>1
        <5>3. QED
          BY <5>1, <5>2
      <4>2. outbound[e] = <<>>
        BY <1>t, <4>1
      <4>3. Unpublished(e) = {}
        BY <4>1, <4>2, Nothing DEF Unpublished
      <4>4. (published[e] + 1)..written[e] = {} /\ published[e] <= written[e]
        BY <1>0, <3>2, <4>3 DEF Sender
      <4>5. published[e] \in Nat /\ written[e] \in Nat
        BY <1>t
      <4>6. CASE published[e] < written[e]
        <5>1. written[e] \in (published[e] + 1)..written[e]
          BY <4>5, <4>6
        <5>2. QED
          BY <4>4, <5>1
      <4>7. QED
        BY <4>4, <4>5, <4>6
    <3>3. CASE Unanswered(e) # 0
      <4>1. Unanswered(e) <= Len(p) /\ Unanswered(e) > 0
        BY <1>0, <1>l, <2>8, <3>3 DEF Answers, p
      <4>2. Len(p) \in DOMAIN p /\ Len(p) > Len(p) - Unanswered(e)
        BY <1>l, <2>2, <4>1
      <4>3. p[Len(p)] = "waiting"
        BY <1>0, <2>8, <4>2 DEF Answers, p
      <4>4. d[Len(p)] = "dropped" /\ Len(p) \in DOMAIN d
        BY <2>2, <2>3, <2>4, <4>2, <4>3
      <4>5. QED
        BY <2>1, <4>4 DEF Broken
    <3>4. QED
      BY <1>b, <3>1, <3>2, <3>3
  <2>9. last[e] \in {"flushed", "shutdown"} => phase[e] = "open" /\ pendingPublishes'[e] = <<>>
    BY <1>0, <2>1, <2>5 DEF Answers, p
  <2>10. 0 <= Len(pendingPublishes'[e])
    BY <2>1, <2>2, <2>3
  <2>11. QED
    BY <1>b, <2>6, <2>7, <2>8, <2>9, <2>10 DEF Answers
<1>11. CASE WriterEnds(x)
  <2>1. CASE e # x
    BY <1>0, <1>i, <1>t, <1>11, <2>1 DEF WriterEnds, QueueDropped
  <2>2. CASE e = x
    BY <1>0, <1>b, <1>t, <1>11, <2>2 DEF WriterEnds, Sender
  <2>3. QED
    BY <2>1, <2>2
<1>12. CASE AbortWriter(x)
  <2>1. CASE e # x
    BY <1>0, <1>i, <1>t, <1>12, <2>1 DEF AbortWriter
  <2>2. CASE e = x
    BY <1>0, <1>g, <1>t, <1>12, <2>2 DEF AbortWriter, Answers
  <2>3. QED
    BY <2>1, <2>2
<1>13. CASE WriterDies(x)
  <2>1. CASE e # x
    BY <1>0, <1>i, <1>t, <1>13, <2>1 DEF WriterDies, QueueDropped
  <2>2. CASE e = x
    BY <1>b, <1>t, <1>13, <2>2 DEF WriterDies
  <2>3. QED
    BY <2>1, <2>2
<1>14. CASE PollPendingPublishes(x)
  <2>1. CASE e # x
    BY <1>0, <1>i, <1>t, <1>14, <2>1
       DEF PollPendingPublishes, PublishSeen, FailureSeen, PollFinished, Returns
  <2>2. ASSUME e = x PROVE Answers(e)'
    <3> DEFINE p == pendingPublishes[e]
    <3>1. /\ p \in Seq(Answer) /\ p # <<>> /\ DOMAIN p = 1..Len(p) /\ Len(p) \in Nat \ {0}
          /\ Head(p) = p[1] /\ phase[e] = "open"
          /\ UNCHANGED <<outbound, publishing, writer, published, written>>
      BY <1>t, <1>14, <2>2 DEF PollPendingPublishes
    <3>2. Unanswered(e)' = Unanswered(e)
      BY <3>1 DEF Unanswered
    <3>3. /\ Unanswered(e) <= Len(p)
          /\ \A i \in 1..Len(p) : p[i] = "waiting" <=> i > Len(p) - Unanswered(e)
          /\ writer[e] \in {"failed", "leaving"} => Broken(e)
          /\ writer[e] = "ended" => Broken(e) \/ published[e] = written[e]
          /\ last[e] \notin {"flushed", "shutdown"}
      BY <1>0, <3>1 DEF Answers
    <3>4. CASE PublishSeen(x)
      <4>1. /\ p[1] = "ok" /\ pendingPublishes'[e] = Tail(p) /\ UNCHANGED <<phase, last>>
        BY <1>t, <2>2, <3>1, <3>4 DEF PublishSeen
      <4>2. /\ Len(Tail(p)) = Len(p) - 1 /\ DOMAIN Tail(p) = 1..(Len(p) - 1)
            /\ \A i \in 1..(Len(p) - 1) : Tail(p)[i] = p[i + 1]
        BY <3>1
      <4> HIDE DEF p
      <4>3. ~ (1 > Len(p) - Unanswered(e))
        BY <3>1, <3>3, <4>1
      <4>4. Unanswered(e) <= Len(p) - 1
        BY <1>l, <3>1, <4>3
      <4>5. ASSUME NEW i \in 1..(Len(p) - 1)
            PROVE  Tail(p)[i] = "waiting" <=> i > (Len(p) - 1) - Unanswered(e)
        BY <1>l, <3>1, <3>3, <4>2
      <4>6. Broken(e) => Broken(e)'
        <5>1. ASSUME Broken(e) PROVE Broken(e)'
          <6>1. PICK i \in DOMAIN p : p[i] \in {"failed", "dropped", "finished"}
            BY <5>1 DEF Broken, p
          <6>2. i # 1
            BY <4>1, <6>1
          <6>3. i - 1 \in DOMAIN Tail(p) /\ Tail(p)[i - 1] = p[i]
            BY <3>1, <4>2, <6>2
          <6>4. QED
            BY <4>1, <6>1, <6>3 DEF Broken
        <5>2. QED
          BY <5>1
      <4>7. QED
        BY <3>1, <3>2, <3>3, <4>1, <4>2, <4>4, <4>5, <4>6 DEF Answers
    <3>5. CASE FailureSeen(x)
      <4>1. PICK left \in {"finished", "dropped"} :
                pendingPublishes' = [pendingPublishes EXCEPT ![e] = [p EXCEPT ![1] = left]]
        BY <2>2, <3>5 DEF FailureSeen
      <4>2. pendingPublishes'[e] = [p EXCEPT ![1] = left]
        BY <1>t, <4>1
      <4>3. /\ DOMAIN pendingPublishes'[e] = 1..Len(p) /\ Len(pendingPublishes'[e]) = Len(p)
            /\ pendingPublishes'[e][1] = left /\ 1 \in 1..Len(p)
            /\ \A i \in 1..Len(p) : i # 1 => pendingPublishes'[e][i] = p[i]
        <5>1. 1 \in DOMAIN p /\ left \in Answer
          BY <3>1 DEF Answer
        <5>2. QED
          BY <3>1, <4>2, <5>1, AnswerFacts
      <4>4. p[1] \in {"failed", "dropped"} /\ UNCHANGED phase /\ last'[e] = "BrokenPipe"
        BY <1>t, <2>2, <3>1, <3>5 DEF FailureSeen, Returns
      <4> HIDE DEF p
      <4>5. Broken(e)'
        BY <4>1, <4>3 DEF Broken
      <4>6. \A i \in 1..Len(p) : pendingPublishes'[e][i] = "waiting" <=> p[i] = "waiting"
        BY <4>1, <4>3, <4>4
      <4>7. QED
        BY <3>1, <3>2, <3>3, <4>3, <4>4, <4>5, <4>6 DEF Answers
    <3>6. CASE PollFinished(x)
      BY <1>g, <1>t, <2>2, <3>6 DEF PollFinished, Returns
    <3>7. QED
      BY <1>14, <3>4, <3>5, <3>6 DEF PollPendingPublishes
  <2>3. QED
    BY <2>1, <2>2
<1>r. ASSUME e = x, UNCHANGED <<phase, pendingPublishes, writer, outbound, publishing, published, written>>,
             last'[e] \in {"flushed", "shutdown"} => phase[e] = "open" /\ pendingPublishes[e] = <<>>
      PROVE  Answers(e)'
  BY <1>0, <1>r DEF Answers, Unanswered, Broken
<1>15. CASE Flushed(x)
  <2>1. CASE e # x
    BY <1>0, <1>i, <1>t, <1>15, <2>1 DEF Flushed, Returns
  <2>2. CASE e = x
    BY <1>r, <1>t, <1>15, <2>2 DEF Flushed, Returns
  <2>3. QED
    BY <2>1, <2>2
<1>16. CASE ShutDown(x)
  <2>1. CASE e # x
    BY <1>0, <1>i, <1>t, <1>16, <2>1 DEF ShutDown, Returns
  <2>2. CASE e = x
    BY <1>r, <1>t, <1>16, <2>2 DEF ShutDown, Returns
  <2>3. QED
    BY <2>1, <2>2
<1>17. ASSUME NEW n \in 1..MaxChunk, Read(x, n) PROVE Answers(e)'
  BY <1>i, <1>17 DEF Read
<1>18. ASSUME NEW n \in 1..MaxChunk, Write(x, n) PROVE Answers(e)'
  <2>1. CASE e # x
    BY <1>0, <1>i, <1>t, <1>18, <2>1 DEF Write, Returns
  <2>2. CASE e = x /\ UNCHANGED <<outbound, pendingPublishes, written>> /\ Returns(x, "BrokenPipe")
    BY <1>r, <1>t, <1>18, <2>2 DEF Write, Returns
  <2>3. CASE /\ e = x /\ Returns(x, "wrote") /\ writer[x] # "ended"
             /\ outbound' = [outbound EXCEPT ![x] = Append(@, Accepted(x, n))]
             /\ pendingPublishes' = [pendingPublishes EXCEPT ![x] = Append(@, "waiting")]
    <3> DEFINE p == pendingPublishes[e]
    <3>1. /\ p \in Seq(Answer) /\ DOMAIN p = 1..Len(p) /\ Len(p) \in Nat
          /\ phase[e] = "open" /\ last'[e] = "wrote" /\ pendingPublishes'[e] = Append(p, "waiting")
          /\ outbound'[e] = Append(outbound[e], Accepted(e, n))
          /\ UNCHANGED <<phase, publishing, writer, published>>
      BY <1>d, <1>t, <1>18, <2>3 DEF Write, Returns
    <3>2. /\ Len(Append(p, "waiting")) = Len(p) + 1
          /\ DOMAIN Append(p, "waiting") = 1..(Len(p) + 1)
          /\ \A i \in 1..Len(p) : Append(p, "waiting")[i] = p[i]
          /\ Append(p, "waiting")[Len(p) + 1] = "waiting"
      <4>1. "waiting" \in Answer
        BY DEF Answer
      <4>2. QED
        BY <3>1, <4>1
    <3>3. Unanswered(e)' = Unanswered(e) + 1
      <4>1. Len(Append(outbound[e], Accepted(e, n))) = Len(outbound[e]) + 1
        <5>1. outbound[e] \in Seq(Chunk)
          BY <1>t
        <5>2. QED
          BY <5>1
      <4>2. Len(outbound'[e]) = Len(outbound[e]) + 1 /\ publishing'[e] = publishing[e]
        BY <3>1, <4>1
      <4>3. QED
        <5>1. CASE publishing[e] = <<>>
          BY <1>l, <4>2, <5>1 DEF Unanswered
        <5>2. CASE publishing[e] # <<>>
          BY <1>l, <4>2, <5>2 DEF Unanswered
        <5>3. QED
          BY <5>1, <5>2
    <3>4. /\ Unanswered(e) <= Len(p)
          /\ \A i \in 1..Len(p) : p[i] = "waiting" <=> i > Len(p) - Unanswered(e)
          /\ writer[e] \in {"failed", "leaving"} => Broken(e)
      BY <1>0, <3>1 DEF Answers
    <3>5. ASSUME NEW i \in 1..(Len(p) + 1)
          PROVE  Append(p, "waiting")[i] = "waiting" <=> i > (Len(p) + 1) - (Unanswered(e) + 1)
      BY <1>l, <3>1, <3>2, <3>4
    <3>6. Broken(e) => Broken(e)'
      BY <3>1, <3>2 DEF Broken
    <3> HIDE DEF p
    <3>7. Unanswered(e) + 1 <= Len(p) + 1
      BY <1>l, <3>1, <3>4
    <3>8. QED
      BY <2>3, <3>1, <3>2, <3>3, <3>4, <3>5, <3>6, <3>7 DEF Answers
  <2>4. QED
    BY <1>0, <1>18, <2>1, <2>2, <2>3 DEF Write
<1>19. ASSUME NEW call \in {"flushing", "closing"}, Flush(x, call) PROVE Answers(e)'
  BY <1>i, <1>19 DEF Flush
<1>20. CASE Abandon(x)
  <2>1. CASE e # x
    BY <1>0, <1>i, <1>t, <1>20, <2>1 DEF Abandon
  <2>2. CASE e = x
    BY <1>r, <1>t, <1>20, <2>2 DEF Abandon
  <2>3. QED
    BY <2>1, <2>2
<1>21. CASE Drop(x)
  <2>1. CASE e # x
    BY <1>0, <1>i, <1>t, <1>21, <2>1 DEF Drop
  <2>2. CASE e = x
    BY <1>g, <1>t, <1>21, <2>2 DEF Drop
  <2>3. QED
    BY <2>1, <2>2
<1>22. CASE Register(x)
  BY <1>i, <1>22 DEF Register
<1>23. CASE Forward(x)
  BY <1>i, <1>23 DEF Forward
<1>24. CASE Lose(x)
  BY <1>i, <1>24 DEF Lose
<1>25. CASE ClientStops(x)
  BY <1>i, <1>25 DEF ClientStops
<1>26. QED
  BY <1>1, <1>2, <1>3, <1>4, <1>5, <1>6, <1>7, <1>8, <1>9, <1>10, <1>11, <1>12, <1>13, <1>14,
     <1>15, <1>16, <1>17, <1>18, <1>19, <1>20, <1>21, <1>22, <1>23, <1>24, <1>25
     DEF Step, Connect, Writer, WriterTask, ReaderTask, Poll, CallOf, Environment

(* The subscription is dropped with what it holds (ConnectFails, AbortReader). *)
LEMMA DropMailbox ==
    ASSUME NEW g, NEW h, NEW q, NEW m, NEW w, NEW n, InOrder(g, h, q, m, w, n)
    PROVE  InOrder(g, h, q, <<>>, w, n)
  BY Nothing DEF InOrder, Before, Moving

(* The chunk the writer publishes holds the next bytes (PublishSucceeds). *)
LEMMA NextPublished ==
    ASSUME NEW e \in End, Sender(e), writer[e] = "running", publishing[e] \in Chunk,
           published \in [End -> Nat], written \in [End -> Nat]
    PROVE  /\ Len(publishing[e]) \in Nat
           /\ ToSet(publishing[e]) = (published[e] + 1)..(published[e] + Len(publishing[e]))
<1>1. /\ ToSet(publishing[e]) \cup BytesOf(outbound[e]) = (published[e] + 1)..written[e]
      /\ Consecutive(publishing[e])
      /\ Before(ToSet(publishing[e]), BytesOf(outbound[e]))
      /\ published[e] \in Nat /\ written[e] \in Nat
  BY DEF Sender, Unpublished
<1>2. ToSet(publishing[e]) = (published[e] + 1)..(published[e] + Len(publishing[e]))
  BY <1>1, OldestUnpublished
<1>3. Len(publishing[e]) \in Nat
  BY ChunkFacts
<1>4. QED
  BY <1>2, <1>3

(* The bytes on their way stay in order, and without a hole. *)
LEMMA OnTheWayStep ==
    ASSUME Inv, NEW x \in End, Step(x), NEW e \in End
    PROVE  OnTheWay(e)' /\ NoGap(e)'
<1> USE DEF caller, channel, tasks, broker, history
<1> DEFINE p == Peer(e)
<1>0. /\ OnTheWay(e) /\ NoGap(e) /\ Sender(e) /\ Sender(x) /\ Lifecycle(p)
      /\ p \in End /\ p # e /\ Peer(p) = e /\ Peer(x) \in End
      /\ (x = e \/ x = p)
  BY PeerFacts DEF Inv
<1>t. /\ phase \in [End -> {"none", "subscribing", "open", "gone"}]
      /\ reader \in [End -> {"none", "running", "ended"}]
      /\ writer \in [End -> {"none", "running", "failed", "leaving", "ended"}]
      /\ publishing \in [End -> Chunk \cup {<<>>}]
      /\ inbound \in [End -> Seq(Chunk)] /\ wire \in [End -> Seq(Chunk)]
      /\ mailbox \in [End -> Seq(Chunk)]
      /\ inboundBuf \in [End -> Seq(Bytes)] /\ got \in [End -> Seq(Bytes)]
      /\ published \in [End -> Nat] /\ written \in [End -> Nat] /\ since \in [End -> Nat]
      /\ faulty \in BOOLEAN /\ alive \in [End -> BOOLEAN] /\ registered \in [End -> BOOLEAN]
  BY DuplexAssumption DEF Inv, TypeOK
<1> DEFINE g == got[p]
           h == inboundBuf[p]
           q == inbound[p]
           m == mailbox[p]
           w == wire[e]
           n == published[e]
<1>y. /\ g \in Seq(Bytes) /\ h \in Seq(Bytes) /\ q \in Seq(Chunk) /\ m \in Seq(Chunk)
      /\ w \in Seq(Chunk) /\ n \in Nat /\ InOrder(g, h, q, m, w, n)
  BY <1>0, <1>t DEF OnTheWay
<1>m. /\ Arriving(e) = Moving(g, h, q, m, w)
      /\ Arriving(e)' = Moving(g', h', q', m', w')
      /\ OnTheWay(e)' = InOrder(g', h', q', m', w', n')
  BY DEF Arriving, OnTheWay, InOrder, Moving, BytesOf, Sorted
(* The caller, the subscription and connect go on; nothing arrives. *)
<1>j. ASSUME UNCHANGED <<faulty, g, h, q, m, w, n>>,
             \/ phase'[p] = "gone"
             \/ phase'[p] = phase[p] /\ since'[p] = since[p]
             \/ phase[p] # "gone" /\ phase'[p] = "subscribing"
             \/ phase[p] # "gone" /\ phase'[p] # "gone" /\ since'[p] = written[e]
      PROVE  OnTheWay(e)' /\ NoGap(e)'
  <2>1. OnTheWay(e)' /\ Arriving(e)' = Arriving(e)
    BY <1>j, <1>m, <1>y
  <2>2. ASSUME since'[p] = written[e] PROVE (since'[p] + 1)..published'[e] = {}
    <3>1. published[e] <= written[e] /\ published[e] \in Nat /\ written[e] \in Nat
      BY <1>0, <1>t DEF Sender
    <3>2. QED
      BY <1>j, <2>2, <3>1
  <2>3. NoGap(e)'
    BY <1>0, <1>j, <2>1, <2>2 DEF NoGap, Consecutive
  <2>4. QED
    BY <2>1, <2>3
(* The bytes move on. *)
<1>k. ASSUME UNCHANGED <<faulty, phase, since, n>>,
             InOrder(g', h', q', m', w', n), Moving(g', h', q', m', w') = Moving(g, h, q, m, w),
             ~ faulty /\ phase[p] # "gone" => Consecutive(g')
      PROVE  OnTheWay(e)' /\ NoGap(e)'
  <2>1. OnTheWay(e)' /\ Arriving(e)' = Arriving(e)
    BY <1>k, <1>m
  <2>2. NoGap(e)'
    BY <1>0, <1>k, <2>1 DEF NoGap, Consecutive
  <2>3. QED
    BY <2>1, <2>2
<1>c. ~ faulty /\ phase[p] # "gone" => Consecutive(g) /\ NoHole(Moving(g, h, q, m, w), n)
  <2>1. ~ faulty /\ phase[p] # "gone" => Consecutive(g) /\ NoHole(Arriving(e), n)
    BY <1>0 DEF NoGap
  <2>2. Arriving(e) = Moving(g, h, q, m, w)
    BY <1>m
  <2> HIDE DEF g, h, q, m, w, n
  <2>3. QED
    BY <2>1, <2>2
<1>1. CASE Subscribe(x)
  BY <1>0, <1>j, <1>t, <1>1 DEF Subscribe
<1>2. CASE Connected(x)
  <2>1. CASE x = e
    BY <1>0, <1>j, <1>t, <1>2, <2>1 DEF Connected, Spawn
  <2>2. CASE x = p
    BY <1>0, <1>j, <1>t, <1>2, <2>2 DEF Connected, Spawn
  <2>3. QED
    BY <1>0, <2>1, <2>2
<1>x. ASSUME x = p, phase'[p] = "gone", m' = <<>>, UNCHANGED <<faulty, g, h, q, w, n>>
      PROVE  OnTheWay(e)' /\ NoGap(e)'
  <2>1. OnTheWay(e)'
    BY <1>m, <1>x, <1>y, DropMailbox
  <2>2. NoGap(e)'
    BY <1>x DEF NoGap
  <2>3. QED
    BY <2>1, <2>2
<1>3. CASE ConnectFails(x)
  <2>1. CASE x = e
    BY <1>0, <1>j, <1>t, <1>3, <2>1 DEF ConnectFails
  <2>2. CASE x = p
    BY <1>0, <1>t, <1>x, <1>3, <2>2 DEF ConnectFails
  <2>3. QED
    BY <1>0, <2>1, <2>2
<1>4. CASE ReaderForwards(x)
  <2>1. CASE x = e
    BY <1>0, <1>j, <1>t, <1>4, <2>1 DEF ReaderForwards
  <2>2. CASE x = p
    <3>1. /\ m # <<>> /\ q' = Append(q, Head(m)) /\ m' = Tail(m)
          /\ UNCHANGED <<faulty, phase, since, n, g, h, w>>
      BY <1>0, <1>t, <1>4, <2>2 DEF ReaderForwards
    <3>2. QED
      BY <1>c, <1>k, <1>y, <3>1, QueueMessage
  <2>3. QED
    BY <1>0, <2>1, <2>2
<1>5. CASE ReaderEnds(x)
  BY <1>j, <1>5 DEF ReaderEnds
<1>6. CASE AbortReader(x)
  <2>1. CASE x = e
    BY <1>0, <1>j, <1>t, <1>6, <2>1 DEF AbortReader
  <2>2. CASE x = p
    BY <1>0, <1>t, <1>x, <1>6, <2>2 DEF AbortReader
  <2>3. QED
    BY <1>0, <2>1, <2>2
<1>7. CASE WriterTakes(x)
  BY <1>j, <1>7 DEF WriterTakes
<1>8. CASE PublishSucceeds(x)
  <2>1. CASE x = p
    BY <1>0, <1>j, <1>t, <1>8, <2>1 DEF PublishSucceeds
  <2>2. CASE x = e
    <3> DEFINE c == publishing[e]
               k == Len(c)
    <3>1. /\ writer[e] = "running" /\ c \in Chunk
          /\ w' = Append(w, c) /\ n' = n + k /\ UNCHANGED <<faulty, phase, since, g, h, q, m>>
      BY <1>0, <1>t, <1>8, <2>2 DEF PublishSucceeds
    <3>2. /\ Consecutive(c) /\ k \in Nat /\ ToSet(c) = (n + 1)..(n + k)
      <4>1. /\ writer[e] = "running" /\ publishing[e] \in Chunk
            /\ published \in [End -> Nat] /\ written \in [End -> Nat]
        BY <1>t, <3>1
      <4>2. QED
        BY <1>0, <4>1, NextPublished DEF Sender
    <3> HIDE DEF c, k
    <3>3. /\ InOrder(g, h, q, m, Append(w, c), n + k)
          /\ Moving(g, h, q, m, Append(w, c)) = Moving(g, h, q, m, w) \cup (n + 1)..(n + k)
          /\ NoHole(Moving(g, h, q, m, w), n)
                => NoHole(Moving(g, h, q, m, Append(w, c)), n + k)
      BY <1>y, <3>1, <3>2, PublishChunk
    <3>4. OnTheWay(e)'
      BY <1>m, <3>1, <3>3
    <3>5. ASSUME ~ faulty, phase[p] # "gone"
          PROVE  /\ NoHole(Arriving(e)', n') /\ Consecutive(g')
                 /\ phase[p] = "open" => (since[p] + 1)..n' \subseteq Arriving(e)'
      <4>1. NoHole(Moving(g, h, q, m, w), n) /\ Consecutive(g)
        BY <1>c, <3>5
      <4>2. ASSUME phase[p] = "open", NEW b \in (since[p] + 1)..(n + k)
            PROVE  b \in Moving(g, h, q, m, w) \cup (n + 1)..(n + k)
        <5>1. (since[p] + 1)..n \subseteq Moving(g, h, q, m, w)
          BY <1>0, <1>m, <3>5, <4>2 DEF NoGap
        <5>2. since[p] \in Nat
          BY <1>0, <1>t
        <5>3. CASE b <= n
          BY <1>y, <4>2, <5>1, <5>2, <5>3
        <5>4. CASE b > n
          BY <1>y, <3>2, <4>2, <5>2, <5>4
        <5>5. QED
          BY <1>y, <4>2, <5>2, <5>3, <5>4
      <4>3. QED
        BY <1>m, <3>1, <3>3, <4>1, <4>2
    <3>6. NoGap(e)'
      BY <3>1, <3>5 DEF NoGap, NoHole, Consecutive
    <3>7. QED
      BY <3>4, <3>6
  <2>3. QED
    BY <1>0, <2>1, <2>2
<1>9. CASE PublishFails(x)
  BY <1>j, <1>9 DEF PublishFails
<1>10. CASE WriterCloses(x)
  BY <1>j, <1>10 DEF WriterCloses
<1>11. CASE WriterEnds(x)
  BY <1>j, <1>11 DEF WriterEnds
<1>12. CASE AbortWriter(x)
  BY <1>j, <1>12 DEF AbortWriter
<1>13. CASE WriterDies(x)
  BY <1>j, <1>13 DEF WriterDies
<1>14. CASE PollPendingPublishes(x)
  BY <1>0, <1>j, <1>t, <1>14 DEF PollPendingPublishes, PublishSeen, FailureSeen, PollFinished
<1>15. CASE Flushed(x)
  BY <1>j, <1>15 DEF Flushed
<1>16. CASE ShutDown(x)
  BY <1>j, <1>16 DEF ShutDown
<1>17. ASSUME NEW r \in 1..MaxChunk, Read(x, r) PROVE OnTheWay(e)' /\ NoGap(e)'
  <2>1. CASE x = e
    BY <1>0, <1>j, <1>t, <1>17, <2>1 DEF Read, Fill
  <2>2. CASE x = p
    <3>1. UNCHANGED <<faulty, phase, since, n, m, w>>
      BY <1>17, <2>2 DEF Read
    <3>2. ASSUME NEW c \in Seq(Bytes), c # <<>>, Fill(x, r, c), InOrder(g, c, q', m, w, n),
                 Moving(g, c, q', m, w) = Moving(g, h, q, m, w)
          PROVE  OnTheWay(e)' /\ NoGap(e)'
      <4> DEFINE k == IF r < Len(c) THEN r ELSE Len(c)
      <4>1. k \in 1..Len(c) /\ Len(c) \in Nat
        BY <3>2, DuplexAssumption
      <4>2. Len(SubSeq(c, 1, k)) = k
        BY <4>1
      <4>3. g' = g \o SubSeq(c, 1, k) /\ h' = SubSeq(c, k + 1, Len(c))
        BY <1>0, <1>t, <2>2, <3>2, <4>2 DEF Fill
      <4> HIDE DEF k
      <4>4. /\ InOrder(g', h', q', m, w, n)
            /\ Moving(g', h', q', m, w) = Moving(g, h, q, m, w)
            /\ Consecutive(g) /\ NoHole(Moving(g, h, q, m, w), n) => Consecutive(g')
        BY <1>y, <3>2, <4>1, <4>3, ReadBytes
      <4>5. QED
        BY <1>c, <1>k, <3>1, <4>4
    <3>3. CASE h # <<>> /\ Fill(x, r, h) /\ UNCHANGED <<inbound, eof>>
      <4>1. q' = q
        BY <3>3
      <4>2. QED
        BY <1>y, <3>2, <3>3, <4>1
    <3>4. CASE /\ h = <<>> /\ q # <<>> /\ Fill(x, r, Head(q))
               /\ inbound' = [inbound EXCEPT ![x] = Tail(q)]
      <4>1. q' = Tail(q)
        BY <1>0, <1>t, <2>2, <3>4
      <4>2. /\ Head(q) \in Seq(Bytes) /\ Head(q) # <<>>
            /\ InOrder(g, Head(q), Tail(q), m, w, n)
            /\ Moving(g, Head(q), Tail(q), m, w) = Moving(g, h, q, m, w)
        BY <1>y, <3>4, BeginChunk
      <4>3. QED
        BY <3>2, <3>4, <4>1, <4>2
    <3>5. CASE UNCHANGED <<inbound, inboundBuf, got>>
      BY <1>j, <3>1, <3>5
    <3>6. QED
      BY <1>17, <2>2, <3>3, <3>4, <3>5 DEF Read
  <2>3. QED
    BY <1>0, <2>1, <2>2
<1>18. ASSUME NEW r \in 1..MaxChunk, Write(x, r) PROVE OnTheWay(e)' /\ NoGap(e)'
  BY <1>j, <1>18 DEF Write
<1>19. ASSUME NEW call \in {"flushing", "closing"}, Flush(x, call) PROVE OnTheWay(e)' /\ NoGap(e)'
  BY <1>j, <1>19 DEF Flush
<1>20. CASE Abandon(x)
  BY <1>j, <1>20 DEF Abandon
<1>21. CASE Drop(x)
  BY <1>0, <1>j, <1>t, <1>21 DEF Drop
<1>22. CASE Register(x)
  BY <1>j, <1>22 DEF Register
<1>l. ASSUME w # <<>>, w' = Tail(w), UNCHANGED <<faulty, phase, since, n, g, h, q, m>>,
             ~ faulty => phase[p] # "open" /\ (phase[p] # "gone" => ~ registered[p])
      PROVE  OnTheWay(e)' /\ NoGap(e)'
  <2>1. InOrder(g, h, q, m, Tail(w), n)
    BY <1>l, <1>y, LoseMessage
  <2>2. OnTheWay(e)'
    BY <1>l, <1>m, <2>1
  <2>3. ASSUME ~ faulty, phase[p] # "gone"
        PROVE  NoHole(Arriving(e)', n) /\ Consecutive(g)
    <3>1. NoHole(Moving(g, h, q, m, w), n) /\ Consecutive(g)
      BY <1>c, <2>3
    <3>2. ToSet(g) = {} /\ ToSet(h) = {} /\ BytesOf(q) = {} /\ BytesOf(m) = {}
      BY <1>0, <1>l, <2>3, Nothing DEF Lifecycle
    <3>3. NoHole(Moving(g, h, q, m, Tail(w)), n)
      BY <1>l, <1>y, <3>1, <3>2, LoseMessage
    <3>4. QED
      BY <1>l, <1>m, <3>1, <3>3
  <2>4. NoGap(e)'
    BY <1>l, <2>3 DEF NoGap, NoHole, Consecutive
  <2>5. QED
    BY <2>2, <2>4
<1>23. CASE Forward(x)
  <2>0. UNCHANGED <<faulty, phase, since, n, g, h, q>>
    BY <1>23 DEF Forward
  <2>1. CASE x = p
    <3>1. w' = w /\ m' = m
      BY <1>0, <1>t, <1>23, <2>1 DEF Forward
    <3>2. QED
      BY <1>j, <2>0, <3>1
  <2>2. CASE x = e /\ registered[p] /\ alive[p]
    <3>1. w # <<>> /\ w' = Tail(w) /\ m' = Append(m, Head(w))
      BY <1>0, <1>t, <1>23, <2>2 DEF Forward
    <3>2. QED
      BY <1>c, <1>k, <1>y, <2>0, <3>1, DeliverMessage
  <2>3. CASE x = e /\ ~ (registered[p] /\ alive[p])
    <3>1. w # <<>> /\ w' = Tail(w) /\ m' = m
      BY <1>0, <1>t, <1>23, <2>3 DEF Forward
    <3>2. ~ faulty => phase[p] # "open" /\ (phase[p] # "gone" => ~ registered[p])
      BY <1>0, <2>3 DEF Lifecycle
    <3>3. QED
      BY <1>l, <2>0, <3>1, <3>2
  <2>4. QED
    BY <1>0, <2>1, <2>2, <2>3
<1>24. CASE Lose(x)
  <2>1. CASE x = p
    BY <1>0, <1>j, <1>t, <1>24, <2>1 DEF Lose
  <2>2. CASE x = e
    BY <1>0, <1>l, <1>t, <1>24, <2>2 DEF Lose
  <2>3. QED
    BY <1>0, <2>1, <2>2
<1>25. CASE ClientStops(x)
  BY <1>j, <1>25 DEF ClientStops
<1>26. QED
  BY <1>1, <1>2, <1>3, <1>4, <1>5, <1>6, <1>7, <1>8, <1>9, <1>10, <1>11, <1>12, <1>13, <1>14,
     <1>15, <1>16, <1>17, <1>18, <1>19, <1>20, <1>21, <1>22, <1>23, <1>24, <1>25
     DEF Step, Connect, Writer, WriterTask, ReaderTask, Poll, CallOf, Environment

(* Every step keeps the invariant. *)
LEMMA NextInv == Inv /\ [Next]_vars => Inv'
<1>1. ASSUME Inv, UNCHANGED vars PROVE Inv'
  <2> USE DEF vars, caller, channel, tasks, broker, history
  <2>1. TypeOK'
    BY <1>1 DEF Inv, TypeOK
  <2>2. ASSUME NEW e \in End
        PROVE  (Lifecycle(e) /\ Sender(e) /\ Answers(e) /\ OnTheWay(e) /\ NoGap(e))'
    <3>1. Lifecycle(e) /\ Sender(e) /\ Answers(e) /\ OnTheWay(e) /\ NoGap(e)
      BY <1>1 DEF Inv
    <3>2. Lifecycle(e)'
      BY <1>1, <3>1 DEF Lifecycle
    <3>3. Sender(e)'
      BY <1>1, <3>1 DEF Sender, Unpublished, BytesOf
    <3>4. Answers(e)'
      BY <1>1, <3>1 DEF Answers, Unanswered, Broken
    <3>5. OnTheWay(e)'
      BY <1>1, <3>1 DEF OnTheWay, InOrder, Moving, BytesOf, Sorted
    <3>6. NoGap(e)'
      BY <1>1, <3>1 DEF NoGap, NoHole, Consecutive, Arriving, BytesOf
    <3>7. QED
      BY <3>2, <3>3, <3>4, <3>5, <3>6
  <2>3. QED
    BY <2>1, <2>2 DEF Inv
<1>2. ASSUME Inv, NEW x \in End, Step(x) PROVE Inv'
  BY <1>2, TypeStep, LifecycleStep, SenderStep, AnswersStep, OnTheWayStep DEF Inv
<1>3. QED
  BY <1>1, <1>2 DEF Next, Step, Over

(* The invariant holds of every behaviour. *)
LEMMA SpecInv == Spec => []Inv
  BY InitInv, NextInv, PTL DEF Spec

(* The counters are numbers. *)
LEMMA Counters ==
    Inv => /\ published \in [End -> Nat] /\ written \in [End -> Nat] /\ since \in [End -> Nat]
  BY DuplexAssumption DEF Inv, TypeOK

-----------------------------------------------------------------------------
(* The theorems.                                                           *)

(* Every variable holds what it may, whatever the network does, and nobody *)
(* waits on a channel that is gone.                                        *)
THEOREM TypeCorrect == Spec => []TypeOK
<1>1. Inv => TypeOK
  BY DEF Inv
<1>2. QED
  BY <1>1, SpecInv, PTL

(* poll_read reports the end of the stream only when everything delivered  *)
(* to the subscription has been read.                                      *)
THEOREM EndComesLast == Spec => []EndAfterDelivered
<1>1. Inv => EndAfterDelivered
  BY DEF Inv, Lifecycle, EndAfterDelivered
<1>2. QED
  BY <1>1, SpecInv, PTL

(* A flush or a shutdown that succeeds has seen every byte accepted from   *)
(* the caller taken by the NATS client (poll_pending_publishes).           *)
THEOREM FlushedIsPublished == Spec => []FlushMeansPublished
<1>1. Inv => FlushMeansPublished
  <2> SUFFICES ASSUME Inv, NEW e \in End, last[e] \in {"flushed", "shutdown"}
               PROVE  published[e] = written[e]
    BY DEF FlushMeansPublished
  <2>1. /\ Lifecycle(e) /\ Sender(e) /\ Answers(e)
        /\ writer[e] \in {"none", "running", "failed", "leaving", "ended"}
        /\ published[e] \in Nat /\ written[e] \in Nat /\ outbound[e] \in Seq(Chunk)
    BY Counters DEF Inv, TypeOK
  <2>2. phase[e] = "open" /\ pendingPublishes[e] = <<>> /\ writer[e] # "none"
    BY <2>1 DEF Answers, Lifecycle
  <2>3. ~ Broken(e)
    BY <2>2 DEF Broken
  <2>4. CASE writer[e] = "running"
    <3>1. Unanswered(e) <= 0 /\ Len(outbound[e]) \in Nat
      <4>1. Unanswered(e) <= Len(pendingPublishes[e]) /\ Len(pendingPublishes[e]) = 0
        BY <2>1, <2>2 DEF Answers
      <4>2. QED
        BY <2>1, <4>1
    <3>2. publishing[e] = <<>> /\ Len(outbound[e]) = 0
      <4>1. CASE publishing[e] = <<>>
        BY <3>1, <4>1 DEF Unanswered
      <4>2. CASE publishing[e] # <<>>
        BY <3>1, <4>2 DEF Unanswered
      <4>3. QED
        BY <4>1, <4>2
    <3>3. outbound[e] = <<>>
      BY <2>1, <3>2
    <3>4. Unpublished(e) = {}
      BY <3>2, <3>3, Nothing DEF Unpublished
    <3>5. (published[e] + 1)..written[e] = {} /\ published[e] <= written[e]
      BY <2>1, <2>4, <3>4 DEF Sender
    <3>6. CASE published[e] < written[e]
      <4>1. written[e] \in (published[e] + 1)..written[e]
        BY <2>1, <3>6
      <4>2. QED
        BY <3>5, <4>1
    <3>7. QED
      BY <2>1, <3>5, <3>6
  <2>5. QED
    BY <2>1, <2>2, <2>3, <2>4 DEF Answers
<1>2. QED
  BY <1>1, SpecInv, PTL

(* Over a healthy network an endpoint misses nothing written after its     *)
(* connect returned, because connect flushes the subscription first.       *)
THEOREM NothingMissed == Spec => []OpenEndMissesNothing
<1>1. Inv => OpenEndMissesNothing
  <2> SUFFICES ASSUME Inv, ~ faulty, NEW e \in End, phase[e] = "open", phase[Peer(e)] = "open",
                      NEW b \in (since[Peer(e)] + 1)..written[e]
               PROVE  b \in Arriving(e) \cup Unpublished(e)
    BY DEF OpenEndMissesNothing
  <2>1. /\ Lifecycle(e) /\ Sender(e) /\ NoGap(e) /\ Peer(e) \in End
        /\ published[e] \in Nat /\ written[e] \in Nat
    BY PeerFacts, Counters DEF Inv
  <2>2. since[Peer(e)] \in Nat
    BY <2>1, Counters
  <2>3. CASE b <= published[e]
    <3>1. (since[Peer(e)] + 1)..published[e] \subseteq Arriving(e)
      BY <2>1 DEF NoGap
    <3>2. QED
      BY <2>1, <2>2, <2>3, <3>1
  <2>4. CASE b > published[e]
    <3>1. Unpublished(e) = (published[e] + 1)..written[e]
      BY <2>1 DEF Sender, Lifecycle
    <3>2. QED
      BY <2>1, <2>2, <2>4, <3>1
  <2>5. QED
    BY <2>1, <2>2, <2>3, <2>4
<1>2. QED
  BY <1>1, SpecInv, PTL

(* Once a call has been refused, or the channel shut down, no later write  *)
(* is accepted: the flag is set, or the writer has left its queue.         *)
THEOREM RefusalIsFinal == Spec => NoWriteAfterFailure
<1>1. Inv /\ [Next]_vars => [\A e \in End : refused[e] => written'[e] = written[e]]_vars
  <2> SUFFICES ASSUME Inv, Next, NEW e \in End, refused[e] PROVE written'[e] = written[e]
    OBVIOUS
  <2>1. CASE UNCHANGED written
    BY <2>1
  <2>2. ASSUME NEW x \in End, NEW n \in 1..MaxChunk, Write(x, n) PROVE written'[e] = written[e]
    <3>1. closed[e] \/ writer[e] = "ended"
      BY DEF Inv, Lifecycle
    <3>2. CASE e # x
      <4>1. written' = written \/ written' = [written EXCEPT ![x] = written[x] + n]
        BY <2>2 DEF Write
      <4>2. QED
        BY <3>2, <4>1 DEF Inv, TypeOK
    <3>3. CASE e = x
      BY <2>2, <3>1, <3>3 DEF Write
    <3>4. QED
      BY <3>2, <3>3
  <2>3. ASSUME NEW x \in End, Step(x), \A n \in 1..MaxChunk : ~ Write(x, n)
        PROVE  UNCHANGED written
    <3> USE DEF history
    <3>1. CASE Connect(x) \/ Writer(x) \/ ReaderTask(x)
      BY <3>1 DEF Connect, Subscribe, Connected, Spawn, ConnectFails,
         Writer, WriterTask, WriterTakes, PublishSucceeds, PublishFails, WriterCloses, WriterEnds,
         AbortWriter, WriterDies, ReaderTask, ReaderForwards, ReaderEnds, AbortReader
    <3>2. CASE Poll(x) \/ CallOf(x) \/ Environment(x)
      BY <2>3, <3>2 DEF Poll, PollPendingPublishes, Flushed, ShutDown,
         CallOf, Read, Flush, Abandon, Drop, Environment, Register, Forward, Lose, ClientStops
    <3>3. QED
      BY <2>3, <3>1, <3>2 DEF Step
  <2>4. CASE Over
    BY <2>1, <2>4 DEF Over, vars, history
  <2>5. QED
    BY <2>1, <2>2, <2>3, <2>4 DEF Next, Step
<1>2. QED
  BY <1>1, SpecInv, PTL DEF Spec, NoWriteAfterFailure

(* What a read hands to the caller is a step of the stream of its peer. *)
LEMMA ReadRefines ==
    ASSUME Inv, Inv', NEW x \in End, NEW n \in 1..MaxChunk, Read(x, n)
    PROVE  [Stream!Next]_(Stream!streams)
<1> USE DEF Stream!streams
<1> DEFINE d == Peer(x)
           received == [e \in End |-> got[Peer(e)]]
<1>0. /\ d \in End /\ d # x /\ Peer(d) = x /\ \A f \in End : f = x \/ f = d
      /\ UNCHANGED <<faulty, written, published, phase>> /\ phase[x] = "open"
  BY PeerFacts DEF Read, broker
<1>t. /\ got \in [End -> Seq(Bytes)] /\ got' \in [End -> Seq(Bytes)]
      /\ published[d] \in Nat /\ written[d] \in Nat
      /\ inboundBuf \in [End -> Seq(Bytes)] /\ inbound \in [End -> Seq(Chunk)]
  <2>1. got \in [End -> Seq(Bytes)] /\ got' \in [End -> Seq(Bytes)]
    BY DEF Inv, TypeOK
  <2>2. inboundBuf \in [End -> Seq(Bytes)] /\ inbound \in [End -> Seq(Chunk)]
    BY DEF Inv, TypeOK
  <2>3. published[d] \in Nat /\ written[d] \in Nat
    BY <1>0, Counters
  <2>4. QED
    BY <2>1, <2>2, <2>3
<1>1. CASE UNCHANGED got
  BY <1>0, <1>1
<1>2. ASSUME NEW c \in Seq(Bytes), Fill(x, n, c) PROVE Stream!Read(d)
  <2> DEFINE g == got[x]
             a == SubSeq(c, 1, IF n < Len(c) THEN n ELSE Len(c))
  <2>1. /\ got' = [got EXCEPT ![x] = g \o a] /\ got'[x] = g \o a
        /\ g \in Seq(Bytes) /\ g \o a \in Seq(Bytes)
    BY <1>t, <1>2 DEF Fill
  <2>2. Stream!IsPrefix(g, got'[x])
    <3>1. a \in Seq(Bytes)
      <4>1. n \in Nat /\ Len(c) \in Nat
        BY DuplexAssumption
      <4>2. (IF n < Len(c) THEN n ELSE Len(c)) \in 0..Len(c)
        BY <4>1
      <4>3. QED
        BY <4>2
    <3> HIDE DEF a, g
    <3>2. Len(g) <= Len(g \o a) /\ SubSeq(g \o a, 1, Len(g)) = SubSeq(g, 1, Len(g))
      BY <2>1, <3>1
    <3>3. QED
      BY <2>1, <3>2 DEF Stream!IsPrefix
  <2> HIDE DEF a, g
  <2>3. /\ DOMAIN got'[x] = 1..Len(got'[x]) /\ Len(got'[x]) \in Nat
    BY <1>t
  <2>4. Arriving(d)' \subseteq 1..published[d] /\ Increasing(got'[x])
    BY <1>0 DEF Inv, OnTheWay, InOrder, Arriving, Moving
  <2>5. ToSet(got'[x]) \subseteq Arriving(d)'
    BY <1>0 DEF Arriving
  <2>6. published[d] <= written[d]
    BY <1>0 DEF Inv, Sender
  <2>7. \A i \in DOMAIN got'[x] : got'[x][i] \in 1..written[d]
    <3>1. \A i \in DOMAIN got'[x] : got'[x][i] \in 1..published[d]
      BY <2>4, <2>5 DEF ToSet
    <3>2. QED
      BY <1>t, <2>6, <3>1
  <2>8. \A i \in DOMAIN got'[x] : got'[x][i] \in Int
    BY <2>7
  <2>9. ASSUME NEW i \in 1..(Len(got'[x]) - 1)
        PROVE  Stream!Follows(got'[x][i], got'[x][i + 1])
    <3>1. i \in DOMAIN got'[x] /\ i + 1 \in DOMAIN got'[x] /\ i < i + 1 /\ 1 \in DOMAIN got'[x]
      BY <2>3
    <3>2. got'[x][i + 1] > got'[x][i]
      BY <2>4, <2>8, <3>1 DEF Increasing
    <3>3. ASSUME ~ faulty PROVE got'[x][i + 1] = got'[x][i] + 1
      <4>1. Consecutive(got'[x])
        BY <1>0, <3>3 DEF Inv, NoGap, Consecutive
      <4>2. got'[x][i] = got'[x][1] + i - 1 /\ got'[x][i + 1] = got'[x][1] + (i + 1) - 1
        BY <3>1, <4>1 DEF Consecutive
      <4>3. QED
        BY <2>8, <3>1, <4>2
    <3>4. QED
      BY <3>2, <3>3 DEF Stream!Follows
  <2>10. received[d] = g /\ received'[d] = got'[x]
    BY <1>0, <1>t DEF g
  <2>11. received' = [received EXCEPT ![d] = received'[d]]
    <3>1. \A f \in End : received'[f] = [received EXCEPT ![d] = received'[d]][f]
      BY <1>0, <1>t, <2>1
    <3>2. QED
      BY <3>1
  <2> HIDE DEF d, received
  <2>12. /\ Stream!IsPrefix(received[d], received'[d])
         /\ \A i \in DOMAIN received'[d] : received'[d][i] \in 1..written[d]
         /\ \A i \in 1..(Len(received'[d]) - 1) :
               Stream!Follows(received'[d][i], received'[d][i + 1])
         /\ UNCHANGED <<faulty, written>>
    BY <1>0, <2>2, <2>7, <2>9, <2>10
  <2>13. QED
    BY <2>11, <2>12 DEF Stream!Read, received
<1>3. CASE inboundBuf[x] # <<>> /\ Fill(x, n, inboundBuf[x])
  <2>1. Stream!Read(d)
    BY <1>2, <1>3, <1>t
  <2>2. QED
    BY <1>0, <2>1 DEF Stream!Next
<1>4. CASE inbound[x] # <<>> /\ Fill(x, n, Head(inbound[x]))
  <2>1. inbound[x] \in Seq(Chunk)
    BY <1>t
  <2>2. Head(inbound[x]) \in Seq(Bytes)
    BY <1>4, <2>1, TakeChunk, ChunkFacts
  <2>3. Stream!Read(d)
    BY <1>2, <1>4, <2>2
  <2>4. QED
    BY <1>0, <2>3 DEF Stream!Next
<1>5. QED
  BY <1>1, <1>3, <1>4 DEF Read

(* The two queues, the tasks, the clients and the server implement a byte  *)
(* stream in each direction: what a caller reads is what the other wrote,  *)
(* in order, and without a gap over a healthy network.                     *)
THEOREM DuplexImplementsByteStream == Spec => ImplementsByteStream
<1>1. Init => Stream!Init
  <2> SUFFICES ASSUME Init PROVE Stream!Init
    OBVIOUS
  <2>1. [e \in End |-> got[Peer(e)]] = [e \in End |-> <<>>]
    BY PeerFacts DEF Init, Everywhere
  <2>2. QED
    BY <2>1 DEF Stream!Init, Init, Everywhere
<1>2. Inv /\ Inv' /\ [Next]_vars => [Stream!Next]_(Stream!streams)
  <2> SUFFICES ASSUME Inv, Inv', [Next]_vars PROVE [Stream!Next]_(Stream!streams)
    OBVIOUS
  <2> USE DEF Stream!streams
  <2>1. CASE UNCHANGED <<faulty, written, got>>
    BY <2>1
  <2>2. ASSUME NEW x \in End, NEW n \in 1..MaxChunk, Read(x, n)
        PROVE  [Stream!Next]_(Stream!streams)
    BY <2>2, ReadRefines
  <2>3. ASSUME NEW x \in End, NEW n \in 1..MaxChunk, Write(x, n)
        PROVE  [Stream!Next]_(Stream!streams)
    <3>1. UNCHANGED <<faulty, got>>
      BY <2>3 DEF Write, broker
    <3>2. CASE UNCHANGED written
      BY <2>1, <3>1, <3>2
    <3>3. CASE written' = [written EXCEPT ![x] = written[x] + n]
      <4>1. n \in Nat \ {0} /\ written \in [End -> Nat]
        BY DuplexAssumption DEF Inv, TypeOK
      <4>2. written'[x] = written[x] + n /\ written'[x] > written[x]
        BY <3>3, <4>1
      <4>3. Stream!Write(x)
        BY <3>1, <3>3, <4>2 DEF Stream!Write
      <4>4. QED
        BY <4>3 DEF Stream!Next
    <3>4. QED
      BY <2>3, <3>2, <3>3 DEF Write
  <2>4. ASSUME NEW x \in End, Step(x), \A n \in 1..MaxChunk : ~ Write(x, n) /\ ~ Read(x, n)
        PROVE  UNCHANGED <<faulty, written, got>>
    <3> USE DEF history, broker
    <3>1. CASE Connect(x) \/ Writer(x) \/ ReaderTask(x)
      BY <3>1 DEF Connect, Subscribe, Connected, Spawn, ConnectFails,
         Writer, WriterTask, WriterTakes, PublishSucceeds, PublishFails, WriterCloses, WriterEnds,
         AbortWriter, WriterDies, ReaderTask, ReaderForwards, ReaderEnds, AbortReader
    <3>2. CASE Poll(x) \/ CallOf(x) \/ Environment(x)
      BY <2>4, <3>2 DEF Poll, PollPendingPublishes, Flushed, ShutDown,
         CallOf, Flush, Abandon, Drop, Environment, Register, Forward, Lose, ClientStops
    <3>3. QED
      BY <2>4, <3>1, <3>2 DEF Step
  <2>5. CASE UNCHANGED vars
    BY <2>1, <2>5 DEF vars, history, broker
  <2>6. QED
    BY <2>1, <2>2, <2>3, <2>4, <2>5 DEF Next, Step, Over
<1>3. QED
  BY <1>1, <1>2, SpecInv, PTL DEF Spec, ImplementsByteStream, Stream!Spec
=============================================================================
