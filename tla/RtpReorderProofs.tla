---------------------------- MODULE RtpReorderProofs ----------------------------
(***************************************************************************)
(* Proofs about RtpReorder, for any number of packets, any first sequence  *)
(* number, any number space and queue, and any losses, duplicates and      *)
(* reordering: the queue is sorted and does not fill up, and new packets   *)
(* are parsed in the order they were sent.                                 *)
(*                                                                         *)
(* Signed differences order packets only while they are less than half the *)
(* space of sequence numbers apart.  The network does not reorder more     *)
(* than that (Window); that it does not lose or delay more is the          *)
(* condition HalfSpace of the theorems.                                    *)
(***************************************************************************)
EXTENDS RtpReorder, SequenceTheorems, WellFoundedInduction, TLAPS

\* What is parsed last or still queued is less than half the space of sequence
\* numbers behind the sender: fewer than 32768 packets are sent while one waits in
\* the queue, which max_delay bounds, or while all packets are lost.
HalfSpace ==
  /\ \A k \in DOMAIN queue : sent - queue[k] < M \div 2
  /\ last # 0 => sent - last < M \div 2

TypeOK ==
  /\ sent \in 0 .. Count /\ flight \subseteq 1 .. sent
  /\ queue \in Seq(1 .. Count) /\ \A k \in DOMAIN queue : queue[k] <= sent
  /\ last \in 0 .. sent /\ parsed \subseteq 1 .. sent

\* A packet in flight is overtaken by less than Window later ones.
InvFlight == \A i \in flight : sent - i < Window

\* The receiver's sequence number is that of the packet parsed last.  (A queued
\* duplicate can take it back to an earlier packet.)
InvLast ==
  IF last = 0 THEN seq = 0 /\ queue = <<>> ELSE seq = Seq16(last) /\ last \in parsed

\* From a packet q on, nothing has been skipped: whatever lies between q and a packet
\* that was parsed has been parsed too.
ParsedFrom(q) == \A j \in parsed : q .. j \subseteq parsed

\* What was skipped is never parsed later: it is behind all that is queued, and
\* behind the packet parsed last.
InvGaps ==
  /\ last # 0 => ParsedFrom(last)
  /\ \A k \in DOMAIN queue : ParsedFrom(queue[k])

Inductive == TypeOK /\ InvFlight /\ InvLast /\ InvGaps /\ QueueInOrder

-------------------------------------------------------------------------------
(***************************************************************************)
(* Sequence numbers                                                        *)
(***************************************************************************)
LEMMA Constants ==
  /\ M \in Nat /\ M >= 1 /\ First \in Nat /\ Window \in Nat /\ Window >= 1
  /\ M \div 2 \in Nat /\ Window < M \div 2 /\ 2 * (M \div 2) <= M
  /\ QueueSize \in Nat /\ Count \in Nat
<1>1. M \in Nat /\ M >= 1 /\ First \in Nat /\ QueueSize \in Nat /\ Count \in Nat
  BY RtpReorderAssumption
<1>2. M \div 2 \in Nat /\ 2 * (M \div 2) <= M
  BY <1>1
<1> QED
  BY <1>1, <1>2, RtpReorderAssumption

\* No multiple of B but 0 is nearer to 0 than B.
LEMMA Multiple ==
  ASSUME NEW B \in Nat, B > 0, NEW k \in Int, B * k < B, -B < B * k
  PROVE k = 0
<1>1. CASE k >= 1
  <2>1. B * k >= B
    BY <1>1
  <2> QED
    BY <2>1
<1>2. CASE k <= -1
  <2>1. B * k <= -B
    BY <1>2
  <2> QED
    BY <2>1
<1> QED
  BY <1>1, <1>2

\* The remainder of a number that is k multiples away from r.
LEMMA ModIs ==
  ASSUME NEW B \in Nat, B > 0, NEW a \in Int, NEW k \in Int, NEW r \in 0 .. (B-1),
         a = B * k + r
  PROVE a % B = r
<1> DEFINE p == a \div B
           s == a % B
<1>1. p \in Int /\ s \in 0 .. (B-1) /\ a = B * p + s
  OBVIOUS
<1> HIDE DEF p, s
<1>2. B * (p - k) = r - s
  <2>1. B * p - B * k = r - s
    BY <1>1
  <2>2. B * (p - k) = B * p - B * k
    BY <1>1
  <2> QED
    BY <2>1, <2>2
<1>3. p - k = 0
  BY <1>1, <1>2, Multiple
<1> QED
  BY <1>1, <1>2, <1>3 DEF s

\* The signed difference of the sequence numbers of two packets that are less than
\* half the space apart is the difference of their places in the stream, also when
\* the numbers wrap between them.
LEMMA DiffIsDistance ==
  ASSUME NEW i \in Nat, NEW j \in Nat, i - j < M \div 2, j - i < M \div 2
  PROVE  Diff(Seq16(i), Seq16(j)) = i - j
<1> DEFINE p == (First + i) \div M
           q == (First + j) \div M
           a == Seq16(i) - Seq16(j)
<1>1. M \in Nat /\ M > 0 /\ First \in Nat /\ 2 * (M \div 2) <= M /\ M \div 2 \in Nat
  BY Constants
<1>2. p \in Int /\ First + i = M * p + Seq16(i) /\ Seq16(i) \in 0 .. (M - 1)
  BY <1>1 DEF Seq16
<1>3. q \in Int /\ First + j = M * q + Seq16(j) /\ Seq16(j) \in 0 .. (M - 1)
  BY <1>1 DEF Seq16
<1> HIDE DEF p, q
<1>4. M * (q - p) = M * q - M * p /\ M * (q - p - 1) = M * q - M * p - M
  BY <1>1, <1>2, <1>3
<1>5. a \in Int /\ a = M * (q - p) + (i - j) /\ a = M * (q - p - 1) + (i - j + M)
  BY <1>1, <1>2, <1>3, <1>4
<1> HIDE DEF a
<1>6. CASE i >= j
  <2>1. i - j \in 0 .. (M - 1) /\ q - p \in Int /\ 2 * (i - j) < M
    BY <1>1, <1>2, <1>3, <1>6
  <2>2. a % M = i - j
    BY <2>1, <1>1, <1>5, ModIs
  <2> QED
    BY <2>1, <2>2, <1>1 DEF Diff, a
<1>7. CASE i < j
  <2>1. i - j + M \in 0 .. (M - 1) /\ q - p - 1 \in Int /\ 2 * (i - j + M) >= M
    BY <1>1, <1>2, <1>3, <1>7
  <2>2. a % M = i - j + M
    BY <2>1, <1>1, <1>5, ModIs
  <2> QED
    BY <2>1, <2>2, <1>1 DEF Diff, a
<1> QED
  BY <1>6, <1>7

-------------------------------------------------------------------------------
(***************************************************************************)
(* The queue                                                               *)
(***************************************************************************)
LEMMA InsertAtProperties ==
  ASSUME NEW S, NEW q \in Seq(S), NEW e \in S, NEW p \in 1 .. (Len(q) + 1)
  PROVE  /\ InsertAt(q, p, e) \in Seq(S)
         /\ Len(InsertAt(q, p, e)) = Len(q) + 1
         /\ \A k \in 1 .. (Len(q) + 1) :
              /\ k < p => InsertAt(q, p, e)[k] = q[k]
              /\ k = p => InsertAt(q, p, e)[k] = e
              /\ k > p => InsertAt(q, p, e)[k] = q[k - 1]
<1> DEFINE a == SubSeq(q, 1, p - 1)
           b == SubSeq(q, p, Len(q))
<1>0. Len(q) \in Nat /\ \A k \in 1 .. Len(q) : q[k] \in S
  BY LenProperties, ElementOfSeq
<1>1. /\ a \in Seq(S) /\ Len(a) = p - 1
      /\ \A k \in 1 .. (p - 1) : a[k] = q[k]
  <2>1. \A k \in 1 .. (p - 1) : q[k] \in S
    BY <1>0
  <2>2. /\ a \in Seq(S) /\ Len(a) = IF 1 <= p - 1 THEN p - 1 - 1 + 1 ELSE 0
        /\ \A k \in 1 .. (p - 1 - 1 + 1) : a[k] = q[1 + k - 1]
    BY <2>1, <1>0, SubSeqProperties
  <2> QED
    BY <2>2, <1>0
<1>2. /\ b \in Seq(S) /\ Len(b) = Len(q) - p + 1
      /\ \A k \in 1 .. (Len(q) - p + 1) : b[k] = q[p + k - 1]
  <2>1. \A k \in p .. Len(q) : q[k] \in S
    BY <1>0
  <2>2. /\ b \in Seq(S) /\ Len(b) = IF p <= Len(q) THEN Len(q) - p + 1 ELSE 0
        /\ \A k \in 1 .. (Len(q) - p + 1) : b[k] = q[p + k - 1]
    BY <2>1, <1>0, SubSeqProperties
  <2> QED
    BY <2>2, <1>0
<1> HIDE DEF a, b
<1>3. <<e>> \in Seq(S) /\ Len(<<e>>) = 1 /\ <<e>>[1] = e
  OBVIOUS
<1>4. /\ a \o <<e>> \in Seq(S) /\ Len(a \o <<e>>) = p
      /\ \A k \in 1 .. p : (a \o <<e>>)[k] = IF k < p THEN q[k] ELSE e
  <2>1. /\ a \o <<e>> \in Seq(S) /\ Len(a \o <<e>>) = Len(a) + Len(<<e>>)
        /\ \A k \in 1 .. (Len(a) + Len(<<e>>)) :
             (a \o <<e>>)[k] = IF k <= Len(a) THEN a[k] ELSE <<e>>[k - Len(a)]
    BY <1>1, <1>3, ConcatProperties
  <2>2. ASSUME NEW k \in 1 .. p PROVE (a \o <<e>>)[k] = IF k < p THEN q[k] ELSE e
    <3>1. CASE k < p
      BY <2>1, <1>1, <1>3, <3>1, <1>0
    <3>2. CASE k = p
      <4>1. k - Len(a) = 1 /\ k \in 1 .. (Len(a) + Len(<<e>>)) /\ ~(k <= Len(a))
        BY <1>1, <1>3, <3>2, <1>0
      <4> QED
        BY <4>1, <2>1, <1>3, <3>2
    <3>3. k < p \/ k = p
      BY <1>0
    <3> QED
      BY <3>1, <3>2, <3>3
  <2> QED
    BY <2>1, <2>2, <1>1, <1>3, <1>0
<1> DEFINE c == a \o <<e>>
<1>5. c \in Seq(S) /\ Len(c) = p /\ \A k \in 1 .. p : c[k] = IF k < p THEN q[k] ELSE e
  BY <1>4
<1> HIDE DEF c
<1>6. /\ c \o b \in Seq(S) /\ Len(c \o b) = Len(q) + 1
      /\ \A k \in 1 .. (Len(q) + 1) : (c \o b)[k] = IF k <= p THEN c[k] ELSE b[k - p]
  <2>1. /\ c \o b \in Seq(S) /\ Len(c \o b) = Len(c) + Len(b)
        /\ \A k \in 1 .. (Len(c) + Len(b)) :
             (c \o b)[k] = IF k <= Len(c) THEN c[k] ELSE b[k - Len(c)]
    BY <1>2, <1>5, ConcatProperties
  <2> QED
    BY <2>1, <1>2, <1>5, <1>0
<1>7. InsertAt(q, p, e) = c \o b
  BY DEF InsertAt, a, b, c
<1>8. ASSUME NEW k \in 1 .. (Len(q) + 1)
      PROVE  /\ k < p => (c \o b)[k] = q[k]
             /\ k = p => (c \o b)[k] = e
             /\ k > p => (c \o b)[k] = q[k - 1]
  <2>1. CASE k <= p
    BY <2>1, <1>6, <1>5, <1>0
  <2>2. CASE k > p
    <3>1. k - p \in 1 .. (Len(q) - p + 1) /\ p + (k - p) - 1 = k - 1
      BY <2>2, <1>0
    <3> QED
      BY <3>1, <2>2, <1>6, <1>2, <1>0
  <2>3. k <= p \/ k > p
    BY <1>0
  <2> QED
    BY <2>1, <2>2, <2>3
<1> QED
  BY <1>6, <1>7, <1>8

LEMMA MinProperties ==
  ASSUME NEW T \in SUBSET Nat, T # {}
  PROVE  Min(T) \in T /\ \A y \in T : Min(T) <= y
<1> DEFINE R == OpToRel(<, Nat)
<1>1. \A x, y \in Nat : <<y, x>> \in R <=> y < x
  BY DEF OpToRel
<1>2. IsWellFoundedOn(R, Nat)
  BY NatLessThanWellFounded
<1> HIDE DEF R
<1>3. \E x \in T : \A y \in T : ~ (<<y, x>> \in R)
  BY <1>2, WFMin
<1>4. \E x \in T : \A y \in T : x <= y
  <2>1. PICK x \in T : \A y \in T : ~ (<<y, x>> \in R)
    BY <1>3
  <2>2. ASSUME NEW y \in T PROVE x <= y
    <3>1. x \in Nat /\ y \in Nat
      OBVIOUS
    <3>2. ~(y < x)
      BY <2>1, <3>1, <1>1
    <3> QED
      BY <3>1, <3>2
  <2> QED
    BY <2>2
<1> QED
  BY <1>4 DEF Min

Sorted(q) == \A j, k \in DOMAIN q : j < k => q[j] <= q[k]

\* What the state says of the queue and of a packet that arrives.
LEMMA Facts ==
  ASSUME TypeOK
  PROVE  /\ sent \in Nat /\ last \in Nat /\ last <= sent /\ sent <= Count
         /\ queue \in Seq(1 .. Count) /\ Len(queue) \in Nat /\ DOMAIN queue = 1 .. Len(queue)
         /\ \A k \in DOMAIN queue : queue[k] \in 1 .. sent
         /\ \A i \in flight \cup parsed : i \in 1 .. sent /\ i \in 1 .. Count
<1>1. queue \in Seq(1 .. Count) /\ Len(queue) \in Nat /\ DOMAIN queue = 1 .. Len(queue)
  BY LenProperties DEF TypeOK
<1>2. sent \in Nat /\ last \in Nat /\ last <= sent /\ sent <= Count
  BY Constants DEF TypeOK
<1>3. \A k \in DOMAIN queue : queue[k] \in 1 .. Count
  BY <1>1, ElementOfSeq
<1>4. \A k \in DOMAIN queue : queue[k] \in 1 .. sent
  BY <1>2, <1>3, Constants DEF TypeOK
<1>5. \A i \in flight \cup parsed : i \in 1 .. sent /\ i \in 1 .. Count
  BY <1>2, Constants DEF TypeOK
<1> QED
  BY <1>1, <1>2, <1>4, <1>5

\* A packet from the network and one that is queued, or parsed last, are compared by
\* their places in the stream.
LEMMA Nearby ==
  ASSUME TypeOK, InvFlight, HalfSpace, NEW i \in flight
  PROVE  /\ \A k \in DOMAIN queue : Diff(Seq16(i), Seq16(queue[k])) = i - queue[k]
         /\ last # 0 => Diff(Seq16(i), Seq16(last)) = i - last
<1>1. ASSUME NEW j \in 1 .. sent, sent - j < M \div 2
      PROVE  Diff(Seq16(i), Seq16(j)) = i - j
  <2>1. i \in 1 .. sent /\ sent - i < Window /\ sent \in Nat
    BY Facts DEF InvFlight
  <2>2. i - j < M \div 2 /\ j - i < M \div 2 /\ i \in Nat /\ j \in Nat
    BY <1>1, <2>1, Constants
  <2> QED
    BY <2>2, DiffIsDistance
<1>2. \A k \in DOMAIN queue : queue[k] \in 1 .. sent /\ sent - queue[k] < M \div 2
  BY Facts DEF HalfSpace
<1>3. last # 0 => last \in 1 .. sent /\ sent - last < M \div 2
  BY Facts DEF HalfSpace
<1> QED
  BY <1>1, <1>2, <1>3

\* enqueue_packet() keeps the queue sorted.
LEMMA EnqueuedIsSorted ==
  ASSUME TypeOK, InvFlight, HalfSpace, Sorted(queue), NEW i \in flight
  PROVE  /\ Enqueued(i) \in Seq(1 .. Count)
         /\ Len(Enqueued(i)) = Len(queue) + 1
         /\ DOMAIN Enqueued(i) = 1 .. (Len(queue) + 1)
         /\ Sorted(Enqueued(i))
         /\ \A k \in DOMAIN Enqueued(i) :
              Enqueued(i)[k] = i \/ \E l \in DOMAIN queue : Enqueued(i)[k] = queue[l]
<1> DEFINE behind == {k \in DOMAIN queue : Diff(Seq16(i), Seq16(queue[k])) < 0}
           p == Min(behind \cup {Len(queue) + 1})
           r == InsertAt(queue, p, i)
<1>1. /\ queue \in Seq(1 .. Count) /\ Len(queue) \in Nat /\ DOMAIN queue = 1 .. Len(queue)
      /\ i \in 1 .. Count /\ i \in Nat /\ \A k \in 1 .. Len(queue) : queue[k] \in Nat
  BY Facts
<1>2. behind = {k \in 1 .. Len(queue) : i < queue[k]}
  <2>1. \A k \in 1 .. Len(queue) : Diff(Seq16(i), Seq16(queue[k])) = i - queue[k]
    BY <1>1, Nearby
  <2>2. \A k \in 1 .. Len(queue) : i - queue[k] < 0 <=> i < queue[k]
    BY <1>1
  <2> QED
    BY <1>1, <2>1, <2>2
<1>3. p \in behind \cup {Len(queue) + 1} /\ \A k \in behind \cup {Len(queue) + 1} : p <= k
  <2>1. behind \cup {Len(queue) + 1} \in SUBSET Nat /\ behind \cup {Len(queue) + 1} # {}
    BY <1>1
  <2> HIDE DEF behind
  <2> QED
    BY <2>1, MinProperties
<1>4. Enqueued(i) = r
  BY DEF Enqueued
<1> HIDE DEF behind, p
<1>5. p \in 1 .. (Len(queue) + 1)
  BY <1>1, <1>2, <1>3
<1>6. \A k \in 1 .. Len(queue) : k < p => queue[k] <= i
  <2> SUFFICES ASSUME NEW k \in 1 .. Len(queue), k < p, ~(queue[k] <= i) PROVE FALSE
    OBVIOUS
  <2>1. k \in behind
    BY <1>1, <1>2
  <2> QED
    BY <2>1, <1>3, <1>5, <1>1
<1>7. \A k \in 1 .. Len(queue) : p <= k => i <= queue[k]
  <2> SUFFICES ASSUME NEW k \in 1 .. Len(queue), p <= k PROVE i <= queue[k]
    OBVIOUS
  <2>1. p \in behind
    BY <1>1, <1>3, <1>5
  <2>2. p \in 1 .. Len(queue) /\ i < queue[p]
    BY <2>1, <1>2
  <2>3. p < k \/ p = k
    BY <2>2, <1>1
  <2>4. queue[p] <= queue[k]
    BY <2>2, <2>3, <1>1 DEF Sorted
  <2> QED
    BY <2>2, <2>4, <1>1
<1>8. /\ r \in Seq(1 .. Count) /\ Len(r) = Len(queue) + 1
      /\ \A k \in 1 .. (Len(queue) + 1) :
           /\ k < p => r[k] = queue[k]
           /\ k = p => r[k] = i
           /\ k > p => r[k] = queue[k - 1]
  <2> DEFINE S == 1 .. Count
  <2>1. queue \in Seq(S) /\ i \in S
    BY <1>1
  <2> HIDE DEF S
  <2>2. /\ r \in Seq(S) /\ Len(r) = Len(queue) + 1
        /\ \A k \in 1 .. (Len(queue) + 1) :
             /\ k < p => r[k] = queue[k]
             /\ k = p => r[k] = i
             /\ k > p => r[k] = queue[k - 1]
    BY <2>1, <1>5, InsertAtProperties
  <2> QED
    BY <2>2 DEF S
<1> HIDE DEF r
<1>9. DOMAIN r = 1 .. (Len(queue) + 1)
  BY <1>8, LenProperties
<1>10. \A k \in 1 .. (Len(queue) + 1) :
         /\ k < p => k \in 1 .. Len(queue) /\ r[k] = queue[k]
         /\ k = p => r[k] = i
         /\ k > p => k - 1 \in 1 .. Len(queue) /\ p <= k - 1 /\ r[k] = queue[k - 1]
  BY <1>1, <1>5, <1>8
<1>11. ASSUME NEW j \in 1 .. (Len(queue) + 1), NEW k \in 1 .. (Len(queue) + 1), j < k
       PROVE  r[j] <= r[k]
  <2>1. CASE k < p
    <3>1. j < p /\ r[j] = queue[j] /\ r[k] = queue[k]
      BY <1>5, <1>10, <1>11, <2>1, <1>1
    <3>2. j \in DOMAIN queue /\ k \in DOMAIN queue
      BY <3>1, <2>1, <1>10, <1>1
    <3> QED
      BY <3>1, <3>2, <1>11 DEF Sorted
  <2>2. CASE k = p
    <3>1. j < p
      BY <2>2, <1>11
    <3> QED
      BY <3>1, <2>2, <1>6, <1>10
  <2>3. CASE k > p
    <3>1. k - 1 \in 1 .. Len(queue) /\ p <= k - 1 /\ r[k] = queue[k - 1] /\ i <= queue[k - 1]
      BY <2>3, <1>7, <1>10
    <3>2. CASE j < p
      <4>1. j \in 1 .. Len(queue) /\ r[j] = queue[j] /\ queue[j] <= i
        BY <3>2, <1>6, <1>10
      <4> QED
        BY <3>1, <4>1, <1>1
    <3>3. CASE j = p
      BY <3>3, <3>1, <1>10
    <3>4. CASE j > p
      <4>1. j - 1 \in 1 .. Len(queue) /\ r[j] = queue[j - 1] /\ j - 1 < k - 1
        BY <3>4, <1>10, <1>11, <1>1
      <4> QED
        BY <3>1, <4>1, <1>1 DEF Sorted
    <3> QED
      BY <3>2, <3>3, <3>4, <1>5, <1>1
  <2> QED
    BY <2>1, <2>2, <2>3, <1>5, <1>1
<1>12. ASSUME NEW k \in 1 .. (Len(queue) + 1)
       PROVE  r[k] = i \/ \E l \in DOMAIN queue : r[k] = queue[l]
  <2>1. CASE k < p
    BY <2>1, <1>1, <1>10
  <2>2. CASE k = p
    BY <2>2, <1>10
  <2>3. CASE k > p
    BY <2>3, <1>1, <1>10
  <2> QED
    BY <2>1, <2>2, <2>3, <1>5, <1>1
<1> QED
  BY <1>4, <1>8, <1>9, <1>11, <1>12 DEF Sorted

\* The packets after the first one of a sorted queue.
LEMMA TailIsSorted ==
  ASSUME NEW q \in Seq(1 .. Count), q # <<>>, Sorted(q)
  PROVE  /\ Head(q) = q[1] /\ 1 \in DOMAIN q /\ Tail(q) \in Seq(1 .. Count)
         /\ Len(Tail(q)) = Len(q) - 1 /\ Len(q) \in Nat
         /\ Sorted(Tail(q))
         /\ \A k \in DOMAIN Tail(q) :
              /\ \E l \in DOMAIN q : Tail(q)[k] = q[l]
              /\ Head(q) <= Tail(q)[k]
<1>1. /\ Tail(q) \in Seq(1 .. Count) /\ Len(Tail(q)) = Len(q) - 1
      /\ \A k \in 1 .. Len(Tail(q)) : Tail(q)[k] = q[k + 1]
  BY HeadTailProperties
<1>2. Len(q) \in Nat /\ Len(q) # 0 /\ DOMAIN q = 1 .. Len(q) /\ Head(q) = q[1]
  BY LenProperties, EmptySeq
<1>3. DOMAIN Tail(q) = 1 .. (Len(q) - 1)
  BY <1>1, LenProperties
<1>4. \A k \in 1 .. (Len(q) - 1) : k + 1 \in DOMAIN q /\ 1 < k + 1 /\ Tail(q)[k] = q[k + 1]
  BY <1>1, <1>2
<1>5. 1 \in DOMAIN q
  BY <1>2
<1>6. \A k \in DOMAIN Tail(q) : Head(q) <= Tail(q)[k] /\ \E l \in DOMAIN q : Tail(q)[k] = q[l]
  BY <1>2, <1>3, <1>4, <1>5 DEF Sorted
<1>7. ASSUME NEW j \in DOMAIN Tail(q), NEW k \in DOMAIN Tail(q), j < k
      PROVE  Tail(q)[j] <= Tail(q)[k]
  <2>1. j + 1 \in DOMAIN q /\ k + 1 \in DOMAIN q /\ j + 1 < k + 1
    BY <1>2, <1>3, <1>4, <1>7
  <2> QED
    BY <2>1, <1>3, <1>4 DEF Sorted
<1> QED
  BY <1>1, <1>2, <1>5, <1>6, <1>7 DEF Sorted

-------------------------------------------------------------------------------
(***************************************************************************)
(* The invariant, action by action                                         *)
(***************************************************************************)

\* A packet that is parsed for the first time was sent after all those parsed before,
\* or it is taken for the first one.
NewIsLast == \A i \in parsed' \ parsed : parsed' = {i} \/ \A j \in parsed : j < i

LEMMA InitInductive == Init => Inductive
<1> SUFFICES ASSUME Init PROVE Inductive
  OBVIOUS
<1>1. /\ sent = 0 /\ flight = {} /\ seq = 0 /\ queue = <<>> /\ parsed = {} /\ last = 0
      /\ DOMAIN queue = {} /\ queue \in Seq(1 .. Count) /\ Count \in Nat
  BY Constants, EmptySeq DEF Init
<1> QED
  BY <1>1 DEF Inductive, TypeOK, InvFlight, InvLast, InvGaps, QueueInOrder

LEMMA SendInductive == Inductive /\ Send => Inductive' /\ NewIsLast
<1> SUFFICES ASSUME Inductive, Send PROVE Inductive' /\ NewIsLast
  OBVIOUS
<1>1. /\ UNCHANGED <<seq, queue, parsed, last>> /\ sent < Count /\ sent' = sent + 1
      /\ flight' = flight \cup {sent + 1} /\ \A i \in flight : sent + 1 - i < Window
  BY DEF Send, receiver, history
<1>2. /\ sent \in Nat /\ last <= sent /\ Window >= 1 /\ Window \in Nat /\ Count \in Nat
      /\ \A k \in DOMAIN queue : queue[k] \in 1 .. sent
      /\ \A i \in flight \cup parsed : i \in 1 .. sent
  BY Facts, Constants DEF Inductive
<1>3. TypeOK'
  BY <1>1, <1>2 DEF Inductive, TypeOK
<1>4. InvFlight'
  BY <1>1, <1>2 DEF InvFlight
<1>5. InvLast' /\ InvGaps' /\ QueueInOrder' /\ NewIsLast
  BY <1>1 DEF Inductive, InvLast, InvGaps, QueueInOrder, ParsedFrom, Seq16, NewIsLast
<1> QED
  BY <1>3, <1>4, <1>5 DEF Inductive

\* A step that parses no packet.
LEMMA QuietInductive ==
  ASSUME Inductive, UNCHANGED <<sent, seq, parsed, last>>, flight' \subseteq flight,
         queue' \in Seq(1 .. Count), \A k \in DOMAIN queue' : queue'[k] <= sent,
         Sorted(queue'), Len(queue') < QueueSize \/ queue' = <<>>,
         last = 0 => queue' = <<>>, \A k \in DOMAIN queue' : ParsedFrom(queue'[k])
  PROVE  Inductive' /\ NewIsLast
<1>1. TypeOK' /\ InvFlight' /\ NewIsLast
  BY DEF Inductive, TypeOK, InvFlight, NewIsLast
<1>2. InvLast'
  BY DEF Inductive, InvLast, Seq16
<1>3. InvGaps'
  BY DEF Inductive, InvGaps, ParsedFrom
<1>4. QueueInOrder'
  BY DEF QueueInOrder, Sorted
<1> QED
  BY <1>1, <1>2, <1>3, <1>4 DEF Inductive

\* A packet is parsed from which on nothing has been skipped, and what stays in the
\* queue is behind nothing but packets that were parsed.
LEMMA ParseInductive ==
  ASSUME Inductive, NEW i \in 1 .. sent, Parse(i), UNCHANGED sent, flight' \subseteq flight,
         queue' \in Seq(1 .. Count), \A k \in DOMAIN queue' : queue'[k] \in 1 .. sent,
         Sorted(queue'), Len(queue') < QueueSize \/ queue' = <<>>,
         last = 0 => NoReordering,
         NoReordering => queue' = <<>>,
         ~NoReordering => ParsedFrom(i),
         \A k \in DOMAIN queue' :
           ParsedFrom(queue'[k]) /\ queue'[k] .. (i - 1) \subseteq parsed
  PROVE  Inductive' /\ NewIsLast
<1>0. sent \in Nat /\ i \in Nat /\ \A j \in parsed : j \in Nat
  BY Facts DEF Inductive
<1>1. CASE UNCHANGED <<seq, history>>
  BY <1>1, QuietInductive DEF history
<1>2. CASE /\ seq' = Seq16(i) /\ last' = i
           /\ parsed' = IF NoReordering THEN {i} ELSE parsed \cup {i}
  <2>1. TypeOK' /\ InvFlight'
    BY <1>2 DEF Inductive, TypeOK, InvFlight
  <2>2. InvLast'
    BY <1>2, <1>0 DEF InvLast, Seq16
  <2>3. QueueInOrder'
    BY DEF QueueInOrder, Sorted
  <2>4. CASE NoReordering
    <3>1. parsed' = {i} /\ last' = i /\ DOMAIN queue' = {}
      BY <1>2, <2>4
    <3>2. InvGaps' /\ NewIsLast
      BY <3>1, <1>0 DEF InvGaps, ParsedFrom, NewIsLast
    <3> QED
      BY <2>1, <2>2, <2>3, <3>2 DEF Inductive
  <2>5. CASE ~NoReordering
    <3>1. parsed' = parsed \cup {i} /\ last' = i /\ ParsedFrom(i)
      BY <1>2, <2>5
    <3>2. i .. i \subseteq parsed'
      BY <3>1, <1>0
    <3>3. ParsedFrom(last)'
      BY <3>1, <3>2 DEF ParsedFrom
    <3>4. ASSUME NEW k \in DOMAIN queue' PROVE ParsedFrom(queue[k])'
      <4>1. queue'[k] \in Nat /\ queue'[k] .. i \subseteq parsed'
        BY <3>1, <1>0
      <4> QED
        BY <3>1, <4>1 DEF ParsedFrom
    <3>5. NewIsLast
      <4> SUFFICES ASSUME i \notin parsed, NEW j \in parsed, ~(j < i) PROVE FALSE
        BY <3>1 DEF NewIsLast
      <4>1. i \in i .. j
        BY <1>0
      <4> QED
        BY <4>1, <3>1 DEF ParsedFrom
    <3> QED
      BY <2>1, <2>2, <2>3, <3>3, <3>4, <3>5 DEF Inductive, InvGaps
  <2> QED
    BY <2>4, <2>5
<1> QED
  BY <1>1, <1>2 DEF Parse

\* A packet is taken from the front of q, whatever the caller has put into q.
LEMMA ParseQueuedInductive ==
  ASSUME Inductive, NEW q \in Seq(1 .. Count), ParseQueued(q), q # <<>>,
         UNCHANGED sent, flight' \subseteq flight, ~NoReordering, Sorted(q),
         Len(q) - 1 < QueueSize, \A k \in DOMAIN q : q[k] \in 1 .. sent /\ ParsedFrom(q[k])
  PROVE  Inductive' /\ NewIsLast
<1>1. Parse(Head(q)) /\ queue' = Tail(q)
  BY DEF ParseQueued
<1>2. /\ Head(q) = q[1] /\ 1 \in DOMAIN q
      /\ queue' \in Seq(1 .. Count) /\ Sorted(queue') /\ Len(queue') < QueueSize
  BY <1>1, TailIsSorted
<1>3. \A k \in DOMAIN queue' : \E l \in DOMAIN q : queue'[k] = q[l]
  BY <1>1, TailIsSorted
<1>4. \A k \in DOMAIN queue' : Head(q) <= queue'[k]
  BY <1>1, TailIsSorted
<1>5. Head(q) \in 1 .. sent /\ ParsedFrom(Head(q)) /\ sent \in Nat
  BY <1>2, Facts DEF Inductive
<1>6. \A k \in DOMAIN queue' : queue'[k] \in 1 .. sent /\ ParsedFrom(queue'[k])
  BY <1>3
<1>7. \A k \in DOMAIN queue' : queue'[k] .. (Head(q) - 1) = {}
  BY <1>4, <1>5, <1>6
<1>8. last # 0
  BY DEF Inductive, InvLast, NoReordering
<1> QED
  BY <1>1, <1>2, <1>5, <1>6, <1>7, <1>8, ParseInductive

\* The queue between two calls.
LEMMA QueueFacts ==
  ASSUME Inductive
  PROVE  /\ queue \in Seq(1 .. Count) /\ Sorted(queue) /\ Len(queue) \in Nat
         /\ Len(queue) < QueueSize \/ queue = <<>>
         /\ \A k \in DOMAIN queue : queue[k] \in 1 .. sent /\ ParsedFrom(queue[k])
         /\ ~NoReordering => last # 0 /\ seq = Seq16(last) /\ last \in parsed
         /\ NoReordering => queue = <<>>
         /\ queue # <<>> => ~NoReordering
<1>1. /\ queue \in Seq(1 .. Count) /\ Len(queue) \in Nat
      /\ \A k \in DOMAIN queue : queue[k] \in 1 .. sent
  BY Facts DEF Inductive
<1>2. Sorted(queue) /\ (Len(queue) < QueueSize \/ queue = <<>>)
  BY DEF Inductive, QueueInOrder, Sorted
<1>3. \A k \in DOMAIN queue : ParsedFrom(queue[k])
  BY DEF Inductive, InvGaps
<1>4. ~NoReordering => last # 0 /\ seq = Seq16(last) /\ last \in parsed
  BY DEF Inductive, InvLast, NoReordering
<1>5. QueueSize <= 1 => queue = <<>>
  <2>1. Len(queue) = 0 => queue = <<>>
    BY <1>1, EmptySeq
  <2> QED
    BY <2>1, <1>1, <1>2, Constants
<1> QED
  BY <1>1, <1>2, <1>3, <1>4, <1>5 DEF NoReordering

\* The queue is asked for its first packet.
LEMMA NextQueuedInductive ==
  ASSUME Inductive, ParseQueued(queue), UNCHANGED network
  PROVE  Inductive' /\ NewIsLast
<1>1. UNCHANGED sent /\ flight' \subseteq flight
  BY DEF network
<1>2. CASE queue = <<>>
  <2>1. UNCHANGED <<seq, queue, parsed, last>>
    BY <1>2 DEF ParseQueued, history
  <2> QED
    BY <1>1, <1>2, <2>1, QueueFacts, QuietInductive
<1>3. CASE queue # <<>>
  <2>1. Len(queue) - 1 < QueueSize
    BY <1>3, QueueFacts, Constants
  <2> QED
    BY <1>1, <1>3, <2>1, QueueFacts, ParseQueuedInductive
<1> QED
  BY <1>2, <1>3

\* What is queued behind a gap.
LEMMA EnqueuedFacts ==
  ASSUME Inductive, HalfSpace, NEW i \in flight, ~NoReordering, i > last
  PROVE  /\ Enqueued(i) \in Seq(1 .. Count) /\ Enqueued(i) # <<>> /\ Sorted(Enqueued(i))
         /\ Len(Enqueued(i)) = Len(queue) + 1
         /\ \A k \in DOMAIN Enqueued(i) :
              Enqueued(i)[k] \in 1 .. sent /\ ParsedFrom(Enqueued(i)[k])
<1>1. /\ last # 0 /\ Sorted(queue) /\ Len(queue) \in Nat
      /\ \A k \in DOMAIN queue : queue[k] \in 1 .. sent /\ ParsedFrom(queue[k])
  BY QueueFacts
<1>2. /\ Enqueued(i) \in Seq(1 .. Count) /\ Sorted(Enqueued(i))
      /\ Len(Enqueued(i)) = Len(queue) + 1
      /\ \A k \in DOMAIN Enqueued(i) :
           Enqueued(i)[k] = i \/ \E l \in DOMAIN queue : Enqueued(i)[k] = queue[l]
  BY <1>1, EnqueuedIsSorted DEF Inductive
<1>3. i \in 1 .. sent /\ ParsedFrom(i)
  <2>1. i \in 1 .. sent /\ i \in Nat /\ last \in Nat /\ \A j \in parsed : j \in Nat
    BY Facts DEF Inductive
  <2>2. \A j \in parsed : last .. j \subseteq parsed /\ i .. j \subseteq last .. j
    BY <1>1, <2>1 DEF Inductive, InvGaps, ParsedFrom
  <2> QED
    BY <2>1, <2>2 DEF ParsedFrom
<1>4. Enqueued(i) # <<>>
  BY <1>1, <1>2, EmptySeq
<1> QED
  BY <1>1, <1>2, <1>3, <1>4

\* The packet that follows the one parsed last, or a copy of it, or a first one.
LEMMA InTurnInductive ==
  ASSUME Inductive, HalfSpace, NEW i \in flight, UNCHANGED <<sent, queue>>,
         flight' \subseteq flight, Parse(i),
         NoReordering \/ (~TooLate(i) /\ Diff(Seq16(i), seq) <= 1)
  PROVE  Inductive' /\ NewIsLast
<1>1. /\ i \in 1 .. sent /\ i \in Nat /\ last \in Nat /\ \A j \in parsed : j \in Nat
      /\ \A k \in DOMAIN queue : queue[k] \in Nat
  BY Facts DEF Inductive
<1>2. CASE NoReordering
  <2>1. queue' = <<>> /\ DOMAIN queue' = {}
    BY <1>2, QueueFacts
  <2> QED
    BY <1>1, <1>2, <2>1, QueueFacts, ParseInductive
<1>3. CASE ~NoReordering
  <2>1. last # 0 /\ seq = Seq16(last) /\ last \in parsed
    BY <1>3, QueueFacts
  <2>2. Diff(Seq16(i), seq) = i - last
    BY <2>1, Nearby DEF Inductive
  <2>3. i \in {last, last + 1}
    BY <1>1, <1>3, <2>2 DEF TooLate
  <2>4. ParsedFrom(i)
    <3>1. \A j \in parsed : last .. j \subseteq parsed /\ i .. j \subseteq last .. j
      BY <2>1, <2>3, <1>1 DEF Inductive, InvGaps, ParsedFrom
    <3> QED
      BY <3>1 DEF ParsedFrom
  <2>5. ASSUME NEW k \in DOMAIN queue PROVE queue[k] .. (i - 1) \subseteq parsed
    <3>1. queue[k] .. last \subseteq parsed
      BY <2>1, QueueFacts DEF ParsedFrom
    <3>2. queue[k] .. (i - 1) \subseteq queue[k] .. last
      BY <2>3, <1>1
    <3> QED
      BY <3>1, <3>2
  <2> QED
    BY <1>1, <1>3, <2>1, <2>4, <2>5, QueueFacts, ParseInductive
<1> QED
  BY <1>2, <1>3

LEMMA ReceiveInductive ==
  ASSUME Inductive, HalfSpace, NEW i \in flight, Receive(i)
  PROVE  Inductive' /\ NewIsLast
<1>1. UNCHANGED sent /\ flight' \subseteq flight
  BY DEF Receive, Arrives
<1>2. i \in Nat /\ last \in Nat
  BY Facts DEF Inductive
<1>3. CASE /\ NoReordering \/ (~TooLate(i) /\ Diff(Seq16(i), seq) <= 1)
           /\ Parse(i) /\ UNCHANGED queue
  BY <1>1, <1>3, InTurnInductive
<1>4. CASE UNCHANGED <<seq, queue, history>>
  BY <1>1, <1>4, QueueFacts, QuietInductive DEF history, NoReordering, Inductive, InvLast
<1>5. CASE /\ ~NoReordering /\ Diff(Seq16(i), seq) > 1
           /\ IF Len(queue) + 1 >= QueueSize
                THEN ParseQueued(Enqueued(i))
                ELSE queue' = Enqueued(i) /\ UNCHANGED <<seq, history>>
  <2>1. last # 0 /\ seq = Seq16(last)
    BY <1>5, QueueFacts
  <2>2. i > last
    <3>1. Diff(Seq16(i), seq) = i - last
      BY <2>1, Nearby DEF Inductive
    <3> QED
      BY <3>1, <1>2, <1>5
  <2>3. /\ Enqueued(i) \in Seq(1 .. Count) /\ Enqueued(i) # <<>> /\ Sorted(Enqueued(i))
        /\ Len(Enqueued(i)) = Len(queue) + 1
        /\ \A k \in DOMAIN Enqueued(i) :
             Enqueued(i)[k] \in 1 .. sent /\ ParsedFrom(Enqueued(i)[k])
    BY <1>5, <2>2, EnqueuedFacts
  <2>4. CASE Len(queue) + 1 >= QueueSize
    <3>1. ParseQueued(Enqueued(i))
      BY <1>5, <2>4
    <3>2. Len(Enqueued(i)) - 1 < QueueSize
      <4>1. QueueSize > 1 /\ QueueSize \in Nat /\ Len(queue) \in Nat
        BY <1>5, QueueFacts, Constants DEF NoReordering
      <4>2. queue = <<>> => Len(queue) = 0
        BY EmptySeq
      <4> QED
        BY <2>3, <4>1, <4>2, QueueFacts
    <3> QED
      BY <3>1, <3>2, <2>3, <1>1, <1>5, ParseQueuedInductive
  <2>5. CASE ~(Len(queue) + 1 >= QueueSize)
    <3>1. queue' = Enqueued(i) /\ UNCHANGED <<seq, history>>
      BY <1>5, <2>5
    <3>2. Len(Enqueued(i)) < QueueSize
      BY <2>3, <2>5, QueueFacts, Constants
    <3>3. /\ queue' \in Seq(1 .. Count) /\ Sorted(queue') /\ Len(queue') < QueueSize
          /\ \A k \in DOMAIN queue' : queue'[k] \in 1 .. sent /\ ParsedFrom(queue'[k])
      BY <2>3, <3>1, <3>2
    <3> HIDE DEF Enqueued
    <3>4. \A k \in DOMAIN queue' : queue'[k] <= sent
      BY <3>3, Facts DEF Inductive
    <3> QED
      BY <3>1, <3>3, <3>4, <2>1, <1>1, QuietInductive DEF history
  <2> QED
    BY <2>4, <2>5
<1> QED
  BY <1>3, <1>4, <1>5 DEF Receive

LEMMA StepInductive ==
  ASSUME Inductive, HalfSpace, [Next]_vars
  PROVE  Inductive' /\ NewIsLast
<1>1. CASE UNCHANGED <<seq, queue, history>> /\ UNCHANGED sent /\ flight' \subseteq flight
  BY <1>1, QueueFacts, QuietInductive, Facts DEF history, Inductive, InvLast
<1>2. CASE UNCHANGED vars
  BY <1>2, <1>1 DEF vars, network
<1>3. ASSUME NEW i \in flight, Lose(i) PROVE Inductive' /\ NewIsLast
  BY <1>3, <1>1 DEF Lose, receiver
<1>4. ASSUME NEW i \in flight, Receive(i) PROVE Inductive' /\ NewIsLast
  BY <1>4, ReceiveInductive
<1>5. CASE ParseNext
  BY <1>5, NextQueuedInductive DEF ParseNext
<1>6. CASE Returns
  BY <1>6, <1>1 DEF Returns, network
<1>7. CASE ReadMore /\ UNCHANGED network
  <2>1. CASE ParseQueued(queue)
    BY <1>7, <2>1, NextQueuedInductive
  <2>2. CASE UNCHANGED <<seq, queue, history>>
    BY <1>7, <2>2, <1>1 DEF network
  <2> QED
    BY <1>7, <2>1, <2>2 DEF ReadMore
<1>8. CASE FetchMore \/ MaxDelay
  BY <1>8, <1>7 DEF FetchMore, MaxDelay
<1>9. CASE Send
  BY <1>9, SendInductive
<1>10. CASE Done
  BY <1>10, <1>2 DEF Done
<1> QED
  BY <1>2, <1>3, <1>4, <1>5, <1>6, <1>8, <1>9, <1>10 DEF Next

-------------------------------------------------------------------------------
(***************************************************************************)
(* The theorems                                                            *)
(***************************************************************************)
LEMMA InductiveHolds == Spec /\ []HalfSpace => []Inductive
<1>1. Inductive /\ HalfSpace /\ [Next]_vars => Inductive'
  BY StepInductive
<1> QED
  BY InitInductive, <1>1, PTL DEF Spec

\* The queue is sorted by the places of its packets in the stream, across wraps of the
\* sequence numbers, and has room for one more when ff_rtp_parse_packet() is called.
THEOREM QueueStaysInOrder == Spec /\ []HalfSpace => []QueueInOrder
<1>1. Inductive => QueueInOrder
  BY DEF Inductive
<1> QED
  BY <1>1, InductiveHolds, PTL

\* What rtp_parse_one_packet() parses for the first time was sent after all that it
\* has parsed before, whatever is lost, doubled, reordered or given up in between.
THEOREM ParsedInOrder == Spec /\ []HalfSpace => NewPacketsInOrder
<1>1. Inductive /\ HalfSpace /\ [Next]_vars
        => [\A i \in parsed' \ parsed : parsed' = {i} \/ \A j \in parsed : j < i]_vars
  BY StepInductive DEF NewIsLast
<1> QED
  BY <1>1, InductiveHolds, PTL DEF Spec, NewPacketsInOrder

\* In a stream of less than half the space of sequence numbers no condition on what is
\* lost or how long is needed.
THEOREM ShortStreamInOrder ==
  ASSUME Count < M \div 2
  PROVE  Spec => []QueueInOrder /\ NewPacketsInOrder
<1>1. Inductive => HalfSpace
  <2> SUFFICES ASSUME Inductive PROVE HalfSpace
    OBVIOUS
  <2>1. /\ sent \in Nat /\ sent <= Count /\ last \in Nat
        /\ \A k \in DOMAIN queue : queue[k] \in 1 .. sent
    BY Facts DEF Inductive
  <2> QED
    BY <2>1, Constants DEF HalfSpace
<1>2. Inductive /\ [Next]_vars => Inductive'
  BY <1>1, StepInductive
<1>3. Spec => []HalfSpace
  BY InitInductive, <1>1, <1>2, PTL DEF Spec
<1> QED
  BY <1>3, QueueStaysInOrder, ParsedInOrder, PTL
===============================================================================
