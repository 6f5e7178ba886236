-------------------------- MODULE ThreadMessageProofs --------------------------
(***************************************************************************)
(* Proofs about the two systems built on ThreadMessage.                    *)
(*                                                                         *)
(* MessageClients, for any senders and receivers, no more of either than   *)
(* the queue has places, and any number of messages: no wakeup is lost for *)
(* good, and nothing that was sent is lost, doubled or reordered on its    *)
(* way.                                                                    *)
(*                                                                         *)
(* InputThreads, for any number of packets and of passes, any size of the  *)
(* queue and any failing allocations: packets reach the decoders in file   *)
(* order and before the end of the file does, and at shutdown none is left *)
(* behind, whichever thread holds it.                                      *)
(***************************************************************************)
EXTENDS MessageClients, InputThreads, SequenceTheorems, FiniteSetTheorems, TLAPS

\* The part of QueueInv that is inductive by itself.
ClientsInductive == ClientsTypeOK /\ InvSleepers /\ ClientsEnd /\ InvPassed

-------------------------------------------------------------------------------
(***************************************************************************)
(* MessageClients: one state or one pass                                   *)
(***************************************************************************)
LEMMA ClientsSizes ==
  ASSUME ClientsTypeOK
  PROVE  /\ NELEM \in Nat /\ NELEM >= 1 /\ Count \in Nat
         /\ fifo \in Seq(Messages) /\ Len(fifo) \in 0 .. NELEM
         /\ received \in Seq(Messages) /\ Len(received) \in Nat
<1>1. NELEM \in Nat /\ NELEM >= 1 /\ Count \in Nat
  BY NelemAssumption, ClientsAssumption
<1>2. fifo \in Seq(Messages) /\ received \in Seq(Messages) /\ Len(fifo) <= NELEM
  BY DEF ClientsTypeOK
<1>3. Len(fifo) \in Nat /\ Len(received) \in Nat
  BY <1>2, LenProperties
<1> QED
  BY <1>1, <1>2, <1>3

\* The sleepers of one side are no more than the places of the queue.
LEMMA Sleepers ==
  ASSUME NEW S \in SUBSET Threads
  PROVE  /\ IsFiniteSet(S) /\ Cardinality(S) \in Nat
         /\ S = {} <=> Cardinality(S) = 0
         /\ S \subseteq Senders => Cardinality(S) <= NELEM
         /\ S \subseteq Receivers => Cardinality(S) <= NELEM
<1>1. IsFiniteSet(Senders) /\ IsFiniteSet(Receivers) /\ IsFiniteSet(S)
  BY ClientsAssumption, FS_Subset DEF Threads
<1>2. /\ Cardinality(Senders) \in Nat /\ Cardinality(Receivers) \in Nat /\ Cardinality(S) \in Nat
      /\ S \subseteq Senders => Cardinality(S) <= Cardinality(Senders)
      /\ S \subseteq Receivers => Cardinality(S) <= Cardinality(Receivers)
      /\ S = {} <=> Cardinality(S) = 0
  BY <1>1, FS_CardinalityType, FS_Subset, FS_EmptySet
<1> QED
  BY <1>1, <1>2, RoomAssumption, NelemAssumption

\* pthread_cond_signal() leaves one sleeper less, if there is one.
LEMMA SignalWakesOne ==
  ASSUME ClientsTypeOK, Signal
  PROVE  /\ asleep' \subseteq asleep
         /\ asleep' # {} => Cardinality(asleep') = Cardinality(asleep) - 1
<1>1. CASE asleep = {}
  BY <1>1 DEF Signal
<1>2. CASE asleep # {}
  <2>1. PICK t \in asleep : asleep' = asleep \ {t}
    BY <1>2 DEF Signal
  <2>2. IsFiniteSet(asleep)
    BY Sleepers DEF ClientsTypeOK
  <2> QED
    BY <2>1, <2>2, FS_RemoveElement
<1> QED
  BY <1>1, <1>2

\* As long as the sleepers are all on one side, there is somebody awake to wake them.
LEMMA OneSideIsAwake ==
  ASSUME ClientsTypeOK, InvSleepers, ClientsEnd PROVE SomebodyIsAwake
<1> SUFFICES ASSUME ~AllLeft, NEW s \in Senders, pc[s] # "done",
                    \A t \in Threads : pc[t] = "call" => t \in asleep
             PROVE  FALSE
  BY DEF SomebodyIsAwake
<1>1. pc[s] = "call" /\ s \in Threads
  BY DEF ClientsTypeOK, ClientsEnd, Threads
<1>2. asleep \subseteq Senders
  BY <1>1 DEF InvSleepers
<1>3. PICK r \in Receivers : pc[r] # "left"
  BY DEF AllLeft
<1>4. pc[r] # "call"
  BY <1>2, ClientsAssumption DEF Threads
<1>5. pc[r] = "done"
  BY <1>3, <1>4 DEF ClientsTypeOK, Threads
<1> QED
  BY <1>5 DEF ClientsEnd

\* A message appended with the next number of its sender keeps the order.
LEMMA AppendKeepsOrder ==
  ASSUME NEW p \in Seq(Messages), NEW s \in Senders,
         sent \in [Senders -> 0 .. Count], sent[s] < Count, InOrder(p, sent),
         NEW n, n = [sent EXCEPT ![s] = @ + 1],
         NEW q, q = Append(p, <<s, sent[s] + 1>>)
  PROVE  InOrder(q, n)
<1> DEFINE l == Len(p)
           m == <<s, sent[s] + 1>>
<1>1. Count \in Nat /\ sent[s] \in Nat /\ m \in Messages /\ m[1] = s /\ m[2] = sent[s] + 1
  BY ClientsAssumption DEF Messages
<1>2. l \in Nat /\ DOMAIN p = 1 .. l /\ \A i \in 1 .. l : p[i] \in Messages
  BY LenProperties, ElementOfSeq
<1>3. /\ q \in Seq(Messages) /\ Len(q) = l + 1 /\ q[l + 1] = m
      /\ \A i \in 1 .. l : q[i] = p[i]
  BY <1>1, AppendProperties
<1>4. DOMAIN q = 1 .. (l + 1)
  BY <1>3, LenProperties
<1>5. /\ n[s] = sent[s] + 1 /\ \A u \in Senders \ {s} : n[u] = sent[u]
      /\ \A u \in Senders : sent[u] \in Nat
  BY <1>1
<1>6. \A i \in 1 .. l : p[i][1] \in Senders /\ p[i][2] \in Nat
  BY <1>2, ClientsAssumption DEF Messages
<1>7. \A i \in 1 .. l : p[i][2] <= sent[p[i][1]]
  BY <1>2 DEF InOrder
<1> HIDE DEF m, l
<1>8. ASSUME NEW u \in Senders, NEW k \in 1 .. n[u]
      PROVE  \E i \in DOMAIN q : q[i] = <<u, k>>
  <2>1. CASE u = s /\ k = sent[s] + 1
    BY <2>1, <1>2, <1>3, <1>4, SMTT(20) DEF m
  <2>2. CASE ~(u = s /\ k = sent[s] + 1)
    <3>1. k \in 1 .. sent[u]
      BY <2>2, <1>5
    <3>2. PICK i \in 1 .. l : p[i] = <<u, k>>
      BY <3>1, <1>2 DEF InOrder
    <3>3. i \in DOMAIN q /\ q[i] = p[i]
      BY <3>2, <1>2, <1>3, <1>4
    <3> QED
      BY <3>2, <3>3
  <2> QED
    BY <2>1, <2>2
<1>9. ASSUME NEW i \in DOMAIN q PROVE q[i][2] <= n[q[i][1]]
  <2>1. CASE i \in 1 .. l
    BY <2>1, <1>3, <1>5, <1>6, <1>7
  <2>2. CASE i = l + 1
    BY <2>2, <1>1, <1>3, <1>5
  <2> QED
    BY <2>1, <2>2, <1>2, <1>4
<1>10. ASSUME NEW i \in DOMAIN q, NEW j \in DOMAIN q, i < j, q[i][1] = q[j][1]
       PROVE  q[i][2] < q[j][2]
  <2>1. i \in 1 .. l
    BY <1>2, <1>4, <1>10
  <2>2. CASE j \in 1 .. l
    BY <2>1, <2>2, <1>2, <1>3, <1>10 DEF InOrder
  <2>3. CASE j = l + 1
    BY <2>1, <2>3, <1>1, <1>3, <1>6, <1>7, <1>10
  <2> QED
    BY <2>2, <2>3, <1>2, <1>4
<1> QED
  BY <1>8, <1>9, <1>10 DEF InOrder

-------------------------------------------------------------------------------
(***************************************************************************)
(* MessageClients: the invariant, action by action                         *)
(***************************************************************************)
LEMMA ClientsInitInductive == ClientsInit => ClientsInductive
<1> SUFFICES ASSUME ClientsInit PROVE ClientsInductive
  OBVIOUS
<1>1. /\ fifo = <<>> /\ received = <<>> /\ asleep = {} /\ err_send = "none" /\ err_recv = "none"
      /\ pc = [t \in Threads |-> "call"] /\ sent = [s \in Senders |-> 0]
  BY DEF ClientsInit, QueueInit
<1>2. <<>> \in Seq(Messages) /\ Len(<<>>) = 0
  BY EmptySeq
<1>3. ClientsTypeOK
  BY <1>1, <1>2, NelemAssumption, ClientsAssumption DEF ClientsTypeOK
<1>4. InvSleepers /\ ClientsEnd
  BY <1>1 DEF InvSleepers, ClientsEnd, Threads
<1>5. InvPassed
  <2>1. received \o fifo = <<>>
    BY <1>1, <1>2, ConcatEmptySeq
  <2>2. DOMAIN <<>> = {}
    BY <1>2, LenProperties
  <2>3. \A s \in Senders : 1 .. sent[s] = {}
    BY <1>1
  <2>4. InOrder(<<>>, sent)
    BY <2>2, <2>3 DEF InOrder
  <2> QED
    BY <2>1, <2>4 DEF InvPassed
<1> QED
  BY <1>3, <1>4, <1>5 DEF ClientsInductive

\* Of a thread that goes to sleep: the queue is full or empty, so all the other sleepers
\* are on its side.
LEMMA SleepInductive ==
  ASSUME ClientsInductive, NEW t \in Threads, pc[t] = "call", asleep' = asleep \cup {t},
         UNCHANGED <<fifo, err_send, err_recv, pc, sent, received>>,
         \/ t \in Senders /\ SendMustWait /\ sent[t] < Count
         \/ t \in Receivers /\ RecvMustWait
  PROVE  ClientsInductive'
<1>1. ClientsTypeOK'
  BY DEF ClientsInductive, ClientsTypeOK
<1>2. ClientsEnd' /\ InvPassed'
  BY DEF ClientsInductive, ClientsEnd, InvPassed
<1>3. InvSleepers'
  <2>1. /\ asleep' \in SUBSET Threads /\ asleep \in SUBSET Threads
        /\ NELEM \in Nat /\ NELEM >= 1 /\ Len(fifo) \in 0 .. NELEM
    BY <1>1, ClientsSizes DEF ClientsTypeOK, ClientsInductive
  <2>2. /\ \A u \in asleep' : pc[u] = "call"
        /\ \A s \in Senders \cap asleep' : sent[s] < Count
    BY ClientsAssumption DEF ClientsInductive, InvSleepers
  <2>3. CASE t \in Senders /\ SendMustWait /\ sent[t] < Count
    <3>1. Len(fifo) = NELEM /\ err_send = "none"
      BY <2>1, <2>3 DEF SendMustWait
    <3>2. asleep \cap Receivers = {}
      <4>1. ASSUME asleep \cap Receivers # {} PROVE FALSE
        <5>1. Cardinality(asleep) <= 0
          BY <2>1, <3>1, <4>1 DEF ClientsInductive, InvSleepers
        <5> QED
          BY <2>1, <4>1, <5>1, Sleepers
      <4> QED
        BY <4>1
    <3>3. asleep' \subseteq Senders
      BY <2>1, <2>3, <3>2 DEF Threads
    <3>4. Cardinality(asleep') <= Len(fifo) /\ asleep' \cap Receivers = {}
      BY <2>1, <3>1, <3>3, Sleepers, ClientsAssumption
    <3> QED
      BY <2>2, <3>1, <3>3, <3>4 DEF InvSleepers
  <2>4. CASE t \in Receivers /\ RecvMustWait
    <3>1. Len(fifo) = 0 /\ err_recv = "none"
      BY <2>4, EmptySeq DEF RecvMustWait
    <3>2. asleep \cap Senders = {}
      <4>1. ASSUME asleep \cap Senders # {} PROVE FALSE
        <5>1. Cardinality(asleep) <= 0
          BY <3>1, <4>1 DEF ClientsInductive, InvSleepers
        <5> QED
          BY <2>1, <4>1, <5>1, Sleepers
      <4> QED
        BY <4>1
    <3>3. asleep' \subseteq Receivers
      BY <2>1, <2>4, <3>2 DEF Threads
    <3>4. Cardinality(asleep') <= NELEM - Len(fifo) /\ asleep' \cap Senders = {}
      BY <2>1, <3>1, <3>3, Sleepers, ClientsAssumption
    <3> QED
      BY <2>2, <3>1, <3>3, <3>4 DEF InvSleepers
  <2> QED
    BY <2>3, <2>4
<1> QED
  BY <1>1, <1>2, <1>3 DEF ClientsInductive

\* Nobody falls asleep, the queue is as it was, and no call ends but for an error.
LEMMA ClientsQuietInductive ==
  ASSUME ClientsInductive, asleep' \subseteq asleep, UNCHANGED <<fifo, sent, received>>,
         err_send' \in {"none", "EOF"}, err_recv' \in {"none", "EOF"},
         pc' \in [Threads -> {"call", "done", "left"}],
         err_send' # err_send => asleep' = {},
         err_recv' # err_recv => asleep' = {} /\ \A s \in Senders : pc[s] = "done",
         \A t \in asleep : pc'[t] = pc[t],
         \A s \in Senders : pc'[s] # "left" /\ (pc[s] = "done" => pc'[s] = "done"),
         \A r \in Receivers : pc'[r] = "done" =>
           pc[r] = "done" \/ (err_recv # "none" /\ fifo = <<>>),
         err_recv # "none" => err_recv' # "none"
  PROVE  ClientsInductive'
<1>1. ClientsTypeOK'
  BY DEF ClientsInductive, ClientsTypeOK
<1>2. InvPassed'
  BY DEF ClientsInductive, InvPassed
<1>3. ClientsEnd'
  BY DEF ClientsInductive, ClientsEnd
<1>4. InvSleepers'
  <2>1. Cardinality(asleep') <= Cardinality(asleep) /\ Cardinality(asleep) \in Nat
        /\ Cardinality(asleep') \in Nat
    BY Sleepers, FS_Subset DEF ClientsInductive, ClientsTypeOK
  <2>2. NELEM \in Nat /\ Len(fifo) \in Nat
    BY ClientsSizes DEF ClientsInductive
  <2>3. asleep' # {} => err_send' = err_send /\ err_recv' = err_recv
    OBVIOUS
  <2> QED
    BY <2>1, <2>2, <2>3 DEF ClientsInductive, InvSleepers
<1> QED
  BY <1>1, <1>2, <1>3, <1>4 DEF ClientsInductive

\* A message sent: one sleeper less, and one message more to wake those who are left.
LEMMA SendInductive ==
  ASSUME ClientsInductive, NEW s \in Senders, pc[s] = "call", sent[s] < Count, s \notin asleep,
         ~SendMustWait, err_send = "none",
         fifo' = Append(fifo, <<s, sent[s] + 1>>), Signal,
         sent' = [sent EXCEPT ![s] = @ + 1],
         UNCHANGED <<err_send, err_recv, pc, received>>
  PROVE  ClientsInductive'
<1> DEFINE m == <<s, sent[s] + 1>>
<1>1. /\ NELEM \in Nat /\ Len(fifo) \in 0 .. NELEM /\ fifo \in Seq(Messages) /\ Count \in Nat
      /\ received \in Seq(Messages) /\ Len(fifo) < NELEM /\ sent \in [Senders -> 0 .. Count]
      /\ asleep \in SUBSET Threads
  BY ClientsSizes DEF ClientsInductive, ClientsTypeOK, SendMustWait
<1>2. m \in Messages
  BY <1>1 DEF Messages
<1>3. fifo' \in Seq(Messages) /\ Len(fifo') = Len(fifo) + 1
  BY <1>1, <1>2, AppendProperties
<1>4. /\ asleep' \subseteq asleep /\ asleep' \in SUBSET Threads
      /\ asleep' # {} => Cardinality(asleep') = Cardinality(asleep) - 1
  BY <1>1, SignalWakesOne DEF ClientsInductive
<1>5. ClientsTypeOK'
  <2>1. sent' \in [Senders -> 0 .. Count]
    BY <1>1
  <2> QED
    BY <1>1, <1>3, <1>4, <2>1 DEF ClientsInductive, ClientsTypeOK
<1>6. InvSleepers'
  <2>1. Cardinality(asleep) \in Nat /\ Cardinality(asleep') \in Nat
    BY <1>1, <1>4, Sleepers
  <2>2. ASSUME asleep' \cap Senders # {}
        PROVE  asleep' \subseteq Senders /\ Cardinality(asleep') <= Len(fifo')
    BY <1>1, <1>3, <1>4, <2>1, <2>2 DEF ClientsInductive, InvSleepers
  <2>3. ASSUME asleep' \cap Receivers # {}
        PROVE  /\ err_recv = "none" /\ asleep' \subseteq Receivers
               /\ Cardinality(asleep') <= NELEM - Len(fifo')
    BY <1>1, <1>3, <1>4, <2>1, <2>3 DEF ClientsInductive, InvSleepers
  <2>4. /\ \A t \in asleep' : pc[t] = "call"
        /\ \A u \in Senders \cap asleep' : sent'[u] < Count
    BY <1>1, <1>4 DEF ClientsInductive, InvSleepers
  <2> QED
    BY <2>2, <2>3, <2>4 DEF InvSleepers
<1>7. ClientsEnd'
  BY DEF ClientsInductive, ClientsEnd
<1>8. InvPassed'
  <2> DEFINE p == received \o fifo
             q == received' \o fifo'
  <2>1. p \in Seq(Messages)
    BY <1>1, ConcatProperties
  <2>2. q = Append(p, m)
    <3>1. fifo' = fifo \o <<m>> /\ Append(p, m) = p \o <<m>>
      BY <1>1, <1>2, <2>1, AppendIsConcat
    <3>3. <<m>> \in Seq(Messages)
      BY <1>2
    <3>2. received \o (fifo \o <<m>>) = p \o <<m>>
      BY <1>1, <3>3, ConcatAssociative, SMTT(20)
    <3> QED
      BY <3>1, <3>2
  <2>3. InOrder(p, sent)
    BY DEF ClientsInductive, InvPassed
  <2> HIDE DEF p, q
  <2>4. InOrder(q, sent')
    BY <1>1, <2>1, <2>2, <2>3, AppendKeepsOrder
  <2> QED
    BY <2>4 DEF InvPassed, q
<1> QED
  BY <1>5, <1>6, <1>7, <1>8 DEF ClientsInductive

\* A message received: one sleeper less, and one place more to wake those who are left.
LEMMA RecvInductive ==
  ASSUME ClientsInductive, NEW r \in Receivers, pc[r] = "call", r \notin asleep,
         fifo # <<>>, fifo' = Tail(fifo), Signal, received' = Append(received, Head(fifo)),
         UNCHANGED <<err_send, err_recv, sent>>,
         pc' = pc \/ pc' = [pc EXCEPT ![r] = "left"]
  PROVE  ClientsInductive'
<1>1. /\ NELEM \in Nat /\ Len(fifo) \in 0 .. NELEM /\ fifo \in Seq(Messages)
      /\ received \in Seq(Messages) /\ asleep \in SUBSET Threads
      /\ pc \in [Threads -> {"call", "done", "left"}] /\ r \in Threads
  BY ClientsSizes DEF ClientsInductive, ClientsTypeOK, Threads
<1>2. /\ Head(fifo) \in Messages /\ fifo' \in Seq(Messages) /\ Len(fifo') = Len(fifo) - 1
      /\ fifo = <<Head(fifo)>> \o Tail(fifo)
  BY <1>1, HeadTailProperties
<1>3. received' \in Seq(Messages)
  BY <1>1, <1>2, AppendProperties
<1>4. /\ asleep' \subseteq asleep /\ asleep' \in SUBSET Threads
      /\ asleep' # {} => Cardinality(asleep') = Cardinality(asleep) - 1
  BY <1>1, SignalWakesOne DEF ClientsInductive
<1>5. /\ pc' \in [Threads -> {"call", "done", "left"}]
      /\ \A t \in Threads : t # r => pc'[t] = pc[t]
      /\ pc'[r] \in {"call", "left"}
  BY <1>1
<1>6. ClientsTypeOK'
  BY <1>1, <1>2, <1>3, <1>4, <1>5 DEF ClientsInductive, ClientsTypeOK
<1>7. InvSleepers'
  <2>1. Cardinality(asleep) \in Nat /\ Cardinality(asleep') \in Nat
    BY <1>1, <1>4, Sleepers
  <2>2. ASSUME asleep' \cap Senders # {}
        PROVE  /\ err_send = "none" /\ asleep' \subseteq Senders
               /\ Cardinality(asleep') <= Len(fifo')
    BY <1>1, <1>2, <1>4, <2>1, <2>2 DEF ClientsInductive, InvSleepers
  <2>3. ASSUME asleep' \cap Receivers # {}
        PROVE  /\ err_recv = "none" /\ asleep' \subseteq Receivers
               /\ Cardinality(asleep') <= NELEM - Len(fifo')
    BY <1>1, <1>2, <1>4, <2>1, <2>3 DEF ClientsInductive, InvSleepers
  <2>4. /\ \A t \in asleep' : pc'[t] = "call"
        /\ \A s \in Senders \cap asleep' : sent[s] < Count
    BY <1>4, <1>5 DEF ClientsInductive, InvSleepers
  <2> QED
    BY <2>2, <2>3, <2>4 DEF InvSleepers
<1>8. ClientsEnd'
  <2>1. \A u \in Receivers : pc'[u] # "done"
    BY <1>5 DEF ClientsInductive, ClientsEnd, Threads
  <2>2. \A s \in Senders : pc'[s] = pc[s]
    BY <1>5, ClientsAssumption DEF Threads
  <2> QED
    BY <2>1, <2>2 DEF ClientsInductive, ClientsEnd
<1>9. InvPassed'
  <2> DEFINE p == received \o fifo
             q == received' \o fifo'
  <2>1. q = p
    <3>1. <<Head(fifo)>> \in Seq(Messages) /\ received' = received \o <<Head(fifo)>>
      BY <1>1, <1>2, AppendIsConcat
    <3>2. (received \o <<Head(fifo)>>) \o Tail(fifo) = received \o (<<Head(fifo)>> \o Tail(fifo))
      BY <1>1, <1>2, <3>1, ConcatAssociative
    <3> QED
      BY <1>2, <3>1, <3>2
  <2>2. InOrder(p, sent)
    BY DEF ClientsInductive, InvPassed
  <2> HIDE DEF p, q
  <2>3. InOrder(q, sent')
    BY <2>1, <2>2
  <2> QED
    BY <2>3 DEF InvPassed, q
<1> QED
  BY <1>6, <1>7, <1>8, <1>9 DEF ClientsInductive

LEMMA SendStepInductive ==
  ASSUME ClientsInductive, NEW s \in Senders, SendStep(s) PROVE ClientsInductive'
<1>1. /\ pc[s] = "call" /\ received' = received /\ s \in Threads
      /\ pc \in [Threads -> {"call", "done", "left"}]
      /\ err_send \in {"none", "EOF"} /\ err_recv \in {"none", "EOF"}
  BY DEF SendStep, ClientsInductive, ClientsTypeOK, Threads
<1>2. CASE Finish(s) /\ UNCHANGED <<queue, sent>> /\ s \notin asleep
  <2>1. /\ pc' \in [Threads -> {"call", "done", "left"}] /\ pc'[s] = "done"
        /\ \A t \in Threads : t # s => pc'[t] = pc[t]
    BY <1>1, <1>2 DEF Finish
  <2>2. \A t \in asleep : pc'[t] = pc[t]
    BY <1>2, <2>1 DEF ClientsInductive, ClientsTypeOK
  <2>3. /\ \A u \in Senders : pc'[u] # "left" /\ (pc[u] = "done" => pc'[u] = "done")
        /\ \A r \in Receivers : pc'[r] = pc[r]
    BY <1>1, <2>1, ClientsAssumption DEF ClientsInductive, ClientsEnd, Threads
  <2> QED
    BY <1>1, <1>2, <2>1, <2>2, <2>3, ClientsQuietInductive DEF queue
<1>3. CASE Wait(s, FALSE, "sleep") /\ SendMustWait /\ sent[s] < Count /\ UNCHANGED <<pc, sent>>
  BY <1>1, <1>3, SleepInductive DEF Wait, queue
<1>4. CASE /\ sent[s] < Count /\ s \notin asleep /\ ~SendMustWait /\ err_send = "none"
           /\ fifo' = Append(fifo, <<s, sent[s] + 1>>) /\ Signal
           /\ sent' = [sent EXCEPT ![s] = @ + 1] /\ UNCHANGED <<err_send, err_recv, pc>>
  BY <1>1, <1>4, SendInductive
<1>5. CASE sent[s] = Count /\ Finish(s) /\ UNCHANGED <<queue, sent>>
  <2>1. s \notin asleep
    BY <1>5, ClientsSizes DEF ClientsInductive, InvSleepers
  <2> QED
    BY <1>2, <1>5, <2>1
<1>6. ASSUME sent[s] < Count, NEW ret \in {"ok", "sleep", "EOF"},
             Send(s, <<s, sent[s] + 1>>, FALSE, ret),
             IF ret = "ok" THEN sent' = [sent EXCEPT ![s] = @ + 1] ELSE UNCHANGED sent,
             IF ret = "EOF" THEN Finish(s) ELSE UNCHANGED pc
      PROVE  ClientsInductive'
  <2>1. CASE ret = "EOF"
    BY <1>1, <1>2, <1>6, <2>1 DEF Send, Wait
  <2>2. CASE ret = "sleep"
    BY <1>1, <1>3, <1>6, <2>2 DEF Send
  <2>3. CASE ret = "ok"
    BY <1>1, <1>4, <1>6, <2>3 DEF Send, Wait
  <2> QED
    BY <2>1, <2>2, <2>3
<1> QED
  BY <1>5, <1>6 DEF SendStep

LEMMA RecvStepInductive ==
  ASSUME ClientsInductive, NEW r \in Receivers, RecvStep(r) PROVE ClientsInductive'
<1>1. /\ pc[r] = "call" /\ sent' = sent /\ r \in Threads
      /\ pc \in [Threads -> {"call", "done", "left"}]
      /\ err_send \in {"none", "EOF"} /\ err_recv \in {"none", "EOF"}
  BY DEF RecvStep, ClientsInductive, ClientsTypeOK, Threads
<1>2. PICK ret \in {"ok", "sleep", "EOF"} :
        /\ Recv(r, FALSE, ret)
        /\ IF ret = "ok" THEN received' = Append(received, Head(fifo)) ELSE UNCHANGED received
        /\ \/ ret = "EOF" /\ Finish(r)
           \/ ret # "EOF" /\ UNCHANGED pc
           \/ ret = "ok" /\ pc' = [pc EXCEPT ![r] = "left"]
  BY DEF RecvStep
<1>3. CASE ret = "EOF"
  <2>1. /\ r \notin asleep /\ ~RecvMustWait /\ fifo = <<>> /\ Finish(r)
        /\ UNCHANGED queue /\ received' = received
    BY <1>1, <1>2, <1>3 DEF Recv, Wait
  <2>2. err_recv # "none"
    BY <2>1 DEF RecvMustWait
  <2>3. /\ pc' \in [Threads -> {"call", "done", "left"}]
        /\ \A t \in Threads : t # r => pc'[t] = pc[t]
    BY <1>1, <2>1 DEF Finish
  <2>4. /\ \A t \in asleep : pc'[t] = pc[t]
        /\ \A s \in Senders : pc'[s] = pc[s] /\ pc[s] # "left"
    BY <2>1, <2>3, ClientsAssumption
       DEF ClientsInductive, ClientsTypeOK, ClientsEnd, Threads
  <2> QED
    BY <1>1, <2>1, <2>2, <2>3, <2>4, ClientsQuietInductive DEF queue
<1>4. CASE ret = "sleep"
  <2>1. /\ RecvMustWait /\ Wait(r, FALSE, ret) /\ UNCHANGED <<pc, received>>
    BY <1>1, <1>2, <1>4 DEF Recv
  <2> QED
    BY <1>1, <1>4, <2>1, SleepInductive DEF Wait
<1>5. CASE ret = "ok"
  <2>1. /\ r \notin asleep /\ fifo # <<>> /\ fifo' = Tail(fifo) /\ Signal
        /\ UNCHANGED <<err_send, err_recv>>
    BY <1>1, <1>2, <1>5 DEF Recv, Wait
  <2>2. /\ received' = Append(received, Head(fifo))
        /\ pc' = pc \/ pc' = [pc EXCEPT ![r] = "left"]
    BY <1>2, <1>5
  <2> QED
    BY <1>1, <2>1, <2>2, RecvInductive
<1> QED
  BY <1>2, <1>3, <1>4, <1>5

\* The errors, a wait that ends by itself, and the end.
LEMMA OtherInductive ==
  ASSUME ClientsInductive,
         \/ EndOfStream \/ Abort
         \/ \E t \in Threads : Spurious(t) /\ UNCHANGED <<pc, sent, received>>
         \/ UNCHANGED clientsVars
  PROVE  ClientsInductive'
<1>1. /\ asleep' \subseteq asleep /\ UNCHANGED <<fifo, sent, received, pc>>
      /\ err_send' \in {"none", "EOF"} /\ err_recv' \in {"none", "EOF"}
      /\ err_send' # err_send => asleep' = {}
      /\ err_recv' # err_recv => asleep' = {} /\ \A s \in Senders : pc[s] = "done"
      /\ err_recv # "none" => err_recv' # "none"
  BY DEF EndOfStream, Abort, Spurious, SetErrRecv, SetErrSend, clientsVars, queue,
     ClientsInductive, ClientsTypeOK
<1>2. /\ pc' \in [Threads -> {"call", "done", "left"}]
      /\ \A s \in Senders : pc[s] # "left"
  BY <1>1 DEF ClientsInductive, ClientsTypeOK, ClientsEnd
<1> QED
  BY <1>1, <1>2, ClientsQuietInductive

LEMMA ClientsInvariance == ClientsSpec => []ClientsInductive
<1>1. ClientsInductive /\ [ClientsNext]_clientsVars => ClientsInductive'
  <2> SUFFICES ASSUME ClientsInductive, [ClientsNext]_clientsVars PROVE ClientsInductive'
    OBVIOUS
  <2>1. ASSUME NEW s \in Senders, SendStep(s) PROVE ClientsInductive'
    BY <2>1, SendStepInductive
  <2>2. ASSUME NEW r \in Receivers, RecvStep(r) PROVE ClientsInductive'
    BY <2>2, RecvStepInductive
  <2>3. CASE \/ EndOfStream \/ Abort
             \/ \E t \in Threads : Spurious(t) /\ UNCHANGED <<pc, sent, received>>
             \/ UNCHANGED clientsVars
    BY <2>3, OtherInductive
  <2> QED
    BY <2>1, <2>2, <2>3 DEF ClientsNext
<1> QED
  BY ClientsInitInductive, <1>1, PTL DEF ClientsSpec

-------------------------------------------------------------------------------
(***************************************************************************)
(* MessageClients: the theorems                                            *)
(***************************************************************************)

\* As long as a thread has not finished, one that can make a pass is awake, or an EOF
\* that wakes all is due: the one condition variable loses no wakeup for good, with
\* any senders and receivers, no more of either than the queue has places.
THEOREM WakeupsSuffice == ClientsSpec => []QueueInv
<1>1. ClientsInductive => QueueInv
  BY OneSideIsAwake DEF ClientsInductive, QueueInv
<1> QED
  BY <1>1, ClientsInvariance, PTL

\* When a receiver sees the end, the receivers have got everything that was sent, each
\* message once, those of one sender in their order.
THEOREM NothingIsLost == ClientsSpec => []NothingLostAtTheEnd
<1>1. ClientsInductive => NothingLostAtTheEnd
  <2> SUFFICES ASSUME ClientsInductive, NEW r \in Receivers, pc[r] = "done"
               PROVE  InOrder(received, sent)
    BY DEF NothingLostAtTheEnd
  <2>1. fifo = <<>> /\ received \in Seq(Messages)
    BY DEF ClientsInductive, ClientsEnd, ClientsTypeOK
  <2>2. received \o fifo = received
    BY <2>1, ConcatEmptySeq
  <2> QED
    BY <2>2 DEF ClientsInductive, InvPassed
<1> QED
  BY <1>1, ClientsInvariance, PTL

\* The part of InputInv that is inductive by itself.
Inductive == TypeOK /\ PacketsInOrder /\ InvCount /\ InvQueue /\ InvEnd

-------------------------------------------------------------------------------
(***************************************************************************)
(* InputThreads: one state or one pass                                     *)
(***************************************************************************)
LEMMA Constants ==
  /\ NELEM \in Nat /\ NELEM >= 1 /\ NPackets \in Nat /\ Loop \in Nat
  /\ Total \in Nat /\ NPackets <= Total
<1>1. NELEM \in Nat /\ NELEM >= 1 /\ NPackets \in Nat /\ Loop \in Nat
  BY NelemAssumption, InputAssumption
<1>2. \A n, l \in Nat : n * l \in Nat /\ n * (l + 1) = n * l + n
  OBVIOUS
<1>3. Total \in Nat /\ NPackets <= Total
  BY <1>1, <1>2 DEF Total
<1> QED
  BY <1>1, <1>3

LEMMA Sizes ==
  ASSUME TypeOK
  PROVE  /\ fifo \in Seq(1 .. Total) /\ consumed \in Seq(1 .. Total)
         /\ Len(fifo) \in Nat /\ Len(consumed) \in Nat /\ Len(fifo) <= NELEM
         /\ fifo = <<>> <=> Len(fifo) = 0
         /\ dropped \in Nat /\ nread \in Nat /\ position \in 0 .. NPackets
<1>1. fifo \in Seq(1 .. Total) /\ consumed \in Seq(1 .. Total) /\ Len(fifo) <= NELEM
  BY DEF TypeOK
<1>2. dropped \in Nat /\ nread \in Nat /\ position \in 0 .. NPackets
  BY Constants DEF TypeOK
<1> QED
  BY <1>1, <1>2, LenProperties, EmptySeq

\* Taking the oldest message.
LEMMA TakeHead ==
  ASSUME TypeOK, fifo # <<>>
  PROVE  /\ Head(fifo) = fifo[1] /\ Head(fifo) \in 1 .. Total /\ Len(fifo) >= 1
         /\ Tail(fifo) \in Seq(1 .. Total) /\ Len(Tail(fifo)) = Len(fifo) - 1
         /\ \A k \in 1 .. Len(Tail(fifo)) : Tail(fifo)[k] = fifo[k + 1]
<1>1. fifo \in Seq(1 .. Total) /\ Len(fifo) \in Nat /\ Len(fifo) # 0
  BY Sizes
<1>2. Head(fifo) = fifo[1]
  BY SMT DEF TypeOK
<1>3. Len(fifo) >= 1
  BY <1>1
<1>4. /\ Head(fifo) \in 1 .. Total /\ Tail(fifo) \in Seq(1 .. Total)
      /\ Len(Tail(fifo)) = Len(fifo) - 1
      /\ \A k \in 1 .. Len(Tail(fifo)) : Tail(fifo)[k] = fifo[k + 1]
  BY <1>1, HeadTailProperties, Zenon
<1> QED
  BY <1>2, <1>3, <1>4

LEMMA SignalWakes ==
  ASSUME Signal PROVE asleep' \subseteq asleep
BY DEF Signal

\* The numbers of the packets so far, in order, and the next one.
LEMMA NextInOrder ==
  ASSUME NEW s \in Seq(1 .. Total), s = [k \in 1 .. Len(s) |-> k],
         Len(s) + 1 \in 1 .. Total, NEW t, t = Append(s, Len(s) + 1)
  PROVE  /\ t \in Seq(1 .. Total) /\ Len(t) = Len(s) + 1
         /\ t = [k \in 1 .. Len(t) |-> k]
<1>1. Len(s) \in Nat
  BY LenProperties
<1>2. /\ t \in Seq(1 .. Total) /\ Len(t) = Len(s) + 1 /\ t[Len(s) + 1] = Len(s) + 1
      /\ \A k \in 1 .. Len(s) : t[k] = s[k]
  BY <1>1, AppendProperties
<1>3. \A k \in 1 .. Len(s) : s[k] = k
  OBVIOUS
<1>4. \A k \in 1 .. Len(t) : t[k] = k
  BY <1>1, <1>2, <1>3
<1>5. t = [k \in 1 .. Len(t) |-> t[k]]
  BY <1>2, LenProperties
<1> QED
  BY <1>2, <1>4, <1>5

\* Who has noticed the end of the file has got everything.
LEMMA EndIsNoticedLast ==
  ASSUME Inductive PROVE InputInv
<1>1. EofAfterAllPackets
  BY Sizes DEF Inductive, InvEnd, InvQueue, InvCount, EofAfterAllPackets
<1> QED
  BY <1>1 DEF Inductive, InputInv

-------------------------------------------------------------------------------
(***************************************************************************)
(* InputThreads: the invariant, action by action                           *)
(***************************************************************************)
LEMMA InitInductive == Init => Inductive
<1> SUFFICES ASSUME Init PROVE Inductive
  OBVIOUS
<1>1. /\ fifo = <<>> /\ consumed = <<>> /\ err_send = "none" /\ err_recv = "none" /\ asleep = {}
      /\ main = "init" /\ it = "none" /\ in_thread_queue = "NULL" /\ alloc_ret = "none"
      /\ non_blocking \in BOOLEAN /\ flags = non_blocking /\ position = 0 /\ nread = 0
      /\ loop = Loop /\ eof_reached = FALSE /\ eagain = FALSE /\ dropped = 0
  BY DEF Init, QueueInit
<1>2. <<>> \in Seq(1 .. Total) /\ Len(<<>>) = 0
  BY EmptySeq
<1>3. TypeOK
  <2>1. fifo \in Seq(1 .. Total) /\ consumed \in Seq(1 .. Total) /\ Len(fifo) <= NELEM
    BY <1>1, <1>2, Constants
  <2>2. /\ position \in 0 .. NPackets /\ nread \in 0 .. Total /\ loop \in 0 .. Loop
        /\ dropped \in 0 .. Total
    BY <1>1, Constants
  <2> QED
    BY <1>1, <2>1, <2>2 DEF TypeOK
<1>4. PacketsInOrder
  <2>1. consumed = [k \in 1 .. Len(consumed) |-> consumed[k]]
    BY <1>3, LenProperties DEF TypeOK
  <2>2. \A k \in 1 .. Len(consumed) : consumed[k] = k
    BY <1>1, <1>2
  <2> QED
    BY <2>1, <2>2 DEF PacketsInOrder
<1>5. Len(fifo) = 0 /\ Len(consumed) = 0
  BY <1>1, <1>2
<1>6. InvCount
  BY <1>1, <1>5, Constants DEF InvCount
<1>7. InvQueue /\ InvEnd
  BY <1>1, <1>5 DEF InvQueue, InvEnd
<1> QED
  BY <1>3, <1>4, <1>6, <1>7 DEF Inductive

\* The packets and the queue are left alone.
LEMMA QuietInductive ==
  ASSUME Inductive, UNCHANGED <<fifo, consumed, dropped, nread>>,
         TypeOK', InvEnd',
         it' \in {"send", "fail"} <=> it \in {"send", "fail"},
         it' # "exit" => position' = position /\ it # "exit",
         it' = "none" => it = "none",
         main \in {"drain", "join", "freed"} => main' \in {"drain", "join", "freed"}
  PROVE  Inductive'
<1>1. PacketsInOrder'
  BY DEF Inductive, PacketsInOrder
<1>2. InvCount'
  BY DEF Inductive, InvCount
<1>3. InvQueue'
  BY DEF Inductive, InvQueue
<1> QED
  BY <1>1, <1>2, <1>3 DEF Inductive

LEMMA AllocQueueInductive ==
  ASSUME Inductive, AllocQueue PROVE Inductive'
<1>1. TypeOK'
  BY DEF AllocQueue, Inductive, TypeOK, queue, reader
<1>2. InvEnd'
  BY DEF AllocQueue, Inductive, InvEnd, queue, reader
<1> QED
  BY <1>1, <1>2, QuietInductive DEF AllocQueue, queue, reader

LEMMA CreateThreadInductive ==
  ASSUME Inductive, CreateThread PROVE Inductive'
<1>1. TypeOK'
  BY DEF CreateThread, Inductive, TypeOK, queue, file
<1>2. InvEnd'
  BY DEF CreateThread, Inductive, InvEnd, queue, file
<1> QED
  BY <1>1, <1>2, QuietInductive DEF CreateThread, Inductive, InvEnd, queue, file

LEMMA CreateThreadFailsInductive ==
  ASSUME Inductive, CreateThreadFails PROVE Inductive'
<1>1. TypeOK'
  BY DEF CreateThreadFails, Inductive, TypeOK, queue, file, reader
<1>2. InvEnd'
  BY DEF CreateThreadFails, Inductive, InvEnd, queue, file, reader
<1> QED
  BY <1>1, <1>2, QuietInductive DEF CreateThreadFails, queue, file, reader

LEMMA ReadPacketInductive ==
  ASSUME Inductive, ReadPacket PROVE Inductive'
<1>1. /\ it = "read" /\ it' = "send" /\ position < NPackets /\ position' = position + 1
      /\ nread' = nread + 1 /\ position = nread /\ position \in Nat
      /\ UNCHANGED <<fifo, err_send, err_recv, asleep, main, in_thread_queue, alloc_ret,
                     non_blocking, loop, eof_reached, eagain, flags, consumed, dropped>>
  BY Sizes DEF ReadPacket, Inductive, InvCount, queue, file
<1>2. TypeOK'
  BY <1>1, Constants DEF Inductive, TypeOK
<1>3. PacketsInOrder' /\ InvQueue'
  BY <1>1 DEF Inductive, PacketsInOrder, InvQueue
<1>4. InvCount'
  BY <1>1, Constants, Sizes DEF Inductive, InvCount
<1>5. InvEnd'
  BY <1>1 DEF Inductive, InvEnd
<1> QED
  BY <1>2, <1>3, <1>4, <1>5 DEF Inductive

LEMMA ReadFailsInductive ==
  ASSUME Inductive, NEW err \in {"EOF", "EIO"}, ReadFails(err) PROVE Inductive'
<1>1. /\ it = "read" /\ it' = "exit" /\ err_recv' = err /\ asleep' = {}
      /\ UNCHANGED <<fifo, err_send, main, in_thread_queue, alloc_ret, non_blocking, loop,
                     eof_reached, eagain, flags, position, nread, consumed, dropped>>
  BY DEF ReadFails, SetErrRecv, file
<1>2. TypeOK'
  BY <1>1 DEF Inductive, TypeOK
<1>3. InvEnd'
  BY <1>1 DEF Inductive, InvEnd
<1> QED
  BY <1>1, <1>2, <1>3, QuietInductive

\* The packet goes into the queue, or stays in the reader's hand.
LEMMA SendPacketInductive ==
  ASSUME Inductive, SendPacket PROVE Inductive'
<1>1. PICK ret \in {"ok", "sleep", "EAGAIN", "EOF"} :
        /\ Send(Reader, nread, flags, ret)
        /\ it' = CASE ret = "ok" -> "read" [] ret = "EOF" -> "fail" [] OTHER -> "send"
        /\ flags' = (flags /\ ret # "EAGAIN")
  BY DEF SendPacket
<1>2. /\ it = "send"
      /\ UNCHANGED <<main, in_thread_queue, alloc_ret, non_blocking, loop, eof_reached, eagain,
                     position, nread, consumed, dropped>>
  BY DEF SendPacket, file
<1>3. flags' \in BOOLEAN
  BY <1>1 DEF Inductive, TypeOK
<1>4. CASE SendMustWait /\ Wait(Reader, flags, ret)
  <2>1. /\ it' = "send" /\ asleep' \subseteq asleep \cup {Reader}
        /\ UNCHANGED <<fifo, err_send, err_recv>>
    BY <1>1, <1>4 DEF Wait, queue
  <2>2. TypeOK'
    BY <1>2, <1>3, <2>1 DEF Inductive, TypeOK
  <2>3. InvEnd'
    BY <1>2, <2>1 DEF Inductive, InvEnd
  <2> QED
    BY <1>2, <2>1, <2>2, <2>3, QuietInductive
<1>5. CASE err_send # "none" /\ ret = err_send /\ UNCHANGED queue
  <2>1. it' = "fail" /\ err_send = "EOF" /\ UNCHANGED <<fifo, err_send, err_recv, asleep>>
    BY <1>1, <1>5 DEF queue, Inductive, TypeOK
  <2>2. TypeOK'
    BY <1>2, <1>3, <2>1 DEF Inductive, TypeOK
  <2>3. InvEnd'
    BY <1>2, <2>1 DEF Inductive, InvEnd
  <2> QED
    BY <1>2, <2>1, <2>2, <2>3, QuietInductive
<1>6. CASE /\ ~SendMustWait /\ err_send = "none" /\ ret = "ok" /\ fifo' = Append(fifo, nread)
           /\ Signal /\ UNCHANGED <<err_send, err_recv>>
  <2>1. it' = "read" /\ asleep' \subseteq asleep
    BY <1>1, <1>6, SignalWakes
  <2>2. /\ nread = Len(consumed) + dropped + Len(fifo) + 1 /\ nread \in 1 .. Total
        /\ Len(fifo) < NELEM
    BY <1>2, <1>6, Sizes, Constants DEF Inductive, InvCount, SendMustWait
  <2>3. /\ fifo' \in Seq(1 .. Total) /\ Len(fifo') = Len(fifo) + 1
        /\ fifo'[Len(fifo) + 1] = nread /\ \A k \in 1 .. Len(fifo) : fifo'[k] = fifo[k]
    BY <1>6, <2>2, Sizes, AppendProperties DEF Inductive
  <2>4. TypeOK'
    BY <1>2, <1>3, <1>6, <2>1, <2>2, <2>3, Sizes, Constants DEF Inductive, TypeOK
  <2>5. PacketsInOrder'
    BY <1>2 DEF Inductive, PacketsInOrder
  <2>6. InvCount'
    BY <1>2, <2>1, <2>2, <2>3, Sizes DEF Inductive, InvCount
  <2>7. InvQueue'
    <3>1. main \notin {"drain", "join", "freed"} =>
            dropped = 0 /\ nread = Len(consumed) + (Len(fifo) + 1)
            /\ \A k \in 1 .. Len(fifo) : fifo[k] = Len(consumed) + k
      BY <2>2, Sizes DEF Inductive, InvQueue
    <3>2. \A k \in 1 .. Len(fifo') : k \in 1 .. Len(fifo) \/ k = Len(fifo) + 1
      BY <2>3, Sizes DEF Inductive
    <3> QED
      BY <1>2, <2>3, <3>1, <3>2 DEF InvQueue
  <2>8. InvEnd'
    BY <1>2, <1>6, <2>1 DEF Inductive, InvEnd
  <2> QED
    BY <2>4, <2>5, <2>6, <2>7, <2>8 DEF Inductive
<1> QED
  BY <1>1, <1>4, <1>5, <1>6 DEF Send

LEMMA SendFailedInductive ==
  ASSUME Inductive, SendFailed PROVE Inductive'
<1>1. /\ it = "fail" /\ it' = "exit" /\ dropped' = dropped + 1 /\ err_send = "EOF"
      /\ err_recv' = "EOF" /\ asleep' = {}
      /\ UNCHANGED <<fifo, err_send, main, in_thread_queue, alloc_ret, non_blocking, loop,
                     eof_reached, eagain, flags, position, nread, consumed>>
  BY DEF SendFailed, SetErrRecv, file, Inductive, InvEnd
<1>2. main \in {"drain", "join", "freed"}
  BY <1>1 DEF Inductive, InvEnd
<1>3. InvCount'
  BY <1>1, Sizes DEF Inductive, InvCount
<1>4. TypeOK'
  <2>1. dropped' \in 0 .. Total
    BY <1>1, Sizes, Constants DEF Inductive, InvCount
  <2> QED
    BY <1>1, <2>1 DEF Inductive, TypeOK
<1>5. PacketsInOrder' /\ InvQueue'
  BY <1>1, <1>2 DEF Inductive, PacketsInOrder, InvQueue
<1>6. InvEnd'
  BY <1>1 DEF Inductive, InvEnd
<1> QED
  BY <1>3, <1>4, <1>5, <1>6 DEF Inductive

LEMMA IdleInductive ==
  ASSUME Inductive, StartRead \/ NotDue \/ ResetEagain \/ StopTranscoding PROVE Inductive'
<1>1. /\ main = "idle" /\ main' \in {"idle", "recv", "stop"} /\ eagain' \in BOOLEAN
      /\ UNCHANGED <<queue, in_thread_queue, alloc_ret, non_blocking, loop, eof_reached,
                     reader, consumed, dropped>>
  BY DEF StartRead, NotDue, ResetEagain, StopTranscoding, file, Inductive, TypeOK
<1>2. TypeOK'
  BY <1>1 DEF Inductive, TypeOK, queue, reader
<1>3. InvEnd'
  BY <1>1 DEF Inductive, InvEnd, queue, reader
<1> QED
  BY <1>1, <1>2, <1>3, QuietInductive DEF queue, reader

\* A packet reaches the decoders: it is the next one.
LEMMA ConsumeInductive ==
  ASSUME Inductive, main \in {"recv", "reread"}, main' = "idle", eagain' \in BOOLEAN,
         fifo # <<>>, fifo' = Tail(fifo), Signal, consumed' = Append(consumed, Head(fifo)),
         UNCHANGED <<err_send, err_recv, in_thread_queue, alloc_ret, non_blocking, loop,
                     eof_reached, reader, dropped>>
  PROVE  Inductive'
<1>1. /\ Head(fifo) = Len(consumed) + 1 /\ Head(fifo) \in 1 .. Total /\ Len(fifo) >= 1
      /\ fifo' \in Seq(1 .. Total) /\ Len(fifo') = Len(fifo) - 1
      /\ \A k \in 1 .. Len(fifo') : fifo'[k] = fifo[k + 1]
  BY TakeHead, Sizes DEF Inductive, InvQueue
<1>2. consumed \in Seq(1 .. Total) /\ consumed = [k \in 1 .. Len(consumed) |-> k]
  BY Sizes DEF Inductive, PacketsInOrder
<1>3. /\ consumed' \in Seq(1 .. Total) /\ Len(consumed') = Len(consumed) + 1
      /\ consumed' = [k \in 1 .. Len(consumed') |-> k]
  BY <1>1, <1>2, NextInOrder
<1>4. TypeOK'
  <2>1. asleep' \subseteq asleep /\ Len(fifo') <= NELEM
    BY <1>1, SignalWakes, Sizes, Constants DEF Inductive
  <2> QED
    BY <1>1, <1>3, <2>1 DEF Inductive, TypeOK, reader
<1>5. PacketsInOrder'
  BY <1>3 DEF PacketsInOrder
<1>6. InvCount'
  BY <1>1, <1>3, Sizes DEF Inductive, InvCount, reader
<1>7. InvQueue'
  BY <1>1, <1>3, Sizes DEF Inductive, InvQueue
<1>8. InvEnd'
  BY DEF Inductive, InvEnd, reader
<1> QED
  BY <1>4, <1>5, <1>6, <1>7, <1>8 DEF Inductive

\* An error is only delivered when the reader has returned and the queue is empty.
LEMMA ErrorIsLast ==
  ASSUME Inductive, ~RecvMustWait, fifo = <<>>
  PROVE  it = "exit" /\ err_recv \in {"EOF", "EIO"}
BY DEF RecvMustWait, Inductive, InvEnd, TypeOK

LEMMA GetPacketInductive ==
  ASSUME Inductive, GetPacket PROVE Inductive'
<1>1. PICK ret \in {"ok", "sleep", "EAGAIN", "EOF", "EIO"} :
        /\ Recv(Main, non_blocking, ret)
        /\ consumed' = IF ret = "ok" THEN Append(consumed, Head(fifo)) ELSE consumed
        /\ eagain' = NewEagain(ret)
        /\ \/ ret = "sleep" /\ UNCHANGED <<main, eof_reached>>
           \/ ret \in {"ok", "EAGAIN"} /\ main' = "idle" /\ UNCHANGED eof_reached
           \/ ret \in {"EOF", "EIO"} /\ loop # 0 /\ main' = "seek" /\ UNCHANGED eof_reached
           \/ ret \in {"EOF", "EIO"} /\ loop = 0 /\ InputEnded(ret)
  BY DEF GetPacket
<1>2. /\ main = "recv"
      /\ UNCHANGED <<in_thread_queue, alloc_ret, non_blocking, loop, reader, dropped>>
  BY DEF GetPacket
<1>3. eagain' \in BOOLEAN
  BY <1>1 DEF NewEagain, Inductive, TypeOK
<1>4. CASE RecvMustWait /\ Wait(Main, non_blocking, ret)
  <2>1. /\ ret \in {"sleep", "EAGAIN"} /\ asleep' \subseteq asleep \cup {Main}
        /\ UNCHANGED <<fifo, err_send, err_recv>>
    BY <1>4 DEF Wait, queue
  <2>2. UNCHANGED <<consumed, eof_reached>> /\ main' \in {"recv", "idle"}
    BY <1>1, <1>2, <2>1
  <2>3. TypeOK'
    BY <1>2, <1>3, <2>1, <2>2 DEF Inductive, TypeOK, reader
  <2>4. InvEnd'
    BY <1>2, <2>1, <2>2 DEF Inductive, InvEnd, reader
  <2> QED
    BY <1>2, <2>1, <2>2, <2>3, <2>4, QuietInductive DEF reader
<1>5. CASE ~RecvMustWait /\ fifo = <<>> /\ ret = err_recv /\ UNCHANGED queue
  <2>1. /\ it = "exit" /\ ret \in {"EOF", "EIO"}
        /\ UNCHANGED <<fifo, err_send, err_recv, asleep>>
    BY <1>5, ErrorIsLast DEF queue
  <2>2. /\ consumed' = consumed /\ eof_reached' \in BOOLEAN
        /\ main' \in {"idle", "seek", "stop"} /\ (main' = "seek" => loop # 0)
    BY <1>1, <2>1 DEF InputEnded, Inductive, TypeOK
  <2>3. TypeOK'
    BY <1>2, <1>3, <2>1, <2>2 DEF Inductive, TypeOK, reader
  <2>4. InvEnd'
    <3>1. main' = "seek" => loop' > 0
      BY <1>2, <2>2, Constants DEF Inductive, TypeOK
    <3> QED
      BY <1>2, <1>5, <2>1, <2>2, <3>1 DEF Inductive, InvEnd, reader
  <2> QED
    BY <1>2, <2>1, <2>2, <2>3, <2>4, QuietInductive DEF reader
<1>6. CASE /\ fifo # <<>> /\ ret = "ok" /\ fifo' = Tail(fifo) /\ Signal
           /\ UNCHANGED <<err_send, err_recv>>
  BY <1>1, <1>2, <1>3, <1>6, ConsumeInductive
<1> QED
  BY <1>1, <1>4, <1>5, <1>6 DEF Recv

LEMMA GetPacketAgainInductive ==
  ASSUME Inductive, GetPacketAgain PROVE Inductive'
<1>1. PICK ret \in {"ok", "sleep", "EAGAIN", "EOF", "EIO"} :
        /\ Recv(Main, non_blocking, ret)
        /\ consumed' = IF ret = "ok" THEN Append(consumed, Head(fifo)) ELSE consumed
        /\ eagain' = IF ret = "ok" THEN FALSE ELSE eagain
        /\ \/ ret = "sleep" /\ UNCHANGED <<main, eof_reached>>
           \/ ret = "ok" /\ main' = "idle" /\ UNCHANGED eof_reached
           \/ ret \notin {"ok", "sleep"} /\ InputEnded(ret)
  BY DEF GetPacketAgain
<1>2. /\ main = "reread" /\ it = "exit" /\ fifo = <<>> /\ err_recv \in {"EOF", "EIO"}
      /\ UNCHANGED <<in_thread_queue, alloc_ret, non_blocking, loop, reader, dropped>>
  BY DEF GetPacketAgain, Inductive, InvEnd, TypeOK
<1>3. eagain' \in BOOLEAN
  BY <1>1 DEF Inductive, TypeOK
<1>4. ret = err_recv /\ UNCHANGED <<fifo, err_send, err_recv, asleep>>
  BY <1>1, <1>2 DEF Recv, RecvMustWait, queue
<1>5. UNCHANGED consumed /\ eof_reached' \in BOOLEAN /\ main' \in {"idle", "stop"}
  BY <1>1, <1>2, <1>4 DEF InputEnded, Inductive, TypeOK
<1>6. TypeOK'
  BY <1>2, <1>3, <1>4, <1>5 DEF Inductive, TypeOK, reader
<1>7. InvEnd'
  BY <1>2, <1>4, <1>5 DEF Inductive, InvEnd, reader
<1> QED
  BY <1>2, <1>4, <1>5, <1>6, <1>7, QuietInductive DEF reader

LEMMA SeekInductive ==
  ASSUME Inductive, SeekToStart \/ SeekButNotDue \/ SeekFails PROVE Inductive'
<1>1. /\ main = "seek" /\ it = "exit" /\ fifo = <<>> /\ main' \in {"reread", "idle", "stop"}
      /\ position' \in {position, 0} /\ loop' \in {loop, loop - 1} /\ eof_reached' \in BOOLEAN
      /\ UNCHANGED <<queue, in_thread_queue, alloc_ret, non_blocking, eagain, it, flags,
                     nread, consumed, dropped>>
  BY DEF SeekToStart, SeekButNotDue, SeekFails, InputEnded, file, reader, Inductive,
     InvEnd,
         TypeOK
<1>2. position' \in 0 .. NPackets /\ loop' \in 0 .. Loop
  BY <1>1, Constants DEF Inductive, TypeOK, InvEnd
<1>3. TypeOK'
  BY <1>1, <1>2 DEF Inductive, TypeOK, queue
<1>4. InvEnd'
  BY <1>1 DEF Inductive, InvEnd, queue
<1> QED
  BY <1>1, <1>3, <1>4, QuietInductive DEF queue

LEMMA StopSendersInductive ==
  ASSUME Inductive, StopSenders PROVE Inductive'
<1>1. /\ main = "stop" /\ main' = "drain" /\ err_send' = "EOF" /\ asleep' = {}
      /\ UNCHANGED <<fifo, err_recv, in_thread_queue, file, reader, consumed, dropped>>
  BY DEF StopSenders, SetErrSend
<1>2. TypeOK'
  BY <1>1 DEF Inductive, TypeOK, file, reader
<1>3. InvEnd'
  BY <1>1 DEF Inductive, InvEnd, file, reader
<1> QED
  BY <1>1, <1>2, <1>3, QuietInductive DEF reader

\* Shutting down, the packets left are unreferenced one by one.
LEMMA DrainInductive ==
  ASSUME Inductive, Drain PROVE Inductive'
<1>1. PICK ret \in {"ok", "sleep", "EOF", "EIO"} :
        /\ Recv(Main, FALSE, ret)
        /\ dropped' = IF ret = "ok" THEN dropped + 1 ELSE dropped
        /\ main' = IF ret \in {"EOF", "EIO"} THEN "join" ELSE "drain"
  BY DEF Drain
<1>2. main = "drain" /\ UNCHANGED <<in_thread_queue, file, reader, consumed>>
  BY DEF Drain
<1>3. CASE RecvMustWait /\ Wait(Main, FALSE, ret)
  <2>1. /\ ret = "sleep" /\ asleep' \subseteq asleep \cup {Main}
        /\ UNCHANGED <<fifo, err_send, err_recv>>
    BY <1>3 DEF Wait
  <2>2. dropped' = dropped /\ main' = "drain"
    BY <1>1, <2>1
  <2>3. TypeOK'
    BY <1>2, <2>1, <2>2 DEF Inductive, TypeOK, file, reader
  <2>4. InvEnd'
    BY <1>2, <2>1, <2>2 DEF Inductive, InvEnd, file, reader
  <2> QED
    BY <1>2, <2>1, <2>2, <2>3, <2>4, QuietInductive DEF reader
<1>4. CASE ~RecvMustWait /\ fifo = <<>> /\ ret = err_recv /\ UNCHANGED queue
  <2>1. /\ it = "exit" /\ ret \in {"EOF", "EIO"}
        /\ UNCHANGED <<fifo, err_send, err_recv, asleep>>
    BY <1>4, ErrorIsLast DEF queue
  <2>2. dropped' = dropped /\ main' = "join"
    BY <1>1, <2>1
  <2>3. TypeOK'
    BY <1>2, <2>1, <2>2 DEF Inductive, TypeOK, file, reader
  <2>4. InvEnd'
    BY <1>2, <1>4, <2>1, <2>2 DEF Inductive, InvEnd, file, reader
  <2> QED
    BY <1>2, <2>1, <2>2, <2>3, <2>4, QuietInductive DEF reader
<1>5. CASE /\ fifo # <<>> /\ ret = "ok" /\ fifo' = Tail(fifo) /\ Signal
           /\ UNCHANGED <<err_send, err_recv>>
  <2>1. dropped' = dropped + 1 /\ main' = "drain" /\ asleep' \subseteq asleep
    BY <1>1, <1>5, SignalWakes
  <2>2. fifo' \in Seq(1 .. Total) /\ Len(fifo') = Len(fifo) - 1 /\ Len(fifo) >= 1
    BY <1>5, TakeHead DEF Inductive
  <2>3. InvCount'
    BY <1>2, <2>1, <2>2, Sizes DEF Inductive, InvCount, reader
  <2>4. TypeOK'
    <3>0. dropped + Len(fifo) <= nread /\ nread <= NPackets
      BY Sizes DEF Inductive, InvCount
    <3>1. Len(fifo) \in Nat /\ Len(fifo) <= NELEM /\ dropped \in Nat /\ nread \in Nat
      BY Sizes DEF Inductive
    <3>2. dropped' \in 0 .. Total /\ Len(fifo') <= NELEM
      BY <2>1, <2>2, <3>0, <3>1, Constants
    <3> QED
      BY <1>2, <1>5, <2>1, <2>2, <3>2 DEF Inductive, TypeOK, file, reader
  <2>5. PacketsInOrder' /\ InvQueue'
    BY <1>2, <2>1 DEF Inductive, PacketsInOrder, InvQueue
  <2>6. InvEnd'
    BY <1>2, <1>5, <2>1 DEF Inductive, InvEnd, file, reader
  <2> QED
    BY <2>3, <2>4, <2>5, <2>6 DEF Inductive
<1> QED
  BY <1>1, <1>3, <1>4, <1>5 DEF Recv

LEMMA FreedInductive ==
  ASSUME Inductive, JoinAndFree \/ NothingToFree PROVE Inductive'
<1>1. /\ main \in {"join", "fail"} /\ main' = "freed"
      /\ in_thread_queue' \in {in_thread_queue, "NULL"}
      /\ UNCHANGED <<queue, file, reader, consumed, dropped>>
  BY DEF JoinAndFree, NothingToFree
<1>2. it \in {"none", "exit"} /\ fifo = <<>>
  <2>1. CASE main = "join"
    BY <2>1 DEF Inductive, InvEnd
  <2>2. CASE main = "fail"
    <3>1. it = "none" /\ nread = 0
      BY <2>2 DEF Inductive, InvEnd, InvCount
    <3> QED
      BY <3>1, Sizes DEF Inductive, InvCount
  <2> QED
    BY <1>1, <2>1, <2>2
<1>3. TypeOK'
  BY <1>1 DEF Inductive, TypeOK, queue, file, reader
<1>4. InvEnd'
  BY <1>1, <1>2 DEF Inductive, InvEnd, queue, file, reader
<1> QED
  BY <1>1, <1>3, <1>4, QuietInductive DEF queue, reader

LEMMA SpuriousInductive ==
  ASSUME Inductive, NEW t \in {Main, Reader}, Spurious(t),
         UNCHANGED <<main, in_thread_queue, file, reader, consumed, dropped>>
  PROVE  Inductive'
<1>1. asleep' \subseteq asleep /\ UNCHANGED <<fifo, err_send, err_recv>>
  BY DEF Spurious
<1>2. TypeOK'
  BY <1>1 DEF Inductive, TypeOK, file, reader
<1>3. InvEnd'
  BY <1>1 DEF Inductive, InvEnd, file, reader
<1> QED
  BY <1>1, <1>2, <1>3, QuietInductive DEF reader

LEMMA StepInductive ==
  ASSUME Inductive, [Next]_vars PROVE Inductive'
<1>1. CASE UNCHANGED vars
  <2>1. TypeOK'
    BY <1>1 DEF Inductive, TypeOK, vars, queue, file, reader
  <2>2. InvEnd'
    BY <1>1 DEF Inductive, InvEnd, vars, queue, file, reader
  <2> QED
    BY <1>1, <2>1, <2>2, QuietInductive DEF vars, queue, reader
<1>2. CASE ReaderStep
  BY <1>2, ReadPacketInductive, ReadFailsInductive, SendPacketInductive,
     SendFailedInductive
     DEF ReaderStep
<1>3. CASE ReadStep
  BY <1>3, GetPacketInductive, GetPacketAgainInductive, SeekInductive DEF ReadStep
<1>4. CASE FreeStep
  BY <1>4, StopSendersInductive, DrainInductive, FreedInductive DEF FreeStep
<1>5. CASE AllocQueue \/ CreateThread \/ CreateThreadFails \/ NothingToFree
  BY <1>5, AllocQueueInductive, CreateThreadInductive, CreateThreadFailsInductive,
     FreedInductive
<1>6. CASE StartRead \/ NotDue \/ ResetEagain \/ StopTranscoding
  BY <1>6, IdleInductive
<1>7. CASE \E t \in {Main, Reader} :
             Spurious(t) /\ UNCHANGED <<main, in_thread_queue, file, reader, consumed, dropped>>
  BY <1>7, SpuriousInductive
<1> QED
  BY <1>1, <1>2, <1>3, <1>4, <1>5, <1>6, <1>7 DEF Next

-------------------------------------------------------------------------------
(***************************************************************************)
(* InputThreads: the theorems                                              *)
(***************************************************************************)

LEMMA InductiveHolds == Spec => []Inductive
<1>1. Inductive /\ [Next]_vars => Inductive'
  BY StepInductive
<1> QED
  BY <1>1, InitInductive, PTL DEF Spec

\* Packets reach the decoders in file order (input_thread sends them so), and the end
\* of the file is noticed after all of them, for any queue and number of passes.
THEOREM InputInvariance == Spec => []InputInv
<1>1. Inductive => InputInv
  BY EndIsNoticedLast
<1> QED
  BY <1>1, InductiveHolds, PTL

\* free_input_threads() leaves no packet behind, neither in the queue nor with the
\* reader, wherever the two threads were when the main loop ended.
THEOREM NoPacketIsLeaked == Spec => []NoPacketLeaked
<1>1. Inductive => NoPacketLeaked
  <2> SUFFICES ASSUME Inductive, main = "freed" PROVE fifo = <<>> /\ nread = Len(consumed) + dropped
    BY DEF NoPacketLeaked
  <2>1. it \in {"none", "exit"} /\ fifo = <<>>
    BY DEF Inductive, InvEnd
  <2> QED
    BY <2>1, Sizes DEF Inductive, InvCount
<1> QED
  BY <1>1, InductiveHolds, PTL
===============================================================================
