------------------------------- MODULE RtpReorder -------------------------------
(***************************************************************************)
(* The reordering of received RTP packets: the queue of an RTPDemuxContext *)
(* (libavformat/rtpdec.c) and the loop that feeds it, ff_rtsp_fetch_packet *)
(* (libavformat/rtsp.c).                                                   *)
(*                                                                         *)
(* The network loses, duplicates and reorders packets.  A packet that      *)
(* follows the last one parsed is parsed at once; one that is ahead waits  *)
(* in the queue until the gap is filled, the queue is full or max_delay    *)
(* has passed; one that is behind is dropped.  Sequence numbers wrap, and  *)
(* "ahead" is the sign of a difference of their width.                     *)
(*                                                                         *)
(* Packets are numbered 1, 2, ... as they were sent.  What a payload       *)
(* handler makes of a packet is abstract: no frame yet (Again), an error,  *)
(* the last frame in it (0), or a frame with more to be asked for (1).     *)
(***************************************************************************)
EXTENDS Integers, Sequences, SequencesExt

CONSTANTS
  Count,      \* packets the sender sends
  First,      \* sequence number of packet 0
  M,          \* RTP_SEQ_MOD: sequence numbers are 0 .. M - 1
  Dropout,    \* MAX_DROPOUT
  Misorder,   \* MAX_MISORDER
  QueueSize,  \* queue_size
  Window,     \* bound: a packet is overtaken by less than Window later ones
  MaxDups,    \* bound on the packets the network duplicates
  MaxRest     \* bound on the frames a handler has left of a packet

ASSUME RtpReorderAssumption ==
  /\ {Count, Dropout, Misorder, QueueSize, MaxDups, MaxRest} \subseteq Nat
  /\ M \in Nat \ {0} /\ First \in 0 .. (M - 1)
  /\ Window \in 1 .. (M \div 2 - 1)

VARIABLES
  sent, flight, dups,            \* packets sent, in flight; duplicates so far
  seq, queue, prev_ret,          \* RTPDemuxContext; queued packets by number
  max_seq, bad_seq, probation,   \* RTPStatistics
  rest,                          \* frames the handler has left of its last packet
  pc, rv,                        \* "parse": inside ff_rtp_parse_packet(); its rv
  more,                          \* cur_transport_priv is set
  parsed, last                   \* packets parsed since the first; the last one (0: none)

network == <<sent, flight, dups>>
stats == <<max_seq, bad_seq, probation>>
history == <<parsed, last>>
vars == <<network, seq, queue, prev_ret, stats, rest, pc, rv, more, history>>

Again == -2      \* AVERROR(EAGAIN)
Error == -1

Init ==
  /\ sent = 0 /\ flight = {} /\ dups = 0
  /\ seq = 0 /\ queue = <<>> /\ prev_ret = 0
  /\ max_seq = 0 /\ bad_seq = 0 /\ probation = 1
  /\ rest = 0 /\ pc = "idle" /\ rv = 0 /\ more = FALSE
  /\ parsed = {} /\ last = 0

Seq16(i) == (First + i) % M

\* Difference of two sequence numbers as a signed integer of their width.
Diff(a, b) == LET d == (a - b) % M IN IF 2 * d >= M THEN d - M ELSE d

-------------------------------------------------------------------------------
(***************************************************************************)
(* The network                                                             *)
(***************************************************************************)
receiver == <<seq, queue, prev_ret, stats, rest, pc, rv, more, history>>

Send ==
  /\ sent < Count
  /\ \A i \in flight : sent + 1 - i < Window
  /\ sent' = sent + 1 /\ flight' = flight \cup {sent + 1}
  /\ UNCHANGED <<dups, receiver>>

Lose(i) ==
  /\ flight' = flight \ {i}
  /\ UNCHANGED <<sent, dups, receiver>>

\* Packet i arrives; a copy of it may still be in flight.
Arrives(i) ==
  /\ UNCHANGED sent
  /\ \/ flight' = flight \ {i} /\ UNCHANGED dups
     \/ dups < MaxDups /\ dups' = dups + 1 /\ UNCHANGED flight

-------------------------------------------------------------------------------
(***************************************************************************)
(* rtp_valid_packet_in_sequence()                                          *)
(***************************************************************************)
Ahead(n) == (n - max_seq) % M

InSequence(n) ==
  \/ probation = 1
  \/ Ahead(n) < Dropout \/ Ahead(n) > M - Misorder
  \/ n = bad_seq

\* The first two packets in a row end the probation; a large jump is believed
\* when the packet after it comes.
UpdateStats(n) ==
  LET jumped == probation = 0 /\ Ahead(n) >= Dropout /\ Ahead(n) <= M - Misorder
      inits == (probation = 1 /\ n = max_seq + 1) \/ (jumped /\ n = bad_seq)
  IN /\ probation' = IF inits THEN 0 ELSE probation
     /\ max_seq' = IF inits \/ probation = 1 \/ Ahead(n) < Dropout THEN n ELSE max_seq
     /\ bad_seq' = CASE inits -> M + 1
                     [] jumped /\ ~inits -> (n + 1) % M
                     [] OTHER -> bad_seq

-------------------------------------------------------------------------------
(***************************************************************************)
(* rtpdec.c                                                                *)
(***************************************************************************)

\* The packet is taken for the first one, or nothing is reordered.
NoReordering == (seq = 0 /\ queue = <<>>) \/ QueueSize <= 1

\* The handler gives a frame with n more to follow, or its last one, or none.
Handler(n) ==
  \/ rv' = 1 /\ rest' = n /\ n > 0
  \/ rv' \in {Again, Error, 0} /\ rest' = 0

\* rtp_parse_packet_internal(): the handler gets packet i, unless its payload is
\* of another type or its sequence number is not believed.
Parse(i) ==
  \/ rv' = Error /\ UNCHANGED <<seq, stats, rest, history>>
  \/ /\ UpdateStats(Seq16(i))
     /\ IF InSequence(Seq16(i))
          THEN /\ seq' = Seq16(i)
               /\ \E n \in 0 .. MaxRest : Handler(n)
               /\ parsed' = IF NoReordering THEN {i} ELSE parsed \cup {i}
               /\ last' = i
          ELSE rv' = Error /\ UNCHANGED <<seq, rest, history>>

\* has_next_packet()
HasNext == queue # <<>> /\ Seq16(Head(queue)) = (seq + 1) % M

\* rtp_parse_queued_packet(), with q for the queue
ParseQueued(q) ==
  IF q = <<>>
    THEN rv' = Error /\ queue' = q /\ UNCHANGED <<seq, stats, rest, history>>
    ELSE Parse(Head(q)) /\ queue' = Tail(q)

\* Variant: the sequence numbers are compared without their width.
EnqueuedUnsigned(i) ==
  LET behind == {k \in DOMAIN queue : Seq16(i) < Seq16(queue[k])}
  IN InsertAt(queue, Min(behind \cup {Len(queue) + 1}), i)

\* enqueue_packet(): the queue is sorted.
Enqueued(i) ==
  LET behind == {k \in DOMAIN queue : Diff(Seq16(i), Seq16(queue[k])) < 0}
  IN InsertAt(queue, Min(behind \cup {Len(queue) + 1}), i)

\* Variant: only packets that are behind by more than one are dropped.
TooLateByTwo(i) == Diff(Seq16(i), seq) < -1

\* Older than the packet parsed last.
TooLate(i) == Diff(Seq16(i), seq) < 0

\* rtp_parse_one_packet() with a buffer
Receive(i) ==
  /\ pc = "idle" /\ ~more
  /\ Arrives(i)
  /\ \/ /\ NoReordering \/ (~TooLate(i) /\ Diff(Seq16(i), seq) <= 1)
        /\ Parse(i) /\ UNCHANGED queue
     \/ /\ ~NoReordering /\ TooLate(i)
        /\ rv' = Error
        /\ UNCHANGED <<seq, queue, stats, rest, history>>
     \/ /\ ~NoReordering /\ Diff(Seq16(i), seq) > 1
        /\ IF Len(queue) + 1 >= QueueSize
             THEN ParseQueued(Enqueued(i))
             ELSE /\ queue' = Enqueued(i) /\ rv' = Error
                  /\ UNCHANGED <<seq, stats, rest, history>>
  /\ prev_ret' = rv'
  /\ pc' = "parse"
  /\ UNCHANGED more

\* rtp_parse_one_packet() without one: the rest of the last packet, or the queue
ReadMore ==
  /\ IF prev_ret <= 0
       THEN ParseQueued(queue)
       ELSE Handler(rest - 1) /\ UNCHANGED <<seq, queue, stats, history>>
  /\ prev_ret' = rv'
  /\ pc' = "parse"

\* ff_rtp_parse_packet(): a packet that gives no frame is followed by the next.
ParseNext ==
  /\ pc = "parse" /\ rv = Again /\ HasNext
  /\ ParseQueued(queue)
  /\ UNCHANGED <<network, prev_ret, pc, more>>

Returns ==
  /\ pc = "parse" /\ ~(rv = Again /\ HasNext)
  /\ pc' = "idle"
  /\ more' = (rv = 1 \/ (rv = 0 /\ HasNext))
  /\ UNCHANGED <<network, seq, queue, prev_ret, stats, rest, rv, history>>

-------------------------------------------------------------------------------
(***************************************************************************)
(* ff_rtsp_fetch_packet()                                                  *)
(***************************************************************************)
FetchMore == pc = "idle" /\ more /\ ReadMore /\ UNCHANGED <<network, more>>

\* Variant: the delay is not watched.
NoMaxDelay == FALSE /\ UNCHANGED vars

\* The packet queued first has waited for max_delay.
MaxDelay == pc = "idle" /\ ~more /\ queue # <<>> /\ ReadMore /\ UNCHANGED <<network, more>>

\* Everything sent has arrived or is lost, and nothing is left to parse.
Done ==
  /\ sent = Count /\ flight = {} /\ queue = <<>> /\ pc = "idle" /\ ~more
  /\ UNCHANGED vars

Next ==
  \/ Send
  \/ \E i \in flight : Lose(i) \/ Receive(i)
  \/ ParseNext \/ Returns \/ FetchMore \/ MaxDelay
  \/ Done

\* The demuxer is called again and again, and time passes.  The network need not
\* deliver anything.
Spec ==
  /\ Init /\ [][Next]_vars
  /\ WF_vars(ParseNext \/ Returns) /\ WF_vars(FetchMore) /\ WF_vars(MaxDelay)

-------------------------------------------------------------------------------
(***************************************************************************)
(* Properties                                                              *)
(***************************************************************************)

\* The queue holds packets in the order they were sent, also across a wrap of the
\* sequence numbers, and it never fills up between two calls.
QueueInOrder ==
  /\ \A j, k \in DOMAIN queue : j < k => queue[j] <= queue[k]
  /\ Len(queue) < QueueSize \/ queue = <<>>

\* Nothing is parsed for the first time after a packet that was sent later, from
\* the packet on that the receiver took for the first of the stream.
NewPacketsInOrder ==
  [][\A i \in parsed' \ parsed : parsed' = {i} \/ \A j \in parsed : j < i]_vars

\* A packet does not stay in the queue: the gap before it is filled, given up when
\* the queue is full, or given up after max_delay.
QueueIsDrained ==
  \A i \in 1 .. Count :
    (\E k \in DOMAIN queue : queue[k] = i) ~> (\A k \in DOMAIN queue : queue[k] # i)

\* "1 if a packet is returned and more can follow (use buf as NULL to read the
\* next)" (rtpdec.c:838): no frame the handler still has is lost to the next packet.
NoFrameIsSkipped ==
  [][~(rest > 0 /\ last' # last)]_vars
================================================================================
