----------------------------- MODULE PlaybackProofs -----------------------------
(***************************************************************************)
(* Proofs about Playback, for a file of any length, queues of any size,    *)
(* any number of seeks, pauses and windows to draw again: the pictures in  *)
(* the queue are those their serials say, each once and in the order of    *)
(* the file, and the slot on show is not written.                          *)
(***************************************************************************)
EXTENDS Playback, SequenceTheorems, TLAPS

\* The inductive invariant.
Inductive ==
  /\ TypeOK /\ InvSerials /\ InvDecoder /\ InvSlots /\ InvRead /\ InvOrder /\ InvPictures
  /\ SerialsTellTheTruth

-------------------------------------------------------------------------------
(***************************************************************************)
(* Contents and the packet queue                                           *)
(***************************************************************************)
Entry == [serial : Nat, data : Data]

LEMMA Contents ==
  /\ None \in Data /\ Flush \in Data /\ Null \in Data
  /\ None[1] = 0 /\ Flush[1] = 0 /\ Null[1] = 0
  /\ None # Flush /\ None # Null /\ Flush # Null
  /\ \A d \in Data : d[1] \in Nat /\ d[2] \in Int
  /\ \A g \in Nat, p \in Int : <<g, p>> \in Data /\ <<g, p>>[1] = g /\ <<g, p>>[2] = p
BY DEF None, Flush, Null, Data

LEMMA Types ==
  ASSUME TypeOK
  PROVE  /\ videoq \in Seq(Entry) /\ Len(videoq) \in Nat /\ (videoq = <<>> <=> Len(videoq) = 0)
         /\ \A k \in 1 .. Len(videoq) : /\ videoq[k] \in Entry /\ videoq[k].serial \in Nat
                                        /\ videoq[k].data \in Data
         /\ codec # <<>> => /\ codec[1] \in Data /\ Head(codec) = codec[1]
         /\ pkt \in Data /\ frame \in Data /\ pkt_serial \in Nat /\ serial \in Nat
         /\ gen \in Nat /\ pos \in Int
         /\ slots \in [0 .. (Slots - 1) -> Entry]
<1>1. videoq \in Seq(Entry) /\ codec \in Seq(Data)
  BY DEF TypeOK, TypeQueues, TypeReader, TypeDecoder, Entry
<1>2. Len(videoq) \in Nat /\ (videoq = <<>> <=> Len(videoq) = 0)
  BY <1>1, LenProperties, EmptySeq
<1>3. \A k \in 1 .. Len(videoq) : videoq[k] \in Entry
  BY <1>1, ElementOfSeq
<1>4. \A e \in Entry : e.serial \in Nat /\ e.data \in Data
  BY DEF Entry
<1>5. ASSUME codec # <<>> PROVE codec[1] \in Data /\ Head(codec) = codec[1]
  <2>1. Len(codec) \in Nat /\ Len(codec) # 0
    BY <1>1, <1>5, LenProperties, EmptySeq
  <2> QED
    BY <1>1, <1>5, <2>1, ElementOfSeq, HeadTailProperties
<1>6. /\ pkt \in Data /\ frame \in Data /\ pkt_serial \in Nat /\ serial \in Nat
      /\ gen \in Nat /\ pos \in Int
  BY PlaybackAssumption DEF TypeOK, TypeQueues, TypeReader, TypeDecoder
<1>7. slots \in [0 .. (Slots - 1) -> Entry]
  BY DEF TypeOK, TypeQueues, Entry
<1> QED
  BY <1>1, <1>2, <1>3, <1>4, <1>5, <1>6, <1>7

\* packet_queue_put() and packet_queue_get(), on the sequence.
LEMMA PutEntry ==
  ASSUME NEW q \in Seq(Entry), NEW e \in Entry, NEW r, r = Append(q, e)
  PROVE  /\ r \in Seq(Entry) /\ Len(r) = Len(q) + 1 /\ r # <<>> /\ r[Len(q) + 1] = e
         /\ \A k \in 1 .. Len(q) : r[k] = q[k]
         /\ \A k \in 1 .. Len(r) : k \in 1 .. Len(q) \/ k = Len(q) + 1
<1>1. Len(q) \in Nat
  BY LenProperties
<1>2. /\ r \in Seq(Entry) /\ Len(r) = Len(q) + 1 /\ r[Len(q) + 1] = e
      /\ \A k \in 1 .. Len(q) : r[k] = q[k]
  BY <1>1, AppendProperties
<1> QED
  BY <1>1, <1>2, EmptySeq

LEMMA TakeEntry ==
  ASSUME NEW q \in Seq(Entry), q # <<>>
  PROVE  /\ Head(q) = q[1] /\ Head(q) \in Entry /\ Len(q) \in Nat /\ Len(q) >= 1
         /\ Tail(q) \in Seq(Entry) /\ Len(Tail(q)) = Len(q) - 1
         /\ \A k \in 1 .. Len(Tail(q)) : Tail(q)[k] = q[k + 1]
<1>1. Len(q) \in Nat /\ Len(q) # 0
  BY LenProperties, EmptySeq
<1>2. /\ Tail(q) \in Seq(Entry) /\ Len(Tail(q)) = Len(q) - 1
      /\ \A k \in 1 .. Len(Tail(q)) : Tail(q)[k] = q[k + 1]
  BY HeadTailProperties, Zenon
<1>3. q[1] \in Entry
  BY <1>1, ElementOfSeq
<1>4. Head(q) = q[1]
  BY <1>1, SMT
<1> QED
  BY <1>1, <1>2, <1>3, <1>4

\* Codec is empty or holds one frame.
LEMMA CodecHolds ==
  ASSUME NEW d \in Data
  PROVE  /\ <<d>> \in Seq(Data) /\ Len(<<d>>) = 1 /\ <<d>> # <<>> /\ <<d>>[1] = d
         /\ <<>> \in Seq(Data) /\ Len(<<>>) = 0
OBVIOUS

-------------------------------------------------------------------------------
(***************************************************************************)
(* The ring of pictures                                                    *)
(***************************************************************************)
LEMMA SmallMod ==
  ASSUME NEW B \in Nat, B > 0, NEW a \in 0 .. (2 * B - 1)
  PROVE  a % B = (IF a < B THEN a ELSE a - B)
<1> DEFINE q == a \div B
           r == a % B
<1>1. q \in Int /\ r \in 0 .. (B - 1) /\ a = B * q + r
  OBVIOUS
<1> HIDE DEF q, r
<1>2. q >= 0
  <2>1. SUFFICES ASSUME q <= -1 PROVE FALSE
    BY <1>1
  <2>2. B * q <= B * (-1)
    BY <1>1, <2>1
  <2> QED
    BY <1>1, <2>2
<1>3. q <= 1
  <2>1. SUFFICES ASSUME q >= 2 PROVE FALSE
    BY <1>1
  <2>2. B * q >= B * 2
    BY <1>1, <2>1
  <2> QED
    BY <1>1, <2>2
<1>4. r = (IF a < B THEN a ELSE a - B)
  <2>1. CASE q = 0
    <3>1. B * q = 0
      BY <2>1
    <3> QED
      BY <1>1, <3>1
  <2>2. CASE q = 1
    <3>1. B * q = B
      BY <2>2
    <3> QED
      BY <1>1, <3>1
  <2> QED
    BY <1>1, <1>2, <1>3, <2>1, <2>2
<1> QED
  BY <1>4 DEF r

\* The slot n places after r.
LEMMA Ring ==
  ASSUME NEW r \in 0 .. (Slots - 1), NEW n \in 0 .. Slots
  PROVE  /\ (r + n) % Slots = (IF r + n < Slots THEN r + n ELSE r + n - Slots)
         /\ (r + n) % Slots \in 0 .. (Slots - 1)
<1>1. Slots \in Nat /\ Slots >= 2
  BY PlaybackAssumption
<1>2. r + n \in 0 .. (2 * Slots - 1)
  BY <1>1
<1>3. (r + n) % Slots = (IF r + n < Slots THEN r + n ELSE r + n - Slots)
  BY <1>1, <1>2, SmallMod
<1> QED
  BY <1>1, <1>3

LEMMA RingStep ==
  ASSUME NEW r \in 0 .. (Slots - 1), NEW n \in 0 .. (Slots - 1)
  PROVE  (((r + 1) % Slots) + n) % Slots = (r + (n + 1)) % Slots
<1>1. Slots \in Nat /\ Slots >= 2 /\ 1 \in 0 .. Slots
  BY PlaybackAssumption
<1>2. /\ (r + 1) % Slots = (IF r + 1 < Slots THEN r + 1 ELSE r + 1 - Slots)
      /\ (r + 1) % Slots \in 0 .. (Slots - 1)
  BY <1>1, Ring
<1> DEFINE s == (r + 1) % Slots
<1> HIDE DEF s
<1>3. s = (IF r + 1 < Slots THEN r + 1 ELSE r + 1 - Slots) /\ s \in 0 .. (Slots - 1)
  BY <1>2 DEF s
<1>4. n \in 0 .. Slots /\ n + 1 \in 0 .. Slots
  BY <1>1
<1>5. (s + n) % Slots = (IF s + n < Slots THEN s + n ELSE s + n - Slots)
  BY <1>3, <1>4, Ring
<1>6. (r + (n + 1)) % Slots = (IF r + (n + 1) < Slots THEN r + (n + 1) ELSE r + (n + 1) - Slots)
  BY <1>4, Ring
<1>7. (s + n) % Slots = (r + (n + 1)) % Slots
  BY <1>1, <1>3, <1>5, <1>6
<1> QED
  BY <1>7 DEF s

LEMMA RingDistinct ==
  ASSUME NEW r \in 0 .. (Slots - 1), NEW m \in 0 .. (Slots - 1), NEW n \in 0 .. (Slots - 1), m # n
  PROVE  (r + m) % Slots # (r + n) % Slots
<1>1. Slots \in Nat /\ m \in 0 .. Slots /\ n \in 0 .. Slots
  BY PlaybackAssumption
<1>2. (r + m) % Slots = (IF r + m < Slots THEN r + m ELSE r + m - Slots)
  BY <1>1, Ring
<1>3. (r + n) % Slots = (IF r + n < Slots THEN r + n ELSE r + n - Slots)
  BY <1>1, Ring
<1> QED
  BY <1>1, <1>2, <1>3

LEMMA PictureTypes ==
  ASSUME TypeOK
  PROVE  /\ size \in Nat /\ size <= Slots /\ rindex \in 0 .. (Slots - 1) /\ shown \in 0 .. 1
         /\ Slots \in Nat /\ Slots >= 2 /\ Queued \subseteq 0 .. (Slots - 1) /\ Queued \subseteq Nat
         /\ \A i \in 0 .. (Slots - 1) : /\ Picture(i) \in Entry /\ Picture(i).serial \in Nat
                                        /\ Picture(i).data \in Data
<1>1. /\ size \in Nat /\ size <= Slots /\ rindex \in 0 .. (Slots - 1) /\ shown \in 0 .. 1
      /\ Slots \in Nat /\ Slots >= 2
  BY PlaybackAssumption DEF TypeOK, TypeQueues
<1>2. Queued \subseteq 0 .. (Slots - 1) /\ Queued \subseteq Nat
  BY <1>1 DEF Queued
<1>3. slots \in [0 .. (Slots - 1) -> Entry]
  BY DEF TypeOK, TypeQueues, Entry
<1>4. ASSUME NEW i \in 0 .. (Slots - 1) PROVE Picture(i) \in Entry
  <2>1. i \in 0 .. Slots
    BY <1>1
  <2>2. (rindex + i) % Slots \in 0 .. (Slots - 1)
    BY <1>1, <2>1, Ring
  <2> QED
    BY <1>3, <2>2 DEF Picture
<1>5. \A e \in Entry : e.serial \in Nat /\ e.data \in Data
  BY DEF Entry
<1> QED
  BY <1>1, <1>2, <1>4, <1>5

\* The next free slot is none of the pictures'.
LEMMA FreeSlot ==
  ASSUME TypeOK, InvSlots, size < Slots
  PROVE  /\ windex \in 0 .. (Slots - 1) /\ windex = (rindex + size) % Slots
         /\ \A i \in Queued : windex # (rindex + i) % Slots
<1>1. windex = (rindex + size) % Slots /\ windex \in 0 .. (Slots - 1)
  BY DEF InvSlots, TypeOK, TypeQueues
<1>2. size \in 0 .. (Slots - 1)
  BY PictureTypes
<1>3. ASSUME NEW i \in Queued PROVE windex # (rindex + i) % Slots
  <2>1. i \in 0 .. (Slots - 1) /\ i # size
    BY <1>2, PictureTypes DEF Queued
  <2> QED
    BY <1>1, <1>2, <2>1, PictureTypes, RingDistinct
<1> QED
  BY <1>1, <1>3

\* frame_queue_next(): nothing but the mark of the picture on show changes, or the
\* pictures move up by one place.
LEMMA NextFrameMoves ==
  ASSUME TypeOK, NextFrame, slots' = slots, windex' = windex, shown < size, shown <= size,
         windex = (rindex + size) % Slots
  PROVE  /\ rindex' \in 0 .. (Slots - 1) /\ size' \in 0 .. Slots /\ shown' \in 0 .. 1
         /\ shown' <= size' /\ size' <= size /\ windex' = (rindex' + size') % Slots
         /\ \/ /\ size' = size /\ \A i \in Queued' : Picture(i)' = Picture(i)
            \/ /\ size' = size - 1
               /\ \A i \in Queued' : i + 1 \in Queued /\ Picture(i)' = Picture(i + 1)
<1>1. /\ size \in Nat /\ size <= Slots /\ rindex \in 0 .. (Slots - 1) /\ shown \in 0 .. 1
      /\ Slots \in Nat /\ Slots >= 2
  BY PictureTypes
<1>2. CASE shown = 0
  <2>1. shown' = 1 /\ rindex' = rindex /\ size' = size
    BY <1>2 DEF NextFrame
  <2>2. \A i \in Queued' : Picture(i)' = Picture(i)
    BY <2>1 DEF Picture
  <2> QED
    BY <1>1, <1>2, <2>1, <2>2
<1>3. CASE shown = 1
  <2>1. shown' = shown /\ rindex' = (rindex + 1) % Slots /\ size' = size - 1
    BY <1>3 DEF NextFrame
  <2>2. rindex' \in 0 .. (Slots - 1)
    <3>1. 1 \in 0 .. Slots
      BY <1>1
    <3> QED
      BY <1>1, <2>1, <3>1, Ring
  <2>3. size - 1 \in 0 .. (Slots - 1) /\ size' \in 0 .. Slots /\ shown' <= size'
    BY <1>1, <1>3, <2>1
  <2>4. windex' = (rindex' + size') % Slots
    <3>1. (((rindex + 1) % Slots) + (size - 1)) % Slots = (rindex + ((size - 1) + 1)) % Slots
      BY <1>1, <2>3, RingStep
    <3>2. (size - 1) + 1 = size
      BY <1>1
    <3> QED
      BY <2>1, <3>1, <3>2
  <2>5. ASSUME NEW i \in Queued' PROVE i + 1 \in Queued /\ Picture(i)' = Picture(i + 1)
    <3>1. i \in 0 .. (Slots - 1) /\ i + 1 \in Queued
      BY <1>1, <2>1, <2>5 DEF Queued
    <3>2. (((rindex + 1) % Slots) + i) % Slots = (rindex + (i + 1)) % Slots
      BY <1>1, <3>1, RingStep
    <3> QED
      BY <2>1, <3>1, <3>2 DEF Picture
  <2> QED
    BY <1>1, <1>3, <2>1, <2>2, <2>3, <2>4, <2>5
<1> QED
  BY <1>1, <1>2, <1>3

-------------------------------------------------------------------------------
(***************************************************************************)
(* What each thread leaves alone                                           *)
(***************************************************************************)
Events ==
  \/ AllocPicture \/ AllocFails \/ AbortQueue \/ SignalDecoder \/ Closed
  \/ UserSeek \/ UserPause \/ Expose \/ Quit

LEMMA Threads == [Next]_vars => ReadThread \/ VideoThread \/ VideoRefresh \/ Events \/ UNCHANGED vars
BY DEF Next, Events, Closing, Terminated

LEMMA ReadThreadKeeps ==
  ASSUME ReadThread
  PROVE  /\ UNCHANGED <<q_abort, decoder, pictq, alloc_event, main, display, user>>
         /\ dec' = dec \/ (dec = "pktwait" /\ dec' = "get")
<1>1. CASE ReadAborted
  BY <1>1 DEF ReadAborted, packetq, others
<1>2. CASE ReadSeek
  BY <1>2 DEF ReadSeek, others
<1>3. CASE ReadSeekFails
  BY <1>3 DEF ReadSeekFails, packetq, others
<1>4. CASE ReadPutFlush
  BY <1>4 DEF ReadPutFlush, others, Put
<1>5. CASE ReadSought
  BY <1>5 DEF ReadSought, packetq, others
<1>6. CASE ReadStep
  BY <1>6 DEF ReadStep, packetq, others
<1>7. CASE ReadNoSeek
  BY <1>7 DEF ReadNoSeek, packetq, others
<1>8. CASE ReadFull
  BY <1>8 DEF ReadFull, packetq, others
<1>9. CASE ReadLoop
  BY <1>9 DEF ReadLoop, packetq, others
<1>10. CASE ReadQuit
  BY <1>10 DEF ReadQuit, packetq, others
<1>11. CASE ReadPacket
  BY <1>11 DEF ReadPacket, others, Put
<1>12. CASE ReadEof
  BY <1>12 DEF ReadEof, others, Put
<1>13. CASE ReadToggle \/ ReadStepped
  BY <1>13 DEF ReadToggle, ReadStepped, packetq, others
<1> QED
  BY <1>1, <1>2, <1>3, <1>4, <1>5, <1>6, <1>7, <1>8, <1>9, <1>10, <1>11, <1>12, <1>13
     DEF ReadThread

LEMMA VideoThreadKeeps ==
  ASSUME VideoThread
  PROVE  UNCHANGED <<serial, q_abort, reader, state, rindex, shown, main, display, user>>
<1>1. CASE DecodeNext
  BY <1>1 DEF DecodeNext, packetq, pictures, pictq
<1>2. CASE GetPacket
  BY <1>2 DEF GetPacket, pictures, pictq
<1>3. CASE GetNothing
  BY <1>3 DEF GetNothing, packetq, pictures, pictq
<1>4. CASE GotFlush
  BY <1>4 DEF GotFlush, packetq, pictures, pictq
<1>5. CASE GotPacket
  BY <1>5 DEF GotPacket, packetq, pictures, pictq
<1>6. CASE DecodePacket
  BY <1>6 DEF DecodePacket, packetq, pictures, pictq
<1>7. CASE DecodeFails
  BY <1>7 DEF DecodeFails, packetq, pictures, pictq
<1>8. CASE Drain
  BY <1>8 DEF Drain, packetq, pictures, pictq
<1>9. CASE Drained
  BY <1>9 DEF Drained, packetq, pictures, pictq
<1>10. CASE QueueFull
  BY <1>10 DEF QueueFull, packetq, pictures, pictq
<1>11. CASE QueueReady
  BY <1>11 DEF QueueReady, packetq, pictures, pictq
<1>12. CASE QueueNeedsBitmap
  BY <1>12 DEF QueueNeedsBitmap, packetq
<1>13. CASE AllocTest
  BY <1>13 DEF AllocTest, packetq, pictures, pictq
<1>14. CASE AllocAborted
  BY <1>14 DEF AllocAborted, packetq, pictq
<1>15. CASE WritePicture
  BY <1>15 DEF WritePicture, packetq
<1>16. CASE PushPicture
  BY <1>16 DEF PushPicture, packetq
<1>17. CASE DecodeFailed
  BY <1>17 DEF DecodeFailed, packetq, pictures, pictq
<1> QED
  BY <1>1, <1>2, <1>3, <1>4, <1>5, <1>6, <1>7, <1>8, <1>9, <1>10, <1>11, <1>12, <1>13,
     <1>14, <1>15, <1>16, <1>17
     DEF VideoThread

LEMMA VideoRefreshKeeps ==
  ASSUME VideoRefresh
  PROVE  /\ UNCHANGED <<packetq, reader, decoder, seek_req, seek_pos, step, abort_request,
                        slots, windex, bmp, alloc_event, user>>
         /\ \/ dec' = dec
            \/ dec = "full" /\ dec' = "queue"
            \/ dec = "allocwait" /\ dec' = "alloc"
<1>1. CASE Refresh
  BY <1>1 DEF Refresh, state, threads
<1>2. CASE NothingToShow
  BY <1>2 DEF NothingToShow, state, pictq, threads
<1>3. CASE SkipOld
  BY <1>3 DEF SkipOld, state, threads, Skip, NextFrame, SignalPictq, SetVideoClock
<1>4. CASE SkipLate
  BY <1>4 DEF SkipLate, state, threads, Skip, NextFrame, SignalPictq, SetVideoClock
<1>5. CASE NotDue
  BY <1>5 DEF NotDue, state, pictq, threads
<1>6. CASE Show
  BY <1>6 DEF Show, state, pictq, threads, SetVideoClock
<1>7. CASE Showed
  BY <1>7 DEF Showed, threads, NextFrame, SignalPictq
<1> QED
  BY <1>1, <1>2, <1>3, <1>4, <1>5, <1>6, <1>7 DEF VideoRefresh

LEMMA EventsKeep ==
  ASSUME Events
  PROVE  /\ UNCHANGED <<serial, reader, decoder, slots, windex, rindex, shown, size>>
         /\ \/ dec' = dec
            \/ dec = "full" /\ dec' = "queue"
            \/ dec = "allocwait" /\ dec' = "alloc"
            \/ dec = "pktwait" /\ dec' = "get"
<1>1. CASE AllocPicture
  BY <1>1 DEF AllocPicture, packetq, threads, SignalPictq
<1>2. CASE AllocFails
  BY <1>2 DEF AllocFails, packetq, pictq, threads
<1>3. CASE AbortQueue
  BY <1>3 DEF AbortQueue, pictq
<1>4. CASE SignalDecoder
  BY <1>4 DEF SignalDecoder, packetq, pictq, threads, SignalPictq
<1>5. CASE Closed
  BY <1>5 DEF Closed, pictq
<1>6. CASE UserSeek
  BY <1>6 DEF UserSeek, packetq, pictq, threads
<1>7. CASE UserPause
  BY <1>7 DEF UserPause, packetq, pictq, threads
<1>8. CASE Expose
  BY <1>8 DEF Expose, packetq, pictq, threads
<1>9. CASE Quit
  BY <1>9 DEF Quit, packetq, pictq, threads
<1> QED
  BY <1>1, <1>2, <1>3, <1>4, <1>5, <1>6, <1>7, <1>8, <1>9 DEF Events

-------------------------------------------------------------------------------
(***************************************************************************)
(* Types                                                                   *)
(***************************************************************************)
LEMMA ReaderTypes ==
  ASSUME TypeOK, ReadThread
  PROVE  TypeReader'
<1> USE PlaybackAssumption DEF TypeReader
<1>0. TypeReader /\ seek_pos \in 0 .. Packets
  BY DEF TypeOK, TypeState
<1>1. CASE ReadAborted
  BY <1>1, <1>0 DEF ReadAborted
<1>2. CASE ReadSeek
  BY <1>2, <1>0 DEF ReadSeek
<1>3. CASE ReadSeekFails
  BY <1>3, <1>0 DEF ReadSeekFails
<1>4. CASE ReadPutFlush
  BY <1>4, <1>0 DEF ReadPutFlush
<1>5. CASE ReadSought
  BY <1>5, <1>0 DEF ReadSought
<1>6. CASE ReadStep
  BY <1>6, <1>0 DEF ReadStep
<1>7. CASE ReadNoSeek
  BY <1>7, <1>0 DEF ReadNoSeek
<1>8. CASE ReadFull
  BY <1>8, <1>0 DEF ReadFull
<1>9. CASE ReadLoop
  BY <1>9, <1>0 DEF ReadLoop
<1>10. CASE ReadQuit
  BY <1>10, <1>0 DEF ReadQuit
<1>11. CASE ReadPacket
  <2>1. pos' = pos + 1 /\ eof' = FALSE /\ rd' = "top" /\ gen' = gen /\ loop' = loop /\ pos < Packets
    BY <1>11 DEF ReadPacket
  <2>2. pos' \in 0 .. Packets
    BY <1>0, <2>1
  <2> QED
    BY <1>0, <2>1, <2>2
<1>12. CASE ReadEof
  BY <1>12, <1>0 DEF ReadEof
<1>13. CASE ReadToggle \/ ReadStepped
  BY <1>13, <1>0 DEF ReadToggle, ReadStepped
<1> QED
  BY <1>1, <1>2, <1>3, <1>4, <1>5, <1>6, <1>7, <1>8, <1>9, <1>10, <1>11, <1>12, <1>13
     DEF ReadThread

LEMMA StateTypes ==
  ASSUME TypeOK, [Next]_vars
  PROVE  TypeState'
<1> USE DEF TypeState
<1>0. /\ TypeState /\ Targets \subseteq 0 .. Packets /\ Packets \in Nat
  BY PlaybackAssumption DEF TypeOK
<1>1. CASE ReadThread
  <2>1. CASE ReadSought
    BY <1>0, <2>1 DEF ReadSought, others, display, user
  <2>2. CASE ReadToggle \/ ReadStepped
    BY <1>0, <2>2 DEF ReadToggle, ReadStepped, others, display, user
  <2>3. CASE ReadLoop
    BY <1>0, <2>3 DEF ReadLoop, others, display, user
  <2>4. CASE UNCHANGED state
    BY <1>0, <1>1, <2>4, ReadThreadKeeps DEF state, display, user
  <2>5. ReadThread => ReadSought \/ ReadToggle \/ ReadStepped \/ ReadLoop \/ UNCHANGED state
    BY DEF ReadThread, ReadAborted, ReadSeek, ReadSeekFails, ReadPutFlush, ReadStep,
       ReadNoSeek, ReadFull, ReadQuit, ReadPacket, ReadEof
  <2> QED
    BY <1>1, <2>1, <2>2, <2>3, <2>4, <2>5
<1>2. CASE VideoThread
  BY <1>0, <1>2, VideoThreadKeeps DEF state, display, user
<1>3. CASE VideoRefresh
  <2>0. slots[Peek].serial \in Nat
    BY PictureTypes DEF Peek, Picture
  <2>1. CASE Refresh
    BY <1>0, <2>1 DEF Refresh, state, user
  <2>2. CASE NothingToShow
    BY <1>0, <2>2 DEF NothingToShow, state, user
  <2>3. CASE SkipOld
    BY <1>0, <2>3, <2>0
       DEF SkipOld, state, user, Skip, NextFrame, SignalPictq, SetVideoClock
  <2>4. CASE SkipLate
    <3>1. /\ UNCHANGED <<state, main, force_refresh, user>> /\ redisplay' = FALSE
          /\ vidclk_serial' \in {vidclk_serial, slots[Peek].serial}
      BY <2>4 DEF SkipLate, Skip, SetVideoClock
    <3>2. vidclk_serial \in Int /\ vidclk_serial' \in Int
      BY <1>0, <2>0, <3>1
    <3>3. UNCHANGED <<seek_req, seek_pos, paused, step, abort_request, main, force_refresh,
                      events>> /\ redisplay' = FALSE
      BY <3>1 DEF state, user
    <3> QED
      BY <1>0, <3>2, <3>3
  <2>5. CASE NotDue
    BY <1>0, <2>5 DEF NotDue, state, display, user
  <2>6. CASE Show
    BY <1>0, <2>6, <2>0 DEF Show, state, user, SetVideoClock
  <2>7. CASE Showed
    BY <1>0, <2>7 DEF Showed, user, NextFrame, SignalPictq
  <2> QED
    BY <1>3, <2>1, <2>2, <2>3, <2>4, <2>5, <2>6, <2>7 DEF VideoRefresh
<1>4. CASE Events
  <2>1. CASE AllocPicture
    BY <1>0, <2>1 DEF AllocPicture, state, display, user
  <2>2. CASE AllocFails
    BY <1>0, <2>2 DEF AllocFails, display, user
  <2>3. CASE AbortQueue
    BY <1>0, <2>3 DEF AbortQueue, state, display, user
  <2>4. CASE SignalDecoder
    BY <1>0, <2>4 DEF SignalDecoder, state, display, user
  <2>5. CASE Closed
    BY <1>0, <2>5 DEF Closed, state, display, user
  <2>6. CASE UserSeek
    BY <1>0, <2>6 DEF UserSeek, display
  <2>7. CASE UserPause
    <3>1. /\ UNCHANGED <<seek_req, seek_pos, abort_request, main, display>>
          /\ events' = events + 1 /\ paused' \in BOOLEAN /\ step' \in BOOLEAN
      BY <1>0, <2>7 DEF UserPause
    <3> QED
      BY <1>0, <3>1 DEF display
  <2>8. CASE Expose
    BY <1>0, <2>8 DEF Expose, state, user
  <2>9. CASE Quit
    BY <1>0, <2>9 DEF Quit, display, user
  <2> QED
    BY <1>4, <2>1, <2>2, <2>3, <2>4, <2>5, <2>6, <2>7, <2>8, <2>9 DEF Events
<1>5. CASE UNCHANGED vars
  BY <1>0, <1>5 DEF vars, state, display, user
<1> QED
  BY <1>1, <1>2, <1>3, <1>4, <1>5, Threads

LEMMA DecoderTypes ==
  ASSUME TypeOK, VideoThread
  PROVE  TypeDecoder'
<1> USE DEF TypeDecoder
<1>0. TypeDecoder
  BY DEF TypeOK
<1>1. CASE DecodeNext
  BY <1>1, <1>0 DEF DecodeNext, decoder
<1>2. CASE GetPacket
  <2>1. videoq # <<>> /\ Head(videoq) \in Entry
    BY <1>2, Types, TakeEntry DEF GetPacket
  <2>2. Head(videoq).data \in Data /\ Head(videoq).serial \in Nat
    BY <2>1 DEF Entry
  <2> QED
    BY <1>2, <1>0, <2>2 DEF GetPacket
<1>3. CASE GetNothing
  BY <1>3, <1>0 DEF GetNothing, decoder
<1>4. CASE GotFlush
  BY <1>4, <1>0 DEF GotFlush
<1>5. CASE GotPacket
  BY <1>5, <1>0 DEF GotPacket
<1>6. CASE DecodePacket
  <2>1. codec' = <<pkt>> /\ frame' \in {frame, Head(codec)} /\ (codec = <<>> => frame' = frame)
    BY <1>6 DEF DecodePacket, Returned
  <2>2. /\ pending' = FALSE /\ dec' \in {"top", "queue"}
        /\ pkt' = pkt /\ pkt_serial' = pkt_serial /\ finished' = finished
    BY <1>6 DEF DecodePacket, Returned
  <2>3. codec' \in Seq(Data) /\ Len(codec') <= 1
    BY <2>1, Types, CodecHolds
  <2>4. frame' \in Data
    BY <2>1, Types
  <2> QED
    BY <1>0, <2>2, <2>3, <2>4
<1>7. CASE DecodeFails \/ DecodeFailed
  <2>1. /\ codec' \in {codec, <<>>} /\ dec' \in {"failed", "top"} /\ pending' \in {pending, FALSE}
        /\ UNCHANGED <<pkt, pkt_serial, finished, frame>>
    BY <1>7 DEF DecodeFails, DecodeFailed
  <2>2. codec' \in Seq(Data) /\ Len(codec') <= 1
    <3>1. CASE codec' = codec
      BY <1>0, <3>1
    <3>2. CASE codec' = <<>>
      <4>1. <<>> \in Seq(Data) /\ Len(<<>>) = 0
        BY Contents, CodecHolds
      <4> QED
        BY <3>2, <4>1
    <3> QED
      BY <2>1, <3>1, <3>2
  <2> QED
    BY <1>0, <2>1, <2>2
<1>8. CASE Drain
  <2>1. codec' = <<>> /\ frame' \in {frame, Head(codec)} /\ codec # <<>>
    BY <1>8 DEF Drain, Returned
  <2>2. /\ pending' = pending /\ dec' \in {"top", "queue"}
        /\ pkt' = pkt /\ pkt_serial' = pkt_serial /\ finished' = finished
    BY <1>8 DEF Drain, Returned
  <2>3. codec' \in Seq(Data) /\ Len(codec') <= 1
    BY <2>1, Contents, CodecHolds
  <2>4. frame' \in Data
    BY <2>1, Types
  <2> QED
    BY <1>0, <2>2, <2>3, <2>4
<1>9. CASE Drained
  BY <1>9, <1>0 DEF Drained
<1>10. CASE QueueFull
  BY <1>10, <1>0 DEF QueueFull, decoder
<1>11. CASE QueueReady
  BY <1>11, <1>0 DEF QueueReady, decoder
<1>12. CASE QueueNeedsBitmap
  BY <1>12, <1>0 DEF QueueNeedsBitmap, decoder
<1>13. CASE AllocTest
  BY <1>13, <1>0 DEF AllocTest, decoder
<1>14. CASE AllocAborted
  BY <1>14, <1>0 DEF AllocAborted, decoder
<1>15. CASE WritePicture
  BY <1>15, <1>0 DEF WritePicture, decoder
<1>16. CASE PushPicture
  <2>1. /\ frame' = None /\ dec' = "top"
        /\ UNCHANGED <<pkt, pkt_serial, pending, finished, codec>>
    BY <1>16 DEF PushPicture
  <2> QED
    BY <1>0, <2>1, Contents
<1> QED
  BY <1>1, <1>2, <1>3, <1>4, <1>5, <1>6, <1>7, <1>8, <1>9, <1>10, <1>11, <1>12, <1>13,
     <1>14, <1>15, <1>16
     DEF VideoThread

-------------------------------------------------------------------------------
(***************************************************************************)
(* How the pictures move                                                   *)
(***************************************************************************)
LEMMA PicturesStay ==
  ASSUME UNCHANGED <<slots, rindex, size>>
  PROVE  Queued' = Queued /\ \A i \in Queued : Picture(i)' = Picture(i)
BY DEF Queued, Picture

\* The video thread adds a picture behind the others, or none.
LEMMA VideoThreadMoves ==
  ASSUME TypeOK, InvSlots, VideoThread
  PROVE  \/ /\ UNCHANGED <<windex, size, rindex, shown>> /\ Queued' = Queued
            /\ \A i \in Queued : Picture(i)' = Picture(i)
         \/ /\ PushPicture /\ size < Slots /\ size' = size + 1
            /\ UNCHANGED <<rindex, shown>>
            /\ windex' \in 0 .. (Slots - 1) /\ windex' = (rindex' + size') % Slots
            /\ \A i \in Queued' : \/ i \in Queued /\ Picture(i)' = Picture(i)
                                  \/ /\ i = size /\ i \notin Queued
                                     /\ Picture(i)' = [serial |-> pkt_serial, data |-> frame]
<1>0. /\ size \in Nat /\ size <= Slots /\ rindex \in 0 .. (Slots - 1) /\ Slots \in Nat /\ Slots >= 2
      /\ slots \in [0 .. (Slots - 1) -> Entry]
  BY PictureTypes, Types
<1>1. CASE WritePicture
  <2>1. /\ slots' = [slots EXCEPT ![windex] = [serial |-> pkt_serial, data |-> frame]]
        /\ UNCHANGED <<windex, rindex, shown, size>> /\ size < Slots
    BY <1>1 DEF WritePicture, InvSlots
  <2>2. Queued' = Queued
    BY <2>1 DEF Queued
  <2>3. ASSUME NEW i \in Queued PROVE Picture(i)' = Picture(i)
    <3>1. windex # (rindex + i) % Slots
      BY <2>1, FreeSlot
    <3>2. i \in 0 .. Slots
      BY PictureTypes
    <3>3. (rindex + i) % Slots \in 0 .. (Slots - 1)
      BY <1>0, <3>2, Ring
    <3> QED
      BY <1>0, <2>1, <3>1, <3>3 DEF Picture
  <2> QED
    BY <2>1, <2>2, <2>3
<1>2. CASE PushPicture
  <2>1. /\ windex' = (windex + 1) % Slots /\ size' = size + 1 /\ UNCHANGED <<slots, rindex, shown>>
        /\ dec = "push"
    BY <1>2 DEF PushPicture
  <2>2. /\ size < Slots /\ slots[windex] = [serial |-> pkt_serial, data |-> frame]
        /\ windex = (rindex + size) % Slots
    BY <2>1 DEF InvSlots
  <2>3. size' \in 0 .. Slots /\ windex \in 0 .. (Slots - 1) /\ 1 \in 0 .. Slots
    BY <1>0, <2>1, <2>2, FreeSlot
  <2>4. windex' = (rindex' + size') % Slots
    <3>1. windex = (IF rindex + size < Slots THEN rindex + size ELSE rindex + size - Slots)
      BY <1>0, <2>2, Ring
    <3>2. windex' = (IF windex + 1 < Slots THEN windex + 1 ELSE windex + 1 - Slots)
      BY <2>1, <2>3, Ring
    <3>3. (rindex + (size + 1)) % Slots = (IF rindex + (size + 1) < Slots THEN rindex + (size + 1)
                                                                       ELSE rindex + (size + 1) - Slots)
      BY <1>0, <2>1, <2>3, Ring
    <3>4. windex' = (rindex + (size + 1)) % Slots
      BY <1>0, <2>2, <3>1, <3>2, <3>3
    <3> QED
      BY <2>1, <3>4
  <2>5. windex' \in 0 .. (Slots - 1)
    BY <2>1, <2>3, Ring
  <2>6. \A i \in Queued' : (i \in Queued) \/ (i = size /\ i \notin Queued)
    BY <1>0, <2>1 DEF Queued
  <2>7. \A i \in Queued : Picture(i)' = Picture(i)
    BY <2>1 DEF Picture
  <2>8. \A i \in Queued' : i = size => Picture(i)' = [serial |-> pkt_serial, data |-> frame]
    BY <2>1, <2>2 DEF Picture
  <2> QED
    BY <1>2, <2>1, <2>2, <2>4, <2>5, <2>6, <2>7, <2>8
<1>3. VideoThread => WritePicture \/ PushPicture \/ UNCHANGED <<slots, windex, rindex, shown, size>>
  BY DEF VideoThread, pictures, pictq, DecodeNext, GetPacket, GetNothing, GotFlush,
     GotPacket, DecodePacket, DecodeFails, DecodeFailed, Drain, Drained, QueueFull, QueueReady,
     QueueNeedsBitmap, AllocTest, AllocAborted
<1> QED
  BY <1>1, <1>2, <1>3, PicturesStay

\* The main thread takes a picture out, or puts the one on show back, or neither.
LEMMA VideoRefreshMoves ==
  ASSUME TypeOK, InvSlots, VideoRefresh
  PROVE  /\ rindex' \in 0 .. (Slots - 1) /\ size' \in 0 .. Slots /\ size' <= size
         /\ shown' \in 0 .. 1 /\ shown' <= size' /\ (main' = "display" => shown' < size')
         /\ windex' = (rindex' + size') % Slots
         /\ \/ Queued' = Queued /\ \A i \in Queued' : Picture(i)' = Picture(i)
            \/ \A i \in Queued' : i + 1 \in Queued /\ Picture(i)' = Picture(i + 1)
<1>0. /\ size \in Nat /\ size <= Slots /\ rindex \in 0 .. (Slots - 1) /\ Slots \in Nat /\ Slots >= 2
      /\ shown \in 0 .. 1 /\ shown <= size /\ windex = (rindex + size) % Slots
      /\ (main = "display" => shown < size)
  BY PictureTypes DEF InvSlots
<1>1. CASE NextFrame /\ slots' = slots /\ windex' = windex /\ shown < size /\ main' # "display"
  <2>1. /\ rindex' \in 0 .. (Slots - 1) /\ size' \in 0 .. Slots /\ shown' \in 0 .. 1
        /\ shown' <= size' /\ size' <= size /\ windex' = (rindex' + size') % Slots
        /\ \/ /\ size' = size /\ \A i \in Queued' : Picture(i)' = Picture(i)
           \/ /\ size' = size - 1
              /\ \A i \in Queued' : i + 1 \in Queued /\ Picture(i)' = Picture(i + 1)
    BY <1>0, <1>1, NextFrameMoves
  <2>2. size' = size => Queued' = Queued
    BY DEF Queued
  <2> QED
    BY <1>1, <2>1, <2>2
<1>2. CASE /\ UNCHANGED <<slots, windex, rindex, size>> /\ shown' \in {0, shown}
           /\ (main' = "display" => shown' < size)
  <2>1. Queued' = Queued /\ \A i \in Queued : Picture(i)' = Picture(i)
    BY <1>2, PicturesStay
  <2> QED
    BY <1>0, <1>2, <2>1
<1>3. CASE Refresh
  BY <1>0, <1>2, <1>3 DEF Refresh
<1>4. CASE NothingToShow \/ NotDue
  BY <1>0, <1>2, <1>4 DEF NothingToShow, NotDue, pictq
<1>5. CASE Show
  BY <1>0, <1>2, <1>5 DEF Show, pictq, Remaining
<1>6. CASE SkipOld
  BY <1>0, <1>1, <1>6 DEF SkipOld, Skip, Remaining
<1>7. CASE SkipLate
  BY <1>0, <1>1, <1>7 DEF SkipLate, Skip, Remaining
<1>8. CASE Showed
  BY <1>0, <1>1, <1>8 DEF Showed
<1> QED
  BY <1>3, <1>4, <1>5, <1>6, <1>7, <1>8 DEF VideoRefresh

-------------------------------------------------------------------------------
(***************************************************************************)
(* How packets move                                                        *)
(***************************************************************************)
QuietRead ==
  /\ UNCHANGED <<videoq, serial, pos, gen>>
  /\ rd \notin {"flushed", "exited", "quit"} /\ rd' # "flushed"

\* The entry e is put into the packet queue, which is not aborted.
Puts(e) ==
  /\ ~q_abort /\ videoq' = Append(videoq, e)
  /\ e \in Entry /\ videoq' \in Seq(Entry) /\ Len(videoq') = Len(videoq) + 1 /\ videoq' # <<>>
  /\ \A k \in 1 .. Len(videoq) : videoq'[k] = videoq[k]
  /\ \A k \in 1 .. Len(videoq') : \/ k \in 1 .. Len(videoq)
                                  \/ k = Len(videoq) + 1 /\ videoq'[k] = e

LEMMA PutPuts ==
  ASSUME TypeOK, NEW d \in Data, NEW n \in Nat, Put(d, n), ~q_abort
  PROVE  Puts([serial |-> n, data |-> d])
<1>1. videoq \in Seq(Entry) /\ [serial |-> n, data |-> d] \in Entry
  BY Types DEF Entry
<1>2. videoq' = Append(videoq, [serial |-> n, data |-> d])
  BY DEF Put
<1> QED
  BY <1>1, <1>2, PutEntry DEF Puts

LEMMA ReadThreadMoves ==
  ASSUME TypeOK, InvSerials, ReadThread
  PROVE  \/ QuietRead
         \/ ReadSeek
         \/ /\ ReadPutFlush /\ serial' = serial + 1 /\ rd = "flushed" /\ rd' = "sought"
            /\ UNCHANGED <<pos, gen>> /\ videoq = <<>>
            /\ Puts([serial |-> serial + 1, data |-> Flush])
         \/ /\ ReadPacket /\ UNCHANGED <<serial, gen>> /\ pos' = pos + 1
            /\ rd \notin {"flushed", "exited", "quit"} /\ rd' = "top"
            /\ Puts([serial |-> serial, data |-> <<gen, pos + 1>>])
         \/ /\ ReadEof /\ UNCHANGED <<serial, gen, pos>>
            /\ rd \notin {"flushed", "exited", "quit"} /\ rd' = "top"
            /\ Puts([serial |-> serial, data |-> Null])
<1>0. /\ q_abort => rd \in {"exited", "quit"}
      /\ rd = "flushed" => videoq = <<>>
      /\ gen \in Nat /\ pos \in Int /\ serial \in Nat
  BY Types DEF InvSerials
<1>1. CASE ReadPutFlush
  <2>1. rd = "flushed" /\ ~q_abort /\ rd' = "sought" /\ UNCHANGED <<pos, gen>> /\ serial' = serial + 1
    BY <1>0, <1>1 DEF ReadPutFlush
  <2>2. Put(Flush, serial + 1) /\ serial + 1 \in Nat
    BY <1>0, <1>1 DEF ReadPutFlush
  <2> QED
    BY <1>0, <1>1, <2>1, <2>2, PutPuts, Contents
<1>2. CASE ReadPacket
  <2>1. rd \in {"read", "body"} /\ ~q_abort /\ UNCHANGED <<serial, gen>> /\ pos' = pos + 1 /\ rd' = "top"
    BY <1>0, <1>2 DEF ReadPacket, Reading, Full
  <2>2. Put(<<gen, pos + 1>>, serial) /\ <<gen, pos + 1>> \in Data
    BY <1>0, <1>2, Contents DEF ReadPacket
  <2> QED
    BY <1>0, <1>2, <2>1, <2>2, PutPuts
<1>3. CASE ReadEof
  <2>1. rd \in {"read", "body"} /\ ~q_abort /\ UNCHANGED <<serial, gen, pos>> /\ rd' = "top"
    BY <1>0, <1>3 DEF ReadEof, Reading, Full
  <2>2. CASE eof
    BY <1>3, <2>1, <2>2 DEF ReadEof, QuietRead
  <2>3. CASE ~eof
    BY <1>0, <1>3, <2>1, <2>3, PutPuts, Contents DEF ReadEof
  <2> QED
    BY <2>2, <2>3
<1>4. ReadThread => ReadSeek \/ ReadPutFlush \/ ReadPacket \/ ReadEof \/ QuietRead
  BY DEF ReadThread, QuietRead, packetq, ReadAborted, ReadSeekFails, ReadSought,
     ReadStep, ReadToggle, ReadStepped, ReadNoSeek, ReadFull, ReadLoop, ReadQuit
<1> QED
  BY <1>1, <1>2, <1>3, <1>4

\* The decoder takes the oldest entry, or none.
LEMMA VideoThreadTakes ==
  ASSUME TypeOK, VideoThread
  PROVE  \/ /\ GetPacket /\ videoq # <<>> /\ Len(videoq) >= 1 /\ dec = "get" /\ dec' = "got"
            /\ pkt' = videoq[1].data /\ pkt_serial' = videoq[1].serial
            /\ UNCHANGED <<pending, codec, frame>>
            /\ videoq' \in Seq(Entry) /\ Len(videoq') = Len(videoq) - 1
            /\ \A k \in 1 .. Len(videoq') : k + 1 \in 1 .. Len(videoq) /\ videoq'[k] = videoq[k + 1]
         \/ UNCHANGED <<videoq, pkt, pkt_serial>> /\ (dec' \in {"got", "decode"} => dec \in {"got", "top"})
<1>1. CASE GetPacket
  <2>1. videoq \in Seq(Entry) /\ videoq # <<>>
    BY <1>1, Types DEF GetPacket
  <2>2. /\ pkt' = Head(videoq).data /\ pkt_serial' = Head(videoq).serial /\ videoq' = Tail(videoq)
        /\ UNCHANGED <<pending, codec, frame>> /\ dec = "get" /\ dec' = "got"
    BY <1>1 DEF GetPacket
  <2>3. /\ Head(videoq) = videoq[1] /\ Len(videoq) \in Nat /\ Len(videoq) >= 1
        /\ Tail(videoq) \in Seq(Entry) /\ Len(Tail(videoq)) = Len(videoq) - 1
        /\ \A k \in 1 .. Len(Tail(videoq)) : Tail(videoq)[k] = videoq[k + 1]
    BY <2>1, TakeEntry
  <2>4. \A k \in 1 .. (Len(videoq) - 1) : k + 1 \in 1 .. Len(videoq)
    BY <2>3
  <2> QED
    BY <1>1, <2>1, <2>2, <2>3, <2>4
<1>2. VideoThread => \/ GetPacket
                     \/ /\ UNCHANGED <<videoq, pkt, pkt_serial>>
                        /\ (dec' \in {"got", "decode"} => dec \in {"got", "top"})
  BY DEF VideoThread, packetq, decoder, Returned, DecodeNext, GetNothing, GotFlush,
     GotPacket, DecodePacket, DecodeFails, DecodeFailed, Drain, Drained, QueueFull, QueueReady,
     QueueNeedsBitmap, AllocTest, AllocAborted, WritePicture, PushPicture
<1> QED
  BY <1>1, <1>2

LEMMA QueueTypes ==
  ASSUME TypeOK, InvSerials, InvSlots, [Next]_vars
  PROVE  TypeQueues'
<1>0. /\ TypeQueues /\ videoq \in Seq(Entry) /\ <<>> \in Seq(Entry)
      /\ slots \in [0 .. (Slots - 1) -> Entry]
  BY Types DEF TypeOK
<1>1. CASE ReadThread
  <2>1. UNCHANGED <<q_abort, slots, windex, rindex, shown, size, bmp, alloc_event>>
    BY <1>1, ReadThreadKeeps DEF pictq
  <2>2. videoq' \in Seq(Entry) /\ serial' \in Nat
    <3>1. CASE ReadSeek
      BY <1>0, <3>1, Types DEF ReadSeek
    <3>2. CASE ~ReadSeek
      BY <1>0, <1>1, <3>2, ReadThreadMoves, Types DEF QuietRead, Puts
    <3> QED
      BY <3>1, <3>2
  <2> QED
    BY <1>0, <2>1, <2>2 DEF TypeQueues, Entry
<1>2. CASE VideoThread
  <2>1. serial' = serial /\ q_abort' = q_abort /\ rindex' = rindex /\ shown' = shown
    BY <1>2, VideoThreadKeeps
  <2>2. videoq' \in Seq(Entry)
    BY <1>0, <1>2, VideoThreadTakes
  <2>3. windex' \in 0 .. (Slots - 1) /\ size' \in 0 .. Slots
    <3>1. windex \in 0 .. (Slots - 1) /\ size \in 0 .. Slots /\ Slots \in Nat
      BY PictureTypes DEF TypeOK, TypeQueues
    <3> QED
      BY <1>2, <3>1, VideoThreadMoves
  <2>4. slots' \in [0 .. (Slots - 1) -> Entry]
    <3>1. CASE WritePicture
      <4>1. [serial |-> pkt_serial, data |-> frame] \in Entry
        BY Types DEF Entry
      <4> QED
        BY <1>0, <3>1, <4>1 DEF WritePicture
    <3>2. CASE UNCHANGED slots
      BY <1>0, <3>2
    <3>3. VideoThread => WritePicture \/ UNCHANGED slots
      BY DEF VideoThread, pictures, pictq, DecodeNext, GetPacket, GetNothing, GotFlush,
         GotPacket, DecodePacket, DecodeFails, DecodeFailed, Drain, Drained, QueueFull, QueueReady,
         QueueNeedsBitmap, AllocTest, AllocAborted, PushPicture
    <3> QED
      BY <1>2, <3>1, <3>2, <3>3
  <2>5. bmp' \in [0 .. (Slots - 1) -> BOOLEAN] /\ alloc_event' \in BOOLEAN
    <3>1. bmp \in [0 .. (Slots - 1) -> BOOLEAN] /\ alloc_event \in BOOLEAN
      BY DEF TypeOK, TypeQueues
    <3>2. CASE QueueNeedsBitmap
      BY <3>1, <3>2 DEF QueueNeedsBitmap
    <3>3. CASE AllocAborted
      BY <3>1, <3>3 DEF AllocAborted, pictq
    <3>4. CASE UNCHANGED <<bmp, alloc_event>>
      BY <3>1, <3>4
    <3>5. VideoThread => QueueNeedsBitmap \/ AllocAborted \/ UNCHANGED <<bmp, alloc_event>>
      BY DEF VideoThread, pictures, pictq, DecodeNext, GetPacket, GetNothing, GotFlush,
         GotPacket, DecodePacket, DecodeFails, DecodeFailed, Drain, Drained, QueueFull, QueueReady,
         AllocTest, WritePicture, PushPicture
    <3> QED
      BY <1>2, <3>2, <3>3, <3>4, <3>5
  <2> QED
    BY <1>0, <2>1, <2>2, <2>3, <2>4, <2>5 DEF TypeQueues, Entry
<1>3. CASE VideoRefresh
  <2>1. UNCHANGED <<videoq, serial, q_abort, slots, windex, bmp, alloc_event>>
    BY <1>3, VideoRefreshKeeps DEF packetq
  <2>2. rindex' \in 0 .. (Slots - 1) /\ size' \in 0 .. Slots /\ shown' \in 0 .. 1
    BY <1>3, VideoRefreshMoves
  <2> QED
    BY <1>0, <2>1, <2>2 DEF TypeQueues
<1>4. CASE Events
  <2>1. UNCHANGED <<serial, slots, windex, rindex, shown, size>>
    BY <1>4, EventsKeep
  <2>2. videoq' \in {videoq, <<>>} /\ q_abort' \in {q_abort, TRUE} /\ alloc_event' \in {alloc_event, FALSE}
        /\ bmp' \in {bmp, [bmp EXCEPT ![windex] = TRUE]}
    BY <1>4
       DEF Events, packetq, pictq, threads, AllocPicture, AllocFails, AbortQueue,
           SignalDecoder, Closed, UserSeek, UserPause, Expose, Quit
  <2>3. videoq' \in Seq(Entry)
    BY <1>0, <2>2
  <2>4. bmp' \in [0 .. (Slots - 1) -> BOOLEAN] /\ alloc_event' \in BOOLEAN /\ q_abort' \in BOOLEAN
    BY <1>0, <2>2 DEF TypeQueues
  <2> QED
    BY <1>0, <2>1, <2>3, <2>4 DEF TypeQueues, Entry
<1>5. CASE UNCHANGED vars
  BY <1>0, <1>5 DEF TypeQueues, vars, packetq, pictq
<1> QED
  BY <1>1, <1>2, <1>3, <1>4, <1>5, Threads

LEMMA TypesNext ==
  ASSUME TypeOK, InvSerials, InvSlots, [Next]_vars
  PROVE  TypeOK'
<1>1. TypeReader'
  <2>1. CASE ReadThread
    BY <2>1, ReaderTypes
  <2>2. CASE UNCHANGED reader
    BY <2>2 DEF TypeOK, TypeReader, reader
  <2> QED
    BY <2>1, <2>2, Threads, VideoThreadKeeps, VideoRefreshKeeps, EventsKeep DEF vars
<1>2. TypeDecoder'
  <2>1. CASE VideoThread
    BY <2>1, DecoderTypes
  <2>2. CASE /\ UNCHANGED decoder
             /\ \/ dec' = dec
                \/ dec = "full" /\ dec' = "queue"
                \/ dec = "allocwait" /\ dec' = "alloc"
                \/ dec = "pktwait" /\ dec' = "get"
    BY <2>2 DEF TypeOK, TypeDecoder, decoder
  <2>3. UNCHANGED vars => UNCHANGED decoder /\ dec' = dec
    BY DEF vars
  <2> QED
    BY <2>1, <2>2, <2>3, Threads, ReadThreadKeeps, VideoRefreshKeeps, EventsKeep
<1> QED
  BY <1>1, <1>2, StateTypes, QueueTypes DEF TypeOK

-------------------------------------------------------------------------------
(***************************************************************************)
(* The parts of the invariant, step by step                                *)
(***************************************************************************)
\* Whatever is queued under the serial, and not a packet but a flush, is known.
QueueInv ==
  \A k \in 1 .. Len(videoq) :
    /\ videoq[k].serial = serial
    /\ videoq[k].data = Flush <=> (k = 1 /\ pkt_serial # serial)
    /\ videoq[k].data \in {Flush, Null} \/ videoq[k].data[1] = serial

LEMMA SerialsNext ==
  ASSUME TypeOK, InvSerials, [Next]_vars
  PROVE  InvSerials'
<1>0. /\ q_abort => rd \in {"exited", "quit"}
      /\ main \in {"signal", "joining", "closed"} => q_abort
      /\ serial >= 1 /\ gen = (IF rd = "flushed" THEN serial + 1 ELSE serial)
      /\ rd = "flushed" => videoq = <<>>
      /\ pkt_serial <= serial
      /\ QueueInv
      /\ videoq = <<>> /\ pkt_serial # serial => rd \in {"flushed", "exited", "quit"}
  BY DEF InvSerials, QueueInv
<1>a. /\ Len(videoq) \in Nat /\ (videoq = <<>> <=> Len(videoq) = 0)
      /\ serial \in Nat /\ gen \in Nat /\ pkt_serial \in Nat /\ pos \in Int
  BY Types
<1>b. SUFFICES
        /\ q_abort' => rd' \in {"exited", "quit"}
        /\ main' \in {"signal", "joining", "closed"} => q_abort'
        /\ serial' >= 1 /\ gen' = (IF rd' = "flushed" THEN serial' + 1 ELSE serial')
        /\ rd' = "flushed" => videoq' = <<>>
        /\ pkt_serial' <= serial'
        /\ QueueInv'
        /\ videoq' = <<>> /\ pkt_serial' # serial' => rd' \in {"flushed", "exited", "quit"}
  BY DEF InvSerials, QueueInv
<1>c. UNCHANGED <<videoq, serial, pkt_serial>> => QueueInv'
  BY <1>0 DEF QueueInv
<1>1. CASE ReadThread
  <2>0. UNCHANGED <<q_abort, main, pkt_serial>>
    BY <1>1, ReadThreadKeeps DEF decoder
  <2>1. CASE QuietRead
    BY <1>0, <1>c, <2>0, <2>1 DEF QuietRead
  <2>2. CASE ReadSeek
    <3>1. /\ rd = "top" /\ rd' = "flushed" /\ videoq' = <<>> /\ gen' = gen + 1 /\ serial' = serial
      BY <2>2 DEF ReadSeek
    <3>2. QueueInv'
      BY <3>1, EmptySeq DEF QueueInv
    <3> QED
      BY <1>0, <1>a, <2>0, <3>1, <3>2
  <2>3. CASE /\ ReadPutFlush /\ serial' = serial + 1 /\ rd = "flushed" /\ rd' = "sought"
             /\ UNCHANGED <<pos, gen>> /\ videoq = <<>>
             /\ Puts([serial |-> serial + 1, data |-> Flush])
    <3>1. QueueInv'
      <4>1. /\ Len(videoq) = 0 /\ videoq' # <<>>
            /\ \A k \in 1 .. Len(videoq') : k = 1 /\ videoq'[k] = [serial |-> serial + 1, data |-> Flush]
        BY <1>a, <2>3 DEF Puts
      <4>2. pkt_serial' # serial'
        BY <1>0, <1>a, <2>0, <2>3
      <4> QED
        BY <2>3, <4>1, <4>2 DEF QueueInv
    <3>2. videoq' # <<>> /\ ~q_abort
      BY <2>3 DEF Puts
    <3> QED
      BY <1>0, <1>a, <2>0, <2>3, <3>1, <3>2
  <2>4. ASSUME NEW e, Puts(e), UNCHANGED <<serial, gen>>,
               rd \notin {"flushed", "exited", "quit"}, rd' = "top",
               e.serial = serial, e.data # Flush, e.data = Null \/ e.data[1] = serial
        PROVE  InvSerials'
    <3>1. videoq = <<>> => pkt_serial = serial
      BY <1>0, <2>4
    <3>2. QueueInv'
      <4>1. SUFFICES ASSUME NEW k \in 1 .. Len(videoq')
                     PROVE  /\ videoq'[k].serial = serial'
                            /\ videoq'[k].data = Flush <=> (k = 1 /\ pkt_serial' # serial')
                            /\ videoq'[k].data \in {Flush, Null} \/ videoq'[k].data[1] = serial'
        BY DEF QueueInv
      <4>2. CASE k \in 1 .. Len(videoq)
        <5>1. videoq'[k] = videoq[k]
          BY <2>4, <4>2 DEF Puts
        <5> QED
          BY <1>0, <2>0, <2>4, <4>2, <5>1 DEF QueueInv
      <4>3. CASE k = Len(videoq) + 1 /\ videoq'[k] = e
        <5>1. k = 1 => pkt_serial = serial
          BY <1>a, <3>1, <4>3
        <5> QED
          BY <2>0, <2>4, <4>3, <5>1
      <4> QED
        BY <2>4, <4>2, <4>3 DEF Puts
    <3>3. videoq' # <<>> /\ ~q_abort
      BY <2>4 DEF Puts
    <3> QED
      BY <1>0, <1>a, <2>0, <2>4, <3>2, <3>3 DEF InvSerials, QueueInv
  <2>5. CASE /\ ReadPacket /\ UNCHANGED <<serial, gen>> /\ pos' = pos + 1
             /\ rd \notin {"flushed", "exited", "quit"} /\ rd' = "top"
             /\ Puts([serial |-> serial, data |-> <<gen, pos + 1>>])
    <3>1. gen = serial /\ <<gen, pos + 1>>[1] = gen /\ <<gen, pos + 1>> # Flush
      BY <1>0, <1>a, <2>5, Contents
    <3> DEFINE e == [serial |-> serial, data |-> <<gen, pos + 1>>]
    <3>2. e.serial = serial /\ e.data # Flush /\ e.data[1] = serial
      BY <3>1
    <3>3. InvSerials'
      BY <2>4, <2>5, <3>2
    <3> QED
      BY <3>3 DEF InvSerials, QueueInv
  <2>6. CASE /\ ReadEof /\ UNCHANGED <<serial, gen, pos>>
             /\ rd \notin {"flushed", "exited", "quit"} /\ rd' = "top"
             /\ Puts([serial |-> serial, data |-> Null])
    <3> DEFINE e == [serial |-> serial, data |-> Null]
    <3>2. e.serial = serial /\ e.data # Flush /\ e.data = Null
      BY Contents
    <3>3. InvSerials'
      BY <2>4, <2>6, <3>2
    <3> QED
      BY <3>3 DEF InvSerials, QueueInv
  <2> QED
    BY <1>1, <2>1, <2>2, <2>3, <2>5, <2>6, ReadThreadMoves
<1>2. CASE VideoThread
  <2>0. UNCHANGED <<q_abort, main, serial, gen, rd>>
    BY <1>2, VideoThreadKeeps DEF reader
  <2>1. CASE UNCHANGED <<videoq, pkt_serial>>
    BY <1>0, <1>c, <2>0, <2>1
  <2>2. CASE /\ videoq # <<>> /\ pkt_serial' = videoq[1].serial
             /\ videoq' \in Seq(Entry) /\ Len(videoq') = Len(videoq) - 1
             /\ \A k \in 1 .. Len(videoq') : k + 1 \in 1 .. Len(videoq) /\ videoq'[k] = videoq[k + 1]
    <3>1. 1 \in 1 .. Len(videoq) /\ rd # "flushed"
      BY <1>0, <1>a, <2>2
    <3>2. pkt_serial' = serial
      BY <1>0, <2>2, <3>1 DEF QueueInv
    <3>3. ASSUME NEW k \in 1 .. Len(videoq')
          PROVE  /\ videoq'[k].serial = serial /\ videoq'[k].data # Flush
                 /\ videoq'[k].data \in {Flush, Null} \/ videoq'[k].data[1] = serial
      <4>1. k + 1 \in 1 .. Len(videoq) /\ videoq'[k] = videoq[k + 1] /\ k + 1 # 1
        BY <1>a, <2>2, <3>3
      <4> QED
        BY <1>0, <4>1 DEF QueueInv
    <3>4. QueueInv'
      BY <2>0, <3>2, <3>3 DEF QueueInv
    <3> QED
      BY <1>0, <1>a, <2>0, <3>1, <3>2, <3>4
  <2> QED
    BY <1>2, <2>1, <2>2, VideoThreadTakes
<1>3. CASE VideoRefresh
  <2>1. UNCHANGED <<videoq, serial, q_abort, gen, rd, pkt_serial>>
    BY <1>3, VideoRefreshKeeps DEF packetq, reader, decoder
  <2>2. main' \notin {"signal", "joining", "closed"}
    BY <1>3
       DEF VideoRefresh, Skip, Refresh, NothingToShow, SkipOld, SkipLate, NotDue, Show,
           Showed
  <2> QED
    BY <1>0, <1>c, <2>1, <2>2
<1>4. CASE Events
  <2>1. UNCHANGED <<serial, gen, rd, pkt_serial>>
    BY <1>4, EventsKeep DEF reader, decoder
  <2>2. CASE AbortQueue
    <3>1. q_abort' = TRUE /\ rd \in {"exited", "quit"} /\ videoq' = videoq /\ main' = "signal"
      BY <2>2 DEF AbortQueue
    <3> QED
      BY <1>0, <1>c, <2>1, <3>1
  <2>3. CASE Closed
    <3>1. UNCHANGED q_abort /\ videoq' = <<>> /\ main = "joining" /\ main' = "closed"
      BY <2>3 DEF Closed
    <3>2. QueueInv'
      BY <3>1, EmptySeq DEF QueueInv
    <3> QED
      BY <1>0, <2>1, <3>1, <3>2
  <2>4. CASE /\ UNCHANGED <<videoq, q_abort>>
             /\ main' \in {"signal", "joining", "closed"} => main \in {"signal", "joining", "closed"}
    BY <1>0, <1>c, <2>1, <2>4
  <2>5. Events => \/ AbortQueue \/ Closed
                  \/ /\ UNCHANGED <<videoq, q_abort>>
                     /\ main' \in {"signal", "joining", "closed"} => main \in {"signal", "joining", "closed"}
    BY DEF Events, packetq, threads, AllocPicture, AllocFails, SignalDecoder, UserSeek,
       UserPause, Expose, Quit
  <2> QED
    BY <1>4, <2>2, <2>3, <2>4, <2>5
<1>5. CASE UNCHANGED vars
  <2>1. UNCHANGED <<videoq, serial, q_abort, gen, rd, pkt_serial, main>>
    BY <1>5 DEF vars, packetq, reader, decoder
  <2> QED
    BY <1>0, <1>c, <2>1
<1> QED
  BY <1>1, <1>2, <1>3, <1>4, <1>5, Threads

LEMMA DecoderNext ==
  ASSUME TypeOK, InvSerials, InvDecoder, [Next]_vars
  PROVE  InvDecoder'
<1> USE DEF InvDecoder, HasFrame
<1>0. InvDecoder /\ pkt \in Data /\ frame \in Data /\ serial \in Nat /\ pkt_serial \in Nat
  BY Types
<1>1. CASE VideoThread
  <2>1. CASE GetPacket
    <3>1. /\ videoq # <<>> /\ Len(videoq) >= 1 /\ dec = "get" /\ dec' = "got"
          /\ pkt' = videoq[1].data /\ pkt_serial' = videoq[1].serial /\ UNCHANGED <<pending, codec, frame>>
      BY <1>1, <2>1, VideoThreadTakes DEF GetPacket
    <3>2. 1 \in 1 .. Len(videoq) /\ videoq[1].data \in Data
      BY <3>1, Types
    <3>3. /\ videoq[1].serial = serial /\ (videoq[1].data = Flush <=> pkt_serial # serial)
          /\ videoq[1].data \in {Flush, Null} \/ videoq[1].data[1] = serial
          /\ serial >= 1
      BY <3>2 DEF InvSerials
    <3>4. pkt' # None
      BY <1>0, <3>1, <3>3, Contents
    <3>5. codec # <<>> => codec[1][1] = pkt_serial
      BY <1>0, <3>1
    <3>6. frame = None
      BY <1>0, <3>1
    <3> QED
      BY <1>0, <3>1, <3>3, <3>4, <3>5, <3>6
  <2>2. CASE DecodePacket
    <3>1. /\ dec = "decode" /\ pkt # Null /\ codec' = <<pkt>> /\ pending' = FALSE
          /\ UNCHANGED <<pkt, pkt_serial>> /\ dec' \in {"top", "queue"}
          /\ dec' = "top" => frame' = frame
          /\ dec' = "queue" => codec # <<>> /\ frame' = Head(codec)
      BY <2>2 DEF DecodePacket, Returned
    <3>2. codec'[1] = pkt /\ pkt[1] = pkt_serial /\ pkt # None /\ frame = None
      BY <1>0, <3>1
    <3>3. dec' = "queue" => frame'[1] = pkt_serial
      BY <1>0, <3>1, Types
    <3> QED
      BY <1>0, <3>1, <3>2, <3>3
  <2>3. CASE Drain
    <3>1. /\ dec = "decode" /\ pkt = Null /\ codec # <<>> /\ codec' = <<>> /\ pending' = pending
          /\ UNCHANGED <<pkt, pkt_serial>> /\ dec' \in {"top", "queue"}
          /\ dec' = "top" => frame' = frame
          /\ dec' = "queue" => frame' = Head(codec)
      BY <2>3 DEF Drain, Returned
    <3>2. frame = None
      BY <1>0, <3>1
    <3>3. dec' = "queue" => frame'[1] = pkt_serial
      BY <1>0, <3>1, Types
    <3> QED
      BY <1>0, <3>1, <3>2, <3>3
  <2>4. CASE DecodeNext
    <3>1. /\ UNCHANGED decoder /\ dec = "top" /\ dec' \in {"exited", "decode", "get"}
          /\ dec' = "decode" => pending
      BY <2>4 DEF DecodeNext
    <3> QED
      BY <1>0, <3>1, Contents DEF decoder
  <2>5. CASE GetNothing
    BY <1>0, <2>5, Contents DEF GetNothing, decoder
  <2>6. CASE GotFlush
    BY <1>0, <2>6, Contents DEF GotFlush, decoder
  <2>7. CASE GotPacket
    BY <1>0, <2>7, Contents DEF GotPacket, decoder
  <2>8. CASE DecodeFails \/ DecodeFailed
    BY <1>0, <2>8, Contents DEF DecodeFails, DecodeFailed, decoder
  <2>9. CASE Drained
    BY <1>0, <2>9, Contents DEF Drained, decoder
  <2>10. CASE QueueFull
    BY <1>0, <2>10, Contents DEF QueueFull, decoder
  <2>11. CASE QueueReady
    BY <1>0, <2>11, Contents DEF QueueReady, decoder
  <2>12. CASE QueueNeedsBitmap
    BY <1>0, <2>12, Contents DEF QueueNeedsBitmap, decoder
  <2>13. CASE AllocTest
    BY <1>0, <2>13, Contents DEF AllocTest, decoder
  <2>14. CASE AllocAborted
    BY <1>0, <2>14, Contents DEF AllocAborted, decoder
  <2>15. CASE WritePicture
    BY <1>0, <2>15, Contents DEF WritePicture, decoder
  <2>16. CASE PushPicture
    BY <1>0, <2>16, Contents DEF PushPicture, decoder
  <2> QED
    BY <1>1, <2>1, <2>2, <2>3, <2>4, <2>5, <2>6, <2>7, <2>8, <2>9, <2>10, <2>11, <2>12,
       <2>13, <2>14, <2>15, <2>16
       DEF VideoThread
<1>2. CASE /\ UNCHANGED decoder
           /\ \/ dec' = dec
              \/ dec = "full" /\ dec' = "queue"
              \/ dec = "allocwait" /\ dec' = "alloc"
              \/ dec = "pktwait" /\ dec' = "get"
  BY <1>0, <1>2 DEF decoder
<1>3. UNCHANGED vars => UNCHANGED decoder /\ dec' = dec
  BY DEF vars
<1> QED
  BY <1>1, <1>2, <1>3, Threads, ReadThreadKeeps, VideoRefreshKeeps, EventsKeep

LEMMA SlotsNext ==
  ASSUME TypeOK, InvSlots, [Next]_vars
  PROVE  InvSlots'
<1>0. /\ InvSlots /\ size \in Nat /\ size <= Slots /\ Slots \in Nat /\ shown \in 0 .. 1
      /\ slots \in [0 .. (Slots - 1) -> Entry] /\ windex \in 0 .. (Slots - 1)
  BY PictureTypes, Types DEF TypeOK, TypeQueues
<1>1. CASE VideoThread
  <2>0. UNCHANGED <<rindex, shown, main>>
    BY <1>1, VideoThreadKeeps
  <2>1. CASE PushPicture
    <3>1. windex' = (rindex' + size') % Slots /\ size' = size + 1
      BY <1>1, <2>1, VideoThreadMoves DEF PushPicture
    <3>2. dec' = "top"
      BY <2>1 DEF PushPicture
    <3> QED
      BY <1>0, <2>0, <3>1, <3>2 DEF InvSlots
  <2>2. CASE WritePicture
    <3>1. /\ dec = "write" /\ dec' = "push" /\ UNCHANGED <<windex, size, pkt_serial, frame>>
          /\ slots' = [slots EXCEPT ![windex] = [serial |-> pkt_serial, data |-> frame]]
      BY <2>2 DEF WritePicture, decoder
    <3>2. slots'[windex'] = [serial |-> pkt_serial', data |-> frame']
      BY <1>0, <3>1
    <3> QED
      BY <1>0, <2>0, <3>1, <3>2 DEF InvSlots
  <2>3. CASE /\ UNCHANGED <<windex, size>> /\ dec' # "push"
             /\ dec' \in {"alloc", "allocwait", "write"} => size < Slots
    BY <1>0, <2>0, <2>3 DEF InvSlots
  <2>4. VideoThread => \/ PushPicture \/ WritePicture
                       \/ /\ UNCHANGED <<windex, size>> /\ dec' # "push"
                          /\ dec' \in {"alloc", "allocwait", "write"} => size < Slots
    BY <1>0
       DEF InvSlots, NoRoom, VideoThread, pictures, pictq, Returned, DecodeNext,
           GetPacket, GetNothing, GotFlush, GotPacket, DecodePacket, DecodeFails, DecodeFailed, Drain,
           Drained, QueueFull, QueueReady, QueueNeedsBitmap, AllocTest, AllocAborted
  <2> QED
    BY <1>1, <2>1, <2>2, <2>3, <2>4
<1>2. CASE VideoRefresh
  <2>1. /\ size' \in 0 .. Slots /\ size' <= size
        /\ shown' <= size' /\ (main' = "display" => shown' < size')
        /\ windex' = (rindex' + size') % Slots
    BY <1>2, VideoRefreshMoves
  <2>2. /\ UNCHANGED <<slots, windex, pkt_serial, frame>>
        /\ \/ dec' = dec
           \/ dec = "full" /\ dec' = "queue"
           \/ dec = "allocwait" /\ dec' = "alloc"
    BY <1>2, VideoRefreshKeeps DEF decoder
  <2> QED
    BY <1>0, <2>1, <2>2 DEF InvSlots
<1>3. CASE /\ UNCHANGED <<slots, windex, rindex, shown, size, pkt_serial, frame>>
           /\ main' = "display" => main = "display"
           /\ \/ dec' = dec
              \/ dec = "full" /\ dec' = "queue"
              \/ dec = "allocwait" /\ dec' = "alloc"
              \/ dec = "pktwait" /\ dec' = "get"
  BY <1>0, <1>3 DEF InvSlots
<1>4. CASE ReadThread
  BY <1>3, <1>4, ReadThreadKeeps DEF pictq, decoder
<1>5. CASE Events
  <2>1. main' = "display" => main = "display"
    BY <1>5
       DEF Events, AllocPicture, AllocFails, AbortQueue, SignalDecoder, Closed,
           UserSeek, UserPause, Expose, Quit
  <2> QED
    BY <1>3, <1>5, <2>1, EventsKeep DEF decoder
<1>6. CASE UNCHANGED vars
  BY <1>3, <1>6 DEF vars, pictq, decoder
<1> QED
  BY <1>1, <1>2, <1>4, <1>5, <1>6, Threads

-------------------------------------------------------------------------------
(***************************************************************************)
(* What was taken stays taken                                              *)
(***************************************************************************)
\* The part of InvRead that is about the packet queue.
QueueRead ==
  /\ \A k \in 1 .. Len(videoq) : HasBeenRead(videoq[k].data)
  /\ \A j, k \in 1 .. Len(videoq) : j < k => Before(videoq[j].data, videoq[k].data)

LEMMA UnchangedTaken ==
  ASSUME UNCHANGED <<videoq, gen, pos>>
  PROVE  /\ \A d : Taken(d) => Taken(d)'
         /\ QueueRead => QueueRead'
BY DEF Taken, HasBeenRead, QueueRead

\* A packet without data, or the next one of the file, goes behind the others.
LEMMA PutTaken ==
  ASSUME TypeOK, InvSerials, QueueRead, NEW e, Puts(e), gen' = gen, pos' \in Int, pos <= pos',
         HasBeenRead(e.data)',
         \A d \in Data : HasBeenRead(d) => Before(d, e.data)
  PROVE  /\ \A d \in Data : Taken(d) => Taken(d)'
         /\ QueueRead'
<1>0. /\ Len(videoq) \in Nat /\ gen \in Nat /\ pos \in Int
      /\ \A k \in 1 .. Len(videoq) : videoq[k].data \in Data
  BY Types
<1>1. ASSUME NEW d \in Data, HasBeenRead(d) PROVE HasBeenRead(d)'
  BY <1>0, <1>1, Contents DEF HasBeenRead
<1>2. ASSUME NEW d \in Data, Taken(d) PROVE Taken(d)'
  <2>1. ASSUME NEW k \in 1 .. Len(videoq') PROVE Before(d, videoq'[k].data)
    BY <1>2, <2>1 DEF Taken, Puts
  <2> QED
    BY <1>1, <1>2, <2>1 DEF Taken
<1>3. ASSUME NEW k \in 1 .. Len(videoq') PROVE HasBeenRead(videoq[k].data)'
  <2>1. CASE k \in 1 .. Len(videoq)
    <3>1. videoq'[k] = videoq[k]
      BY <2>1 DEF Puts
    <3>2. HasBeenRead(videoq[k].data) /\ videoq[k].data \in Data
      BY <1>0, <2>1 DEF QueueRead
    <3> QED
      BY <1>1, <3>1, <3>2 DEF HasBeenRead
  <2>2. CASE videoq'[k] = e
    BY <2>2 DEF HasBeenRead
  <2> QED
    BY <1>3, <2>1, <2>2 DEF Puts
<1>4. ASSUME NEW j \in 1 .. Len(videoq'), NEW k \in 1 .. Len(videoq'), j < k
      PROVE  Before(videoq'[j].data, videoq'[k].data)
  <2>1. j \in 1 .. Len(videoq) /\ videoq'[j] = videoq[j]
    BY <1>0, <1>4 DEF Puts
  <2>2. CASE k \in 1 .. Len(videoq)
    <3>1. videoq'[k] = videoq[k]
      BY <2>2 DEF Puts
    <3> QED
      BY <1>4, <2>1, <2>2, <3>1 DEF QueueRead
  <2>3. CASE videoq'[k] = e
    BY <1>0, <2>1, <2>3 DEF QueueRead
  <2> QED
    BY <1>4, <2>2, <2>3 DEF Puts
<1> QED
  BY <1>2, <1>3, <1>4 DEF QueueRead, Before

LEMMA ReadThreadTaken ==
  ASSUME TypeOK, InvSerials, QueueRead, ReadThread
  PROVE  /\ \A d \in Data : Taken(d) => Taken(d)'
         /\ QueueRead'
<1>0. serial >= 1 /\ gen \in Nat /\ gen >= 1 /\ pos \in Int /\ serial \in Nat
  BY Types DEF InvSerials
<1>1. CASE QuietRead
  BY <1>1, UnchangedTaken DEF QuietRead
<1>2. CASE ReadSeek
  <2>1. videoq' = <<>> /\ Len(videoq') = 0 /\ gen' = gen + 1
    BY <1>2, EmptySeq DEF ReadSeek
  <2>2. ASSUME NEW d \in Data, HasBeenRead(d) PROVE HasBeenRead(d)'
    BY <1>0, <2>1, <2>2, Contents DEF HasBeenRead
  <2> QED
    BY <2>1, <2>2 DEF Taken, QueueRead
<1>3. ASSUME NEW n, NEW f \in Data, f = <<gen, pos + 1>>, Puts([serial |-> n, data |-> f]),
             gen' = gen, pos' = pos + 1
      PROVE  /\ \A d \in Data : Taken(d) => Taken(d)'
             /\ QueueRead'
  <2> DEFINE e == [serial |-> n, data |-> f]
  <2>1. f[1] = gen /\ f[2] = pos + 1 /\ e.data = f
    BY <1>0, <1>3, Contents
  <2>2. HasBeenRead(e.data)'
    BY <1>0, <1>3, <2>1 DEF HasBeenRead
  <2>3. \A d \in Data : HasBeenRead(d) => Before(d, e.data)
    BY <1>0, <2>1, Contents DEF HasBeenRead, Before
  <2>4. pos' \in Int /\ pos <= pos' /\ gen' = gen
    BY <1>0, <1>3
  <2>5. Puts(e)
    BY <1>3
  <2> HIDE DEF e
  <2> QED
    BY <2>2, <2>3, <2>4, <2>5, PutTaken
<1>4. ASSUME NEW n, NEW f \in {Flush, Null}, Puts([serial |-> n, data |-> f]), gen' = gen, pos' = pos
      PROVE  /\ \A d \in Data : Taken(d) => Taken(d)'
             /\ QueueRead'
  <2> DEFINE e == [serial |-> n, data |-> f]
  <2>1. f \in Data /\ f[1] = 0 /\ e.data = f
    BY Contents
  <2>2. HasBeenRead(e.data)'
    BY <1>0, <1>4, <2>1 DEF HasBeenRead
  <2>3. \A d \in Data : HasBeenRead(d) => Before(d, e.data)
    BY <2>1, Contents DEF Before
  <2>4. pos' \in Int /\ pos <= pos' /\ gen' = gen
    BY <1>0, <1>4
  <2>5. Puts(e)
    BY <1>4
  <2> HIDE DEF e
  <2> QED
    BY <2>2, <2>3, <2>4, <2>5, PutTaken
<1>5. <<gen, pos + 1>> \in Data
  BY <1>0, Contents
<1> QED
  BY <1>1, <1>2, <1>3, <1>4, <1>5, ReadThreadMoves

LEMMA TakenNext ==
  ASSUME TypeOK, InvSerials, QueueRead, [Next]_vars
  PROVE  /\ \A d \in Data : Taken(d) => Taken(d)'
         /\ QueueRead'
         /\ GetPacket => pkt' = videoq[1].data /\ Taken(pkt)'
<1>0. Len(videoq) \in Nat
  BY Types
<1>1. CASE ReadThread
  <2>1. GetPacket => FALSE
    <3>1. UNCHANGED <<dec>> \/ dec = "pktwait"
      BY <1>1, ReadThreadKeeps
    <3> QED
      BY <3>1, <1>1, ReadThreadKeeps DEF GetPacket
  <2> QED
    BY <1>1, <2>1, ReadThreadTaken
<1>2. CASE GetPacket
  <2>0. VideoThread
    BY <1>2 DEF VideoThread
  <2>1. gen' = gen /\ pos' = pos
    BY <2>0, VideoThreadKeeps DEF reader
  <2>2. /\ Len(videoq) >= 1 /\ Len(videoq') = Len(videoq) - 1
        /\ \A k \in 1 .. Len(videoq') : k + 1 \in 1 .. Len(videoq) /\ videoq'[k] = videoq[k + 1]
    <3>1. dec = "get" /\ dec' = "got"
      BY <1>2 DEF GetPacket
    <3> QED
      BY <2>0, <3>1, VideoThreadTakes
  <2>3. \A d : HasBeenRead(d) => HasBeenRead(d)'
    BY <2>1 DEF HasBeenRead
  <2>4. ASSUME NEW d \in Data, Taken(d) PROVE Taken(d)'
    BY <2>2, <2>3, <2>4 DEF Taken, Before
  <2>5. QueueRead'
    <3>1. ASSUME NEW k \in 1 .. Len(videoq') PROVE HasBeenRead(videoq[k].data)'
      <4>1. HasBeenRead(videoq[k + 1].data) /\ videoq'[k] = videoq[k + 1]
        BY <2>2 DEF QueueRead
      <4> QED
        BY <2>1, <4>1 DEF HasBeenRead
    <3>2. ASSUME NEW j \in 1 .. Len(videoq'), NEW k \in 1 .. Len(videoq'), j < k
          PROVE  Before(videoq'[j].data, videoq'[k].data)
      <4>1. j + 1 < k + 1 /\ j + 1 \in 1 .. Len(videoq) /\ k + 1 \in 1 .. Len(videoq)
        BY <2>2, <3>2
      <4>2. Before(videoq[j + 1].data, videoq[k + 1].data)
        BY <4>1 DEF QueueRead
      <4> QED
        BY <2>2, <4>2
    <3> QED
      BY <3>1, <3>2 DEF QueueRead, Before
  <2>6. pkt' = videoq[1].data /\ Taken(pkt)'
    <3>1. pkt' = videoq[1].data
      BY <1>2, <2>0, <2>2, VideoThreadTakes DEF GetPacket
    <3>2. HasBeenRead(videoq[1].data) /\ 1 \in 1 .. Len(videoq)
      BY <1>0, <2>2 DEF QueueRead
    <3>3. ASSUME NEW k \in 1 .. Len(videoq') PROVE Before(videoq[1].data, videoq'[k].data)
      <4>1. 1 < k + 1 /\ k + 1 \in 1 .. Len(videoq)
        BY <2>2
      <4> QED
        BY <2>2, <3>2, <4>1 DEF QueueRead
    <3> QED
      BY <2>1, <3>1, <3>2, <3>3 DEF Taken, HasBeenRead, Before
  <2> QED
    BY <2>4, <2>5, <2>6
<1>3. CASE ~GetPacket /\ UNCHANGED <<videoq, gen, pos>>
  BY <1>3, UnchangedTaken
<1>4. CASE VideoThread
  BY <1>2, <1>3, <1>4, VideoThreadTakes, VideoThreadKeeps DEF reader
<1>5. CASE VideoRefresh
  <2>1. UNCHANGED <<videoq, gen, pos>>
    BY <1>5, VideoRefreshKeeps DEF packetq, reader
  <2> QED
    BY <1>2, <1>3, <2>1
<1>6. CASE Events
  <2>0. gen' = gen /\ pos' = pos
    BY <1>6, EventsKeep DEF reader
  <2>1. CASE UNCHANGED videoq
    BY <1>2, <1>3, <2>0, <2>1
  <2>2. CASE videoq' = <<>>
    <3>1. Len(videoq') = 0
      BY <2>2, EmptySeq
    <3>2. \A d : Taken(d) => Taken(d)'
      BY <2>0, <3>1 DEF Taken, HasBeenRead
    <3>3. QueueRead'
      BY <3>1 DEF QueueRead
    <3> QED
      BY <1>2, <3>2, <3>3
  <2>3. Events => UNCHANGED videoq \/ videoq' = <<>>
    BY DEF Events, packetq, threads, AllocPicture, AllocFails, AbortQueue,
       SignalDecoder, Closed, UserSeek, UserPause, Expose, Quit
  <2> QED
    BY <1>6, <2>1, <2>2, <2>3
<1>7. CASE UNCHANGED vars
  <2>1. UNCHANGED <<videoq, gen, pos>>
    BY <1>7 DEF vars, packetq, reader
  <2> QED
    BY <1>2, <1>3, <2>1
<1> QED
  BY <1>1, <1>2, <1>4, <1>5, <1>6, <1>7, Threads

LEMMA FramesMove ==
  ASSUME TypeOK, [Next]_vars
  PROVE  /\ frame' \in {frame, None} \/ (codec # <<>> /\ frame' = codec[1])
         /\ codec' \in {<<>>, codec, <<pkt>>}
<1>0. codec # <<>> => Head(codec) = codec[1]
  BY Types
<1>1. VideoThread => /\ frame' \in {frame, None} \/ (codec # <<>> /\ frame' = Head(codec))
                     /\ codec' \in {<<>>, codec, <<pkt>>}
  BY DEF VideoThread, decoder, Returned, DecodeNext, GetPacket, GetNothing, GotFlush,
     GotPacket, DecodePacket, DecodeFails, DecodeFailed, Drain, Drained, QueueFull, QueueReady,
     QueueNeedsBitmap, AllocTest, AllocAborted, WritePicture, PushPicture
<1> QED
  BY <1>0, <1>1, Threads, ReadThreadKeeps, VideoRefreshKeeps, EventsKeep
     DEF decoder, vars

\* The pictures of a step: those of before, and one of the frame.
LEMMA PicturesMove ==
  ASSUME TypeOK, InvSlots, [Next]_vars, NEW i \in Queued'
  PROVE  \/ i \in Queued /\ Picture(i)' = Picture(i)
         \/ i + 1 \in Queued /\ Picture(i)' = Picture(i + 1)
         \/ PushPicture /\ Picture(i)' = [serial |-> pkt_serial, data |-> frame]
<1>1. CASE UNCHANGED <<slots, rindex, size>>
  BY <1>1, PicturesStay
<1>2. CASE VideoThread
  BY <1>2, VideoThreadMoves
<1>3. CASE VideoRefresh
  BY <1>3, VideoRefreshMoves
<1> QED
  BY <1>1, <1>2, <1>3, Threads, ReadThreadKeeps, EventsKeep DEF pictq, vars

LEMMA ReadNext ==
  ASSUME TypeOK, InvSerials, InvSlots, InvRead, [Next]_vars
  PROVE  InvRead'
<1>0. /\ pkt \in Data /\ frame \in Data /\ None \in Data /\ (codec # <<>> => codec[1] \in Data)
      /\ QueueRead /\ Taken(pkt) /\ Taken(frame)
      /\ codec # <<>> => Taken(codec[1])
      /\ \A i \in Queued : Taken(Picture(i).data) /\ Picture(i).data \in Data
  BY Types, PictureTypes, Contents DEF InvRead, QueueRead
<1>1. \A d \in Data : Taken(d) => Taken(d)'
  BY <1>0, TakenNext
<1>2. QueueRead'
  BY <1>0, TakenNext
<1>3. Taken(None)
  <2>1. gen >= 1 /\ gen \in Nat
    BY Types DEF InvSerials
  <2> QED
    BY <2>1, Contents DEF Taken, HasBeenRead, Before
<1>4. Taken(pkt)'
  <2>1. CASE pkt' = pkt
    BY <1>0, <1>1, <2>1 DEF Taken, HasBeenRead, Before
  <2>2. CASE GetPacket
    BY <1>0, <2>2, TakenNext
  <2> QED
    BY <2>1, <2>2, Threads, ReadThreadKeeps, VideoThreadTakes, VideoRefreshKeeps,
       EventsKeep
       DEF decoder, vars
<1>5. ASSUME NEW d \in Data, Taken(d), frame' = d PROVE Taken(frame)'
  BY <1>1, <1>5 DEF Taken, HasBeenRead, Before
<1>6. Taken(frame)'
  BY <1>0, <1>3, <1>5, FramesMove
<1>7. codec' # <<>> => Taken(codec[1])'
  <2>1. CASE codec' = codec
    BY <1>0, <1>1, <2>1 DEF Taken, HasBeenRead, Before
  <2>2. CASE codec' = <<pkt>>
    <3>1. codec'[1] = pkt
      BY <2>2
    <3> QED
      BY <1>0, <1>1, <3>1 DEF Taken, HasBeenRead, Before
  <2> QED
    BY <2>1, <2>2, FramesMove
<1>8. ASSUME NEW i \in Queued' PROVE Taken(Picture(i).data)'
  <2>1. ASSUME NEW d \in Data, Taken(d), Picture(i)'.data = d PROVE Taken(Picture(i).data)'
    BY <1>1, <2>1 DEF Taken, HasBeenRead, Before
  <2>2. CASE i \in Queued /\ Picture(i)' = Picture(i)
    BY <1>0, <2>1, <2>2
  <2>3. CASE i + 1 \in Queued /\ Picture(i)' = Picture(i + 1)
    BY <1>0, <2>1, <2>3
  <2>4. CASE Picture(i)' = [serial |-> pkt_serial, data |-> frame]
    BY <1>0, <2>1, <2>4
  <2> QED
    BY <1>8, <2>2, <2>3, <2>4, PicturesMove
<1> QED
  BY <1>2, <1>4, <1>6, <1>7, <1>8 DEF InvRead, QueueRead

LEMMA PicturesNext ==
  ASSUME TypeOK, InvSlots, InvDecoder, InvPictures, SerialsTellTheTruth, [Next]_vars
  PROVE  InvPictures' /\ SerialsTellTheTruth'
<1>0. PushPicture => pkt_serial >= 1 /\ frame[1] = pkt_serial
  BY Types DEF PushPicture, InvDecoder, HasFrame
<1>1. ASSUME NEW i \in Queued'
      PROVE  Picture(i)'.serial >= 1 /\ Picture(i)'.data[1] = Picture(i)'.serial
  <2>1. CASE i \in Queued /\ Picture(i)' = Picture(i)
    BY <2>1 DEF InvPictures, SerialsTellTheTruth
  <2>2. CASE i + 1 \in Queued /\ Picture(i)' = Picture(i + 1)
    BY <2>2 DEF InvPictures, SerialsTellTheTruth
  <2>3. CASE PushPicture /\ Picture(i)' = [serial |-> pkt_serial, data |-> frame]
    BY <1>0, <2>3
  <2> QED
    BY <1>1, <2>1, <2>2, <2>3, PicturesMove
<1> QED
  BY <1>1 DEF InvPictures, SerialsTellTheTruth

\* No new picture, and the decoder does not get on.
LEMMA OrderKept ==
  ASSUME TypeOK, InvOrder, UNCHANGED <<pkt, codec, frame>>,
         dec' \in {"got", "decode"} => dec \in {"got", "decode"},
         \/ Queued' = Queued /\ \A i \in Queued' : Picture(i)' = Picture(i)
         \/ \A i \in Queued' : i + 1 \in Queued /\ Picture(i)' = Picture(i + 1)
  PROVE  InvOrder'
<1>0. Queued \subseteq Nat
  BY PictureTypes
<1>1. CASE Queued' = Queued /\ \A i \in Queued' : Picture(i)' = Picture(i)
  BY <1>1 DEF InvOrder, Before
<1>2. CASE \A i \in Queued' : i + 1 \in Queued /\ Picture(i)' = Picture(i + 1)
  <2>1. \A i, j \in Queued' : i < j => Before(Picture(i)'.data, Picture(j)'.data)
    <3>1. SUFFICES ASSUME NEW i \in Queued', NEW j \in Queued', i < j
                   PROVE  Before(Picture(i)'.data, Picture(j)'.data)
      OBVIOUS
    <3>2. i \in Int /\ j \in Int
      BY DEF Queued
    <3>3. i + 1 < j + 1 /\ i + 1 \in Queued /\ j + 1 \in Queued
      BY <1>2, <3>1, <3>2
    <3> QED
      BY <1>2, <3>3 DEF InvOrder
  <2> QED
    BY <1>2, <2>1 DEF InvOrder, Before
<1> QED
  BY <1>1, <1>2

LEMMA OrderNext ==
  ASSUME TypeOK, InvSerials, InvDecoder, InvSlots, InvRead, InvOrder, [Next]_vars
  PROVE  InvOrder'
<1>0. /\ \A i, j \in Queued : i < j => Before(Picture(i).data, Picture(j).data)
      /\ \A i \in Queued :
           /\ Before(Picture(i).data, frame)
           /\ codec # <<>> => Before(Picture(i).data, codec[1])
           /\ dec \in {"got", "decode"} => Before(Picture(i).data, pkt)
      /\ codec # <<>> => Before(frame, codec[1])
      /\ codec # <<>> /\ dec \in {"got", "decode"} => Before(codec[1], pkt)
  BY DEF InvOrder
<1>1. CASE VideoThread
  <2>1. CASE PushPicture
    <3>1. /\ UNCHANGED <<pkt, codec>> /\ frame' = None /\ dec' = "top" /\ size' = size + 1
      BY <2>1 DEF PushPicture
    <3>2. \A i \in Queued' : \/ i \in Queued /\ Picture(i)' = Picture(i)
                             \/ /\ i = size /\ i \notin Queued
                                /\ Picture(i)' = [serial |-> pkt_serial, data |-> frame]
      <4>1. size' # size
        BY <3>1, PictureTypes
      <4> QED
        BY <1>1, <4>1, VideoThreadMoves
    <3>3. ASSUME NEW i \in Queued', NEW j \in Queued', i < j
          PROVE  Before(Picture(i)'.data, Picture(j)'.data)
      <4>1. i \in Queued /\ Picture(i)' = Picture(i)
        <5>1. i \in Int /\ j \in Int /\ size \in Int /\ j <= size
          BY <3>1, PictureTypes DEF Queued
        <5> QED
          BY <3>2, <3>3, <5>1
      <4>2. CASE j \in Queued /\ Picture(j)' = Picture(j)
        BY <1>0, <3>3, <4>1, <4>2
      <4>3. CASE Picture(j)' = [serial |-> pkt_serial, data |-> frame]
        BY <1>0, <4>1, <4>3
      <4> QED
        BY <3>2, <4>2, <4>3
    <3>4. ASSUME NEW i \in Queued'
          PROVE  /\ Before(Picture(i)'.data, None)
                 /\ codec # <<>> => Before(Picture(i)'.data, codec[1])
      <4>1. CASE i \in Queued /\ Picture(i)' = Picture(i)
        BY <1>0, <4>1, Contents DEF Before
      <4>2. CASE Picture(i)' = [serial |-> pkt_serial, data |-> frame]
        BY <1>0, <4>2, Contents DEF Before
      <4> QED
        BY <3>2, <3>4, <4>1, <4>2
    <3>5. codec # <<>> => Before(None, codec[1])
      BY Contents DEF Before
    <3> QED
      BY <3>1, <3>3, <3>4, <3>5 DEF InvOrder, Before
  <2>a. ASSUME ~PushPicture PROVE Queued' = Queued /\ \A i \in Queued : Picture(i)' = Picture(i)
    BY <1>1, <2>a, VideoThreadMoves
  <2>2. CASE GetPacket
    <3>0. ~PushPicture
      BY <2>2 DEF GetPacket, PushPicture
    <3>1. /\ UNCHANGED <<codec, frame>> /\ pkt' = videoq[1].data /\ 1 \in 1 .. Len(videoq)
      <4>1. dec = "get" /\ dec' = "got"
        BY <2>2 DEF GetPacket
      <4> QED
        BY <1>1, <4>1, VideoThreadTakes, Types
    <3>2. \A i \in Queued : Before(Picture(i).data, pkt')
      BY <3>1 DEF InvRead, Taken
    <3>3. codec # <<>> => Before(codec[1], pkt')
      BY <3>1 DEF InvRead, Taken
    <3> QED
      BY <1>0, <2>a, <3>0, <3>1, <3>2, <3>3 DEF InvOrder, Before
  <2>3. CASE GotFlush \/ DecodeFails
    <3>1. /\ ~PushPicture /\ UNCHANGED <<pkt, frame>> /\ codec' \in {codec, <<>>}
          /\ dec' \in {"get", "failed"}
      BY <2>3 DEF GotFlush, DecodeFails, PushPicture
    <3> QED
      BY <1>0, <2>a, <3>1 DEF InvOrder, Before
  <2>4. CASE DecodeNext
    <3>1. /\ ~PushPicture /\ UNCHANGED <<pkt, codec, frame>> /\ dec = "top"
          /\ dec' \in {"got", "decode"} => pending
      BY <2>4 DEF DecodeNext, PushPicture, decoder
    <3>2. dec' \in {"got", "decode"} => pkt = Null
      BY <3>1 DEF InvDecoder
    <3>3. \A d : Before(d, Null)
      BY Contents DEF Before
    <3> QED
      BY <1>0, <2>a, <3>1, <3>2, <3>3 DEF InvOrder, Before
  <2>5. CASE DecodePacket
    <3>1. /\ ~PushPicture /\ dec = "decode" /\ codec' = <<pkt>>
          /\ UNCHANGED <<pkt>> /\ dec' \in {"top", "queue"}
          /\ frame' = frame \/ (codec # <<>> /\ frame' = Head(codec))
      BY <2>5 DEF DecodePacket, Returned, PushPicture
    <3>2. codec'[1] = pkt /\ frame = None
      BY <3>1 DEF InvDecoder, HasFrame
    <3>3. frame' = None \/ (codec # <<>> /\ frame' = codec[1])
      BY <3>1, <3>2, Types
    <3>4. \A d : Before(d, None) /\ Before(None, d)
      BY Contents DEF Before
    <3>5. \A i \in Queued : Before(Picture(i).data, frame') /\ Before(Picture(i).data, pkt)
      BY <1>0, <3>1, <3>3, <3>4
    <3>6. Before(frame', pkt)
      BY <1>0, <3>1, <3>3, <3>4
    <3> QED
      BY <1>0, <2>a, <3>1, <3>2, <3>5, <3>6 DEF InvOrder, Before
  <2>6. CASE Drain
    <3>1. /\ ~PushPicture /\ dec = "decode" /\ codec' = <<>> /\ codec # <<>>
          /\ UNCHANGED <<pkt>> /\ dec' \in {"top", "queue"}
          /\ frame' = frame \/ frame' = Head(codec)
      BY <2>6 DEF Drain, Returned, PushPicture
    <3>2. \A i \in Queued : Before(Picture(i).data, frame')
      BY <1>0, <3>1, Types
    <3> QED
      BY <1>0, <2>a, <3>1, <3>2 DEF InvOrder, Before
  <2>7. CASE /\ ~PushPicture /\ UNCHANGED <<pkt, codec, frame>>
             /\ dec' \in {"got", "decode"} => dec \in {"got", "decode"}
    BY <2>a, <2>7, OrderKept
  <2>8. VideoThread =>
          \/ GetPacket \/ DecodePacket \/ Drain \/ GotFlush \/ DecodeFails \/ DecodeNext \/ PushPicture
          \/ /\ ~PushPicture /\ UNCHANGED <<pkt, codec, frame>>
             /\ dec' \in {"got", "decode"} => dec \in {"got", "decode"}
    BY DEF VideoThread, decoder, GetNothing, GotPacket, DecodeFailed, Drained, QueueFull,
       QueueReady, QueueNeedsBitmap, AllocTest, AllocAborted, WritePicture, PushPicture
  <2> QED
    BY <1>1, <2>1, <2>2, <2>3, <2>4, <2>5, <2>6, <2>7, <2>8
<1>2. CASE VideoRefresh
  BY <1>2, OrderKept, VideoRefreshKeeps, VideoRefreshMoves DEF decoder
<1>3. CASE /\ UNCHANGED <<slots, rindex, size, pkt, codec, frame>>
           /\ dec' \in {"got", "decode"} => dec \in {"got", "decode"}
  BY <1>3, OrderKept, PicturesStay
<1>4. CASE ReadThread
  BY <1>3, <1>4, ReadThreadKeeps DEF pictq, decoder
<1>5. CASE Events
  BY <1>3, <1>5, EventsKeep DEF decoder
<1>6. CASE UNCHANGED vars
  BY <1>3, <1>6 DEF vars, pictq, decoder
<1> QED
  BY <1>1, <1>2, <1>4, <1>5, <1>6, Threads

-------------------------------------------------------------------------------
(***************************************************************************)
(* The theorems                                                            *)
(***************************************************************************)
LEMMA InitInductive == Init => Inductive
<1> SUFFICES ASSUME Init PROVE Inductive
  OBVIOUS
<1>0. /\ Slots \in Nat /\ Slots >= 2 /\ Packets \in Nat /\ Loop \in Nat \ {0}
  BY PlaybackAssumption
<1> DEFINE e == [serial |-> 1, data |-> Flush]
<1>1. /\ e \in Entry /\ videoq = <<e>> /\ videoq \in Seq(Entry) /\ Len(videoq) = 1 /\ videoq[1] = e
      /\ codec = <<>> /\ codec \in Seq(Data) /\ Len(codec) = 0
  BY Contents DEF Init, Entry
<1>2. TypeQueues
  <2>1. slots \in [0 .. (Slots - 1) -> Entry] /\ bmp \in [0 .. (Slots - 1) -> BOOLEAN]
    <3>1. [serial |-> 0, data |-> None] \in Entry
      BY Contents DEF Entry
    <3> QED
      BY <3>1 DEF Init
  <2>2. /\ serial \in Nat /\ q_abort \in BOOLEAN /\ alloc_event \in BOOLEAN
        /\ windex \in 0 .. (Slots - 1) /\ rindex \in 0 .. (Slots - 1)
        /\ shown \in 0 .. 1 /\ size \in 0 .. Slots
    <3>1. /\ serial = 1 /\ q_abort = FALSE /\ alloc_event = FALSE
          /\ windex = 0 /\ rindex = 0 /\ shown = 0 /\ size = 0
      BY DEF Init
    <3>2. serial \in Nat /\ shown \in 0 .. 1
      BY <3>1
    <3>3. /\ windex \in 0 .. (Slots - 1) /\ rindex \in 0 .. (Slots - 1)
          /\ size \in 0 .. Slots
      BY <1>0, <3>1
    <3>4. q_abort \in BOOLEAN /\ alloc_event \in BOOLEAN
      BY <3>1, Zenon
    <3> QED
      BY <3>2, <3>3, <3>4
  <2> QED
    BY <1>1, <2>1, <2>2 DEF TypeQueues, Entry
<1>3. TypeReader /\ TypeState
  <2>1. /\ rd = "top" /\ pos = 0 /\ gen = 1 /\ eof = FALSE /\ loop = Loop
        /\ seek_req = FALSE /\ seek_pos = 0 /\ paused = FALSE /\ step = FALSE
        /\ abort_request = FALSE /\ main = "loop" /\ redisplay = FALSE
        /\ force_refresh = FALSE /\ vidclk_serial = -1 /\ events = 0
    BY DEF Init
  <2>2. /\ pos \in 0 .. Packets /\ gen \in Nat /\ loop \in Nat \ {0}
        /\ seek_pos \in 0 .. Packets /\ vidclk_serial \in Int /\ events \in Nat
    BY <1>0, <2>1
  <2>3. TypeReader
    BY <2>1, <2>2, Zenon DEF TypeReader
  <2>4. TypeState
    BY <2>1, <2>2, Zenon DEF TypeState
  <2> QED
    BY <2>3, <2>4
<1>4. TypeDecoder
  <2>1. /\ dec = "top" /\ pkt = None /\ frame = None /\ pkt_serial = 0 /\ pending = FALSE
        /\ finished = 0
    BY DEF Init
  <2>2. codec \in Seq(Data) /\ Len(codec) <= 1
    BY <1>1
  <2>3. pkt \in Data /\ frame \in Data
    BY <2>1, Contents
  <2> HIDE DEF e
  <2> QED
    BY <2>1, <2>2, <2>3 DEF TypeDecoder
<1>5. Queued = {}
  BY DEF Init, Queued
<1>6. InvSerials
  BY <1>1, Contents DEF Init, InvSerials
<1>7. InvDecoder
  BY <1>1 DEF Init, InvDecoder, HasFrame
<1>8. InvSlots
  <2>1. (0 + 0) % Slots = 0
    BY <1>0, Ring
  <2> QED
    BY <2>1 DEF Init, InvSlots
<1>9. InvRead
  <2>1. \A j, k \in 1 .. Len(videoq) : ~(j < k) /\ videoq[k] = e
    BY <1>1
  <2>2. e.data = Flush /\ gen = 1 /\ pkt = None /\ frame = None
    BY DEF Init
  <2> QED
    BY <1>1, <1>5, <2>1, <2>2, Contents DEF InvRead, Taken, HasBeenRead, Before
<1>10. InvOrder /\ InvPictures /\ SerialsTellTheTruth
  BY <1>1, <1>5 DEF InvOrder, InvPictures, SerialsTellTheTruth
<1> QED
  BY <1>2, <1>3, <1>4, <1>6, <1>7, <1>8, <1>9, <1>10 DEF Inductive, TypeOK

LEMMA NextInductive == Inductive /\ [Next]_vars => Inductive'
<1> SUFFICES ASSUME Inductive, [Next]_vars PROVE Inductive'
  OBVIOUS
<1>1. /\ TypeOK /\ InvSerials /\ InvDecoder /\ InvSlots /\ InvRead /\ InvOrder /\ InvPictures
      /\ SerialsTellTheTruth
  BY DEF Inductive
<1> QED
  BY <1>1, TypesNext, SerialsNext, DecoderNext, SlotsNext, ReadNext, OrderNext,
     PicturesNext
     DEF Inductive

\* What follows in any one state.
LEMMA InOrder ==
  ASSUME Inductive PROVE PicturesInv
<1>1. PicturesInOrder
  <2>1. SUFFICES ASSUME NEW i \in Queued, NEW j \in Queued, i < j, Picture(i).serial = Picture(j).serial
                 PROVE  Picture(i).data[2] < Picture(j).data[2]
    BY DEF PicturesInOrder
  <2>2. /\ Picture(i).data[1] = Picture(i).serial /\ Picture(i).serial >= 1
        /\ Picture(j).data[1] = Picture(j).serial /\ Picture(i).serial \in Nat
    BY PictureTypes DEF Inductive, SerialsTellTheTruth, InvPictures
  <2>3. Before(Picture(i).data, Picture(j).data)
    BY <2>1 DEF Inductive, InvOrder
  <2> QED
    BY <2>1, <2>2, <2>3 DEF Before
<1>2. ShownSlotIsNotWritten
  <2>1. SUFFICES ASSUME dec \in {"write", "push"}
                 PROVE  \A i \in Queued : windex # (rindex + i) % Slots
    BY DEF ShownSlotIsNotWritten
  <2>2. size < Slots
    BY <2>1 DEF Inductive, InvSlots
  <2> QED
    BY <2>2, FreeSlot DEF Inductive
<1> QED
  BY <1>1, <1>2 DEF Inductive, PicturesInv

\* The invariant holds in every state: the packet queue, the decoder and the picture
\* queue agree about serials and positions, whatever the threads do.
THEOREM Invariance == Spec => []PicturesInv
<1>1. Init => Inductive
  BY InitInductive
<1>2. Inductive /\ [Next]_vars => Inductive'
  BY NextInductive
<1>3. Inductive => PicturesInv
  BY InOrder
<1> QED
  BY <1>1, <1>2, <1>3, PTL DEF Spec

\* A picture in the queue was decoded from packets read after the seek its serial
\* stands for.
THEOREM NoPictureFromBeforeASeek == Spec => []SerialsTellTheTruth
<1>1. Init => Inductive
  BY InitInductive
<1>2. Inductive /\ [Next]_vars => Inductive'
  BY NextInductive
<1>3. Inductive => SerialsTellTheTruth
  BY DEF Inductive
<1> QED
  BY <1>1, <1>2, <1>3, PTL DEF Spec

-------------------------------------------------------------------------------
(***************************************************************************)
(* The end of the file                                                     *)
(***************************************************************************)

\* A null packet is queued at the end of the file only, and nothing but null packets
\* after it.
QueueEnds ==
  \A j \in 1 .. Len(videoq) : videoq[j].data = Null =>
    pos = Packets /\ \A k \in j .. Len(videoq) : videoq[k].data = Null

\* Until the next seek that stays so when the decoder has taken it; and when the
\* decoder says that it has finished the current serial, nothing is left in it.
InvEnd ==
  /\ finished <= pkt_serial
  /\ finished = serial => pkt = Null /\ codec = <<>> /\ frame = None
  /\ pkt = Null /\ pkt_serial = serial /\ rd # "flushed" =>
       pos = Packets /\ \A k \in 1 .. Len(videoq) : videoq[k].data = Null
  /\ QueueEnds

LEMMA ReadThreadEnd ==
  ASSUME TypeOK, InvSerials, InvEnd, ReadThread
  PROVE  InvEnd'
<1>0. /\ Len(videoq) \in Nat /\ (videoq = <<>> <=> Len(videoq) = 0) /\ QueueEnds
      /\ finished \in Nat /\ pkt_serial \in Nat /\ serial \in Nat
      /\ finished <= pkt_serial /\ pkt_serial <= serial
      /\ UNCHANGED <<pkt, pkt_serial, finished, codec, frame>>
  BY Types, ReadThreadKeeps
     DEF InvEnd, InvSerials, QueueEnds, TypeOK, TypeDecoder, decoder
<1>1. CASE QuietRead
  BY <1>0, <1>1 DEF QuietRead, InvEnd, QueueEnds
<1>2. CASE ReadSeek
  <2>1. rd' = "flushed" /\ videoq' = <<>> /\ serial' = serial
    BY <1>2 DEF ReadSeek
  <2>2. 1 .. Len(videoq') = {}
    BY <2>1, EmptySeq
  <2> QED
    BY <1>0, <2>1, <2>2 DEF InvEnd, QueueEnds
<1>3. CASE /\ serial' = serial + 1 /\ videoq = <<>>
           /\ Puts([serial |-> serial + 1, data |-> Flush])
  <2>1. \A k \in 1 .. Len(videoq') : videoq'[k].data # Null
    BY <1>0, <1>3, Contents DEF Puts
  <2>2. pkt_serial' # serial' /\ finished' # serial'
    BY <1>0, <1>3
  <2> QED
    BY <1>0, <2>1, <2>2 DEF InvEnd, QueueEnds
<1>4. CASE /\ ReadPacket /\ UNCHANGED <<serial, gen>> /\ rd # "flushed"
           /\ Puts([serial |-> serial, data |-> <<gen, pos + 1>>])
  <2>1. pos < Packets /\ Packets \in Nat /\ pos \in Int /\ gen \in Nat
    BY <1>4, PlaybackAssumption, Types DEF ReadPacket
  <2>2. <<gen, pos + 1>> # Null
    BY <2>1, PlaybackAssumption DEF Null, TypeOK, TypeReader
  <2>3. \A k \in 1 .. Len(videoq') : videoq'[k].data # Null
    BY <1>0, <1>4, <2>1, <2>2 DEF Puts, QueueEnds
  <2>4. ~(pkt = Null /\ pkt_serial = serial)
    BY <1>4, <2>1 DEF InvEnd
  <2> QED
    BY <1>0, <1>4, <2>3, <2>4 DEF InvEnd, QueueEnds
<1>5. CASE /\ ReadEof /\ UNCHANGED <<serial, gen, pos>> /\ rd # "flushed"
           /\ Puts([serial |-> serial, data |-> Null])
  <2>1. pos' = Packets
    BY <1>5 DEF ReadEof
  <2>2. \A k \in 1 .. Len(videoq') :
          \/ k \in 1 .. Len(videoq) /\ videoq'[k] = videoq[k]
          \/ k = Len(videoq) + 1 /\ videoq'[k].data = Null
    BY <1>5 DEF Puts
  <2>3. QueueEnds'
    <3> SUFFICES ASSUME NEW j \in 1 .. Len(videoq'), videoq'[j].data = Null,
                        NEW k \in j .. Len(videoq')
                 PROVE  videoq'[k].data = Null
      BY <2>1 DEF QueueEnds
    <3>1. CASE k \in 1 .. Len(videoq) /\ videoq'[k] = videoq[k]
      <4>1. j \in 1 .. Len(videoq) /\ k \in j .. Len(videoq)
        BY <1>0, <3>1
      <4>2. videoq'[j] = videoq[j]
        BY <1>0, <4>1, <2>2
      <4> QED
        BY <1>0, <3>1, <4>1, <4>2 DEF QueueEnds
    <3>2. k \in 1 .. Len(videoq')
      BY <1>0
    <3> QED
      BY <2>2, <3>1, <3>2
  <2>4. pkt' = Null /\ pkt_serial' = serial' =>
          \A k \in 1 .. Len(videoq') : videoq'[k].data = Null
    BY <1>0, <1>5, <2>2 DEF InvEnd
  <2> QED
    BY <1>0, <1>5, <2>1, <2>3, <2>4 DEF InvEnd, QueueEnds
<1> QED
  BY <1>1, <1>2, <1>3, <1>4, <1>5, ReadThreadMoves

LEMMA VideoThreadEnd ==
  ASSUME TypeOK, InvSerials, InvDecoder, InvEnd, VideoThread
  PROVE  InvEnd'
<1>0. /\ Len(videoq) \in Nat /\ (videoq = <<>> <=> Len(videoq) = 0) /\ QueueEnds
      /\ finished \in Nat /\ pkt_serial \in Nat /\ serial \in Nat
      /\ finished <= pkt_serial /\ pkt_serial <= serial /\ serial >= 1
      /\ UNCHANGED <<serial, rd, pos>>
  BY Types, VideoThreadKeeps
     DEF InvEnd, InvSerials, QueueEnds, TypeOK, TypeDecoder, reader
<1>1. CASE GetPacket
  <2>1. /\ videoq # <<>> /\ Len(videoq') = Len(videoq) - 1
        /\ pkt' = videoq[1].data /\ pkt_serial' = videoq[1].serial
        /\ \A k \in 1 .. Len(videoq') : k + 1 \in 1 .. Len(videoq) /\ videoq'[k] = videoq[k + 1]
    BY <1>1, VideoThreadTakes DEF GetPacket
  <2>2. UNCHANGED <<finished, codec, frame>>
    BY <1>1 DEF GetPacket
  <2>3. 1 \in 1 .. Len(videoq) /\ rd # "flushed" /\ pkt_serial' = serial
    BY <1>0, <2>1 DEF InvSerials
  <2>4. finished = serial => pkt' = Null
    BY <1>0, <2>1, <2>3 DEF InvEnd
  <2>5. pkt' = Null => pos = Packets /\ \A k \in 1 .. Len(videoq') : videoq'[k].data = Null
    <3>1. \A k \in 1 .. Len(videoq') : k + 1 \in 1 .. Len(videoq)
      BY <2>1
    <3>2. pkt' = Null => pos = Packets /\ \A k \in 1 .. Len(videoq) : videoq[k].data = Null
      BY <1>0, <2>1, <2>3 DEF QueueEnds
    <3> QED
      BY <2>1, <3>1, <3>2
  <2>6. QueueEnds'
    <3> SUFFICES ASSUME NEW j \in 1 .. Len(videoq'), videoq'[j].data = Null
                 PROVE  pos = Packets /\ \A k \in j .. Len(videoq') : videoq'[k].data = Null
      BY <1>0 DEF QueueEnds
    <3>1. j + 1 \in 1 .. Len(videoq) /\ videoq[j + 1].data = Null
      BY <2>1
    <3>2. pos = Packets /\ \A k \in (j + 1) .. Len(videoq) : videoq[k].data = Null
      BY <1>0, <3>1 DEF QueueEnds
    <3>3. \A k \in j .. Len(videoq') : /\ k \in 1 .. Len(videoq')
                                       /\ k + 1 \in (j + 1) .. Len(videoq)
      BY <1>0, <2>1
    <3> QED
      BY <2>1, <3>2, <3>3
  <2> QED
    BY <1>0, <2>2, <2>3, <2>4, <2>5, <2>6 DEF InvEnd, QueueEnds
<1>2. CASE Drained
  <2>1. /\ UNCHANGED <<videoq, pkt, pkt_serial, codec, frame>> /\ finished' = pkt_serial
        /\ pkt = Null /\ codec = <<>> /\ dec = "decode"
    BY <1>2 DEF Drained, packetq
  <2>2. frame = None
    BY <2>1 DEF InvDecoder, HasFrame
  <2> QED
    BY <1>0, <2>1, <2>2 DEF InvEnd, QueueEnds
<1>3. CASE GotFlush
  <2>1. UNCHANGED <<videoq, pkt, pkt_serial>> /\ finished' = 0
    BY <1>3 DEF GotFlush, packetq
  <2> QED
    BY <1>0, <2>1 DEF InvEnd, QueueEnds
<1>4. CASE /\ UNCHANGED <<videoq, pkt, pkt_serial, finished>>
           /\ UNCHANGED <<codec, frame>> \/ pkt # Null \/ codec # <<>> \/ frame # None
  BY <1>0, <1>4 DEF InvEnd, QueueEnds
<1>5. PushPicture => frame # None
  BY Contents, Types DEF PushPicture, InvDecoder, HasFrame
<1>6. VideoThread => \/ GetPacket \/ Drained \/ GotFlush
                     \/ /\ UNCHANGED <<videoq, pkt, pkt_serial, finished>>
                        /\ \/ UNCHANGED <<codec, frame>>
                           \/ pkt # Null \/ codec # <<>> \/ PushPicture
  BY DEF VideoThread, packetq, decoder, DecodeNext, GetNothing, GotPacket, DecodePacket,
     DecodeFails, DecodeFailed, Drain, QueueFull, QueueReady, QueueNeedsBitmap, AllocTest,
     AllocAborted, WritePicture, PushPicture
<1> QED
  BY <1>1, <1>2, <1>3, <1>4, <1>5, <1>6

LEMMA EndNext ==
  ASSUME Inductive, InvEnd, [Next]_vars
  PROVE  InvEnd'
<1>0. TypeOK /\ InvSerials /\ InvDecoder
  BY DEF Inductive
<1>1. CASE UNCHANGED <<serial, rd, pos, decoder>> /\ (videoq' = videoq \/ videoq' = <<>>)
  <2>1. UNCHANGED <<serial, rd, pos, pkt, pkt_serial, finished, codec, frame>>
    BY <1>1 DEF decoder
  <2>2. CASE videoq' = videoq
    BY <2>1, <2>2 DEF InvEnd, QueueEnds
  <2>3. CASE videoq' = <<>>
    <3>1. 1 .. Len(videoq') = {}
      BY <2>3, EmptySeq
    <3> QED
      BY <2>1, <3>1 DEF InvEnd, QueueEnds
  <2> QED
    BY <1>1, <2>2, <2>3
<1>2. VideoRefresh => UNCHANGED <<serial, rd, pos, decoder, videoq>>
  BY VideoRefreshKeeps DEF packetq, reader
<1>3. Events => UNCHANGED <<serial, rd, pos, decoder>> /\ (videoq' = videoq \/ videoq' = <<>>)
  <2>1. Events => videoq' = videoq \/ videoq' = <<>>
    BY DEF Events, packetq, threads, AllocPicture, AllocFails, AbortQueue, SignalDecoder,
       Closed, UserSeek, UserPause, Expose, Quit
  <2> QED
    BY <2>1, EventsKeep DEF reader
<1>4. UNCHANGED vars => UNCHANGED <<serial, rd, pos, decoder, videoq>>
  BY DEF vars, packetq, reader
<1> QED
  BY <1>0, <1>1, <1>2, <1>3, <1>4, ReadThreadEnd, VideoThreadEnd, Threads

\* The file is played again, or the player quits by itself, only when nothing read
\* since the last seek is still on its way: not in the packet queue, the codec, the
\* video thread or the picture queue, although finished is read without a lock.
THEOREM PlayedToTheEnd == Spec => EndedMeansAllShown
<1> DEFINE A == ReadLoop \/ ReadQuit =>
                  /\ \A i \in DOMAIN videoq : videoq[i].data \in {Flush, Null}
                  /\ codec = <<>> /\ frame = None
                  /\ pos = Packets
                  /\ \A i \in shown .. (size - 1) : Picture(i).serial # serial
<1>1. Init => Inductive /\ InvEnd
  <2> SUFFICES ASSUME Init PROVE InvEnd
    BY InitInductive
  <2>1. Len(videoq) = 1 /\ videoq[1].data = Flush
    BY DEF Init
  <2> QED
    BY <2>1, Contents DEF Init, InvEnd, QueueEnds
<1>2. Inductive /\ InvEnd /\ [Next]_vars => Inductive' /\ InvEnd'
  BY NextInductive, EndNext
<1>3. Inductive /\ InvEnd => A
  <2> SUFFICES ASSUME Inductive, InvEnd, ReadLoop \/ ReadQuit
               PROVE  /\ \A i \in DOMAIN videoq : videoq[i].data \in {Flush, Null}
                      /\ codec = <<>> /\ frame = None
                      /\ pos = Packets
                      /\ \A i \in shown .. (size - 1) : Picture(i).serial # serial
    OBVIOUS
  <2>1. rd = "body" /\ finished = serial /\ Remaining = 0
    BY DEF ReadLoop, ReadQuit, AtEnd
  <2>2. /\ finished <= pkt_serial /\ pkt_serial <= serial
        /\ pkt_serial \in Nat /\ serial \in Nat /\ finished \in Nat
    BY Types DEF Inductive, InvEnd, InvSerials, TypeOK, TypeDecoder
  <2>3. pkt = Null /\ codec = <<>> /\ frame = None /\ pkt_serial = serial
    BY <2>1, <2>2 DEF InvEnd, QueueEnds
  <2>4. pos = Packets /\ \A k \in 1 .. Len(videoq) : videoq[k].data = Null
    BY <2>1, <2>3 DEF InvEnd
  <2>5. DOMAIN videoq = 1 .. Len(videoq)
    BY Types, LenProperties DEF Inductive
  <2>6. shown .. (size - 1) = {}
    BY <2>1 DEF Remaining, Inductive, TypeOK, TypeQueues
  <2> QED
    BY <2>3, <2>4, <2>5, <2>6
<1>4. Inductive /\ InvEnd /\ [Next]_vars => [A]_vars
  BY <1>3
<1> QED
  BY <1>1, <1>2, <1>4, PTL DEF Spec, EndedMeansAllShown
================================================================================
