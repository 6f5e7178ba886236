-------------------------------- MODULE Playback --------------------------------
(***************************************************************************)
(* The video path of ffplay (ffplay.c): the read thread puts packets in    *)
(* videoq, the video thread decodes them into the picture queue pictq, and *)
(* the main thread shows the pictures and handles the events.              *)
(*                                                                         *)
(* A seek does not stop anything: the read thread empties videoq, puts a   *)
(* flush packet and raises the queue's serial; packets carry the serial    *)
(* they were queued under, pictures that of the packet the decoder got     *)
(* last, and whoever meets an old one skips it.                            *)
(*                                                                         *)
(* A critical section of a queue's mutex is a step, as is each access to   *)
(* the fields of VideoState, Decoder and FrameQueue that are shared        *)
(* without a mutex.  Times are abstracted: the main thread may find a      *)
(* picture due, or late, whenever it looks.  The waits of the read thread  *)
(* have a timeout and are polls.                                           *)
(***************************************************************************)
EXTENDS Integers, Sequences

CONSTANTS
  Packets,      \* packets in the file
  MaxQueued,    \* videoq is full above this many packets (MIN_FRAMES)
  Slots,        \* VIDEO_PICTURE_QUEUE_SIZE
  Targets,      \* positions the user may seek to
  Loop,         \* the -loop option: how often the file is played
  MaxEvents,    \* bound on the user's seeks, pauses and steps
  SeekRounds    \* bound: the values of loop with which the user seeks

ASSUME PlaybackAssumption ==
  /\ Packets \in Nat /\ MaxQueued \in Nat /\ Slots \in Nat /\ Slots >= 2
  /\ Targets \subseteq 0 .. Packets /\ Loop \in Nat \ {0}
  /\ MaxEvents \in Nat /\ SeekRounds \subseteq 1 .. Loop

VARIABLES
  videoq, serial, q_abort,               \* PacketQueue: packets, serial, abort_request
  rd, pos, gen, eof, loop,               \* read thread; position; seeks it has made
  seek_req, seek_pos, paused, step, abort_request,      \* VideoState
  dec,                                   \* where the video thread is
  pkt, pkt_serial, pending, finished,    \* Decoder
  codec,                                 \* frames the codec holds back
  frame,                                 \* the frame it returned
  slots, windex, rindex, shown, size,    \* FrameQueue pictq (shown: rindex_shown)
  bmp, alloc_event,                      \* slots with a bitmap; FF_ALLOC_EVENT pending
  main, redisplay, force_refresh, vidclk_serial,
  events                                 \* of the user, so far

packetq == <<videoq, serial, q_abort>>
reader == <<rd, pos, gen, eof, loop>>
state == <<seek_req, seek_pos, paused, step, abort_request>>
decoder == <<pkt, pkt_serial, pending, finished, codec, frame>>
pictq == <<slots, windex, rindex, shown, size, bmp>>
display == <<redisplay, force_refresh, vidclk_serial>>
user == <<events>>
vars == <<packetq, reader, state, dec, decoder, pictq, alloc_event, main, display, user>>

\* Contents of packets and frames: the seek they were read after, and where.
None == <<0, 0>>
Flush == <<0, -1>>
Null == <<0, -2>>

Init ==
  /\ videoq = <<[serial |-> 1, data |-> Flush]>> /\ serial = 1 /\ q_abort = FALSE
  /\ rd = "top" /\ pos = 0 /\ gen = 1 /\ eof = FALSE /\ loop = Loop
  /\ seek_req = FALSE /\ seek_pos = 0 /\ paused = FALSE /\ step = FALSE
  /\ abort_request = FALSE
  /\ dec = "top" /\ pkt = None /\ pkt_serial = 0 /\ pending = FALSE /\ finished = 0
  /\ codec = <<>> /\ frame = None
  /\ slots = [i \in 0 .. (Slots - 1) |-> [serial |-> 0, data |-> None]]
  /\ windex = 0 /\ rindex = 0 /\ shown = 0 /\ size = 0
  /\ bmp = [i \in 0 .. (Slots - 1) |-> FALSE] /\ alloc_event = FALSE
  /\ main = "loop" /\ redisplay = FALSE /\ force_refresh = FALSE /\ vidclk_serial = -1
  /\ events = 0

-------------------------------------------------------------------------------
(***************************************************************************)
(* PacketQueue and FrameQueue                                              *)
(***************************************************************************)
Remaining == size - shown                        \* frame_queue_nb_remaining()
Peek == (rindex + shown) % Slots                 \* frame_queue_peek()

\* packet_queue_put(): nothing is queued any more once the queue is aborted.
Put(data, s) ==
  IF q_abort
    THEN UNCHANGED <<videoq, dec>>
    ELSE /\ videoq' = Append(videoq, [serial |-> s, data |-> data])
         /\ dec' = IF dec = "pktwait" THEN "get" ELSE dec

\* SDL_CondSignal(pictq.cond)
SignalPictq == dec' = CASE dec = "full" -> "queue" [] dec = "allocwait" -> "alloc" [] OTHER -> dec

\* frame_queue_next() with keep_last: the picture on show stays in the queue.
NextFrame ==
  IF shown = 0
    THEN shown' = 1 /\ UNCHANGED <<rindex, size, dec>>
    ELSE /\ rindex' = (rindex + 1) % Slots
         /\ size' = size - 1
         /\ SignalPictq
         /\ UNCHANGED shown

-------------------------------------------------------------------------------
(***************************************************************************)
(* read_thread()                                                           *)
(***************************************************************************)
others == <<decoder, pictq, alloc_event, main, display, user>>

ReadAborted ==
  /\ rd = "top" /\ abort_request
  /\ rd' = "exited"
  /\ UNCHANGED <<packetq, pos, gen, eof, loop, state, dec, others>>

\* Seek in the file and empty the queue.
ReadSeek ==
  /\ rd = "top" /\ ~abort_request /\ seek_req
  /\ pos' = seek_pos /\ gen' = gen + 1
  /\ videoq' = <<>>
  /\ rd' = "flushed"
  /\ UNCHANGED <<serial, q_abort, eof, loop, state, dec, others>>

ReadSeekFails ==
  /\ rd = "top" /\ ~abort_request /\ seek_req
  /\ rd' = "sought"
  /\ UNCHANGED <<packetq, pos, gen, eof, loop, state, dec, others>>

ReadPutFlush ==
  /\ rd = "flushed"
  /\ serial' = IF q_abort THEN serial ELSE serial + 1
  /\ Put(Flush, serial + 1)
  /\ rd' = "sought"
  /\ UNCHANGED <<q_abort, pos, gen, eof, loop, state, others>>

ReadSought ==
  /\ rd = "sought"
  /\ seek_req' = FALSE
  /\ eof' = FALSE
  /\ rd' = IF paused THEN "step" ELSE "body"
  /\ UNCHANGED <<packetq, pos, gen, loop, seek_pos, paused, step, abort_request, dec,
                 others>>

\* step_to_next_frame() shows one picture of the new position: test paused, invert it
\* (a read and a write), set step.  The main thread may invert it meanwhile.
ReadStep ==
  /\ \/ rd = "step" /\ rd' = IF paused THEN "toggle" ELSE "stepped"
     \/ rd = "toggle" /\ rd' = IF paused THEN "unpause" ELSE "pause"
  /\ UNCHANGED <<packetq, pos, gen, eof, loop, state, dec, others>>

ReadToggle ==
  /\ rd \in {"pause", "unpause"}
  /\ paused' = (rd = "pause")
  /\ rd' = "stepped"
  /\ UNCHANGED <<packetq, pos, gen, eof, loop, seek_req, seek_pos, step, abort_request,
                 dec, others>>

ReadStepped ==
  /\ rd = "stepped"
  /\ step' = TRUE
  /\ rd' = "body"
  /\ UNCHANGED <<packetq, pos, gen, eof, loop, seek_req, seek_pos, paused, abort_request,
                 dec, others>>

ReadNoSeek ==
  /\ rd = "top" /\ ~abort_request /\ ~seek_req
  /\ rd' = "body"
  /\ UNCHANGED <<packetq, pos, gen, eof, loop, state, dec, others>>

Full == Len(videoq) > MaxQueued \/ q_abort

ReadFull ==
  /\ rd = "body" /\ Full
  /\ rd' = "top"
  /\ UNCHANGED <<packetq, pos, gen, eof, loop, state, dec, others>>

\* Variant: only the decoder is asked.
AtEndOfDecoding == ~paused /\ finished = serial

\* Everything up to the end of the file was decoded and shown.
AtEnd == ~paused /\ finished = serial /\ Remaining = 0

\* Play it again (stream_seek()) or leave, as -loop and -autoexit say.
ReadLoop ==
  /\ rd = "body" /\ ~Full /\ AtEnd /\ loop # 1
  /\ loop' = loop - 1
  /\ seek_req' = TRUE
  /\ seek_pos' = IF seek_req THEN seek_pos ELSE 0
  /\ rd' = "read"
  /\ UNCHANGED <<packetq, pos, gen, eof, paused, step, abort_request, dec, others>>

\* -autoexit: FF_QUIT_EVENT is pushed.
ReadQuit ==
  /\ rd = "body" /\ ~Full /\ AtEnd /\ loop = 1
  /\ rd' = "quit"
  /\ UNCHANGED <<packetq, pos, gen, eof, loop, state, dec, others>>

Reading == rd = "read" \/ (rd = "body" /\ ~Full /\ ~AtEnd)

ReadPacket ==
  /\ Reading /\ pos < Packets
  /\ Put(<<gen, pos + 1>>, serial)
  /\ pos' = pos + 1 /\ eof' = FALSE
  /\ rd' = "top"
  /\ UNCHANGED <<serial, q_abort, gen, loop, state, others>>

\* The end of the file: one null packet drains the decoder.
ReadEof ==
  /\ Reading /\ pos = Packets
  /\ IF eof THEN UNCHANGED <<videoq, dec>> ELSE Put(Null, serial)
  /\ eof' = TRUE
  /\ rd' = "top"
  /\ UNCHANGED <<serial, q_abort, pos, gen, loop, state, others>>

-------------------------------------------------------------------------------
(***************************************************************************)
(* video_thread(): decoder_decode_frame()                                  *)
(***************************************************************************)
pictures == <<pictq, alloc_event, main, display, user>>

DecodeNext ==
  /\ dec = "top"
  /\ dec' = CASE q_abort -> "exited"
              [] ~q_abort /\ pending /\ serial = pkt_serial -> "decode"
              [] OTHER -> "get"
  /\ UNCHANGED <<packetq, reader, state, decoder, pictures>>

\* packet_queue_get()
GetPacket ==
  /\ dec = "get" /\ ~q_abort /\ videoq # <<>>
  /\ pkt' = Head(videoq).data /\ pkt_serial' = Head(videoq).serial
  /\ videoq' = Tail(videoq)
  /\ dec' = "got"
  /\ UNCHANGED <<serial, q_abort, reader, state, pending, finished, codec, frame,
                 pictures>>

GetNothing ==
  /\ dec = "get" /\ (q_abort \/ videoq = <<>>)
  /\ dec' = IF q_abort THEN "exited" ELSE "pktwait"
  /\ UNCHANGED <<packetq, reader, state, decoder, pictures>>

\* Variant: the codec is not flushed.
GotFlushKeepsCodec ==
  /\ dec = "got" /\ pkt = Flush
  /\ finished' = 0
  /\ dec' = "get"
  /\ UNCHANGED <<packetq, reader, state, pkt, pkt_serial, pending, codec, frame, pictures>>

\* avcodec_flush_buffers()
GotFlush ==
  /\ dec = "got" /\ pkt = Flush
  /\ codec' = <<>>
  /\ finished' = 0
  /\ dec' = "get"
  /\ UNCHANGED <<packetq, reader, state, pkt, pkt_serial, pending, frame, pictures>>

\* A packet from before a seek is skipped.
GotPacket ==
  /\ dec = "got" /\ pkt # Flush
  /\ IF serial # pkt_serial THEN dec' = "get" /\ UNCHANGED pending
                            ELSE dec' = "decode" /\ pending' = TRUE
  /\ UNCHANGED <<packetq, reader, state, pkt, pkt_serial, finished, codec, frame,
                 pictures>>

\* The codec returns a frame: queue it, or drop it early when the main thread is
\* late (framedrop in get_video_frame()).
Returned(f) ==
  \/ dec' = "queue" /\ frame' = f
  \/ /\ pkt_serial = vidclk_serial /\ videoq # <<>>
     /\ dec' = "top" /\ UNCHANGED frame

\* Variant: the packet stays pending.
DecodePacketAgain ==
  /\ dec = "decode" /\ pkt # Null
  /\ codec' = <<pkt>>
  /\ IF codec = <<>> THEN dec' = "top" /\ UNCHANGED frame ELSE Returned(Head(codec))
  /\ UNCHANGED <<packetq, reader, state, pkt, pkt_serial, pending, finished, pictures>>

\* The codec delays every frame by one packet.
DecodePacket ==
  /\ dec = "decode" /\ pkt # Null
  /\ codec' = <<pkt>>
  /\ pending' = FALSE
  /\ IF codec = <<>> THEN dec' = "top" /\ UNCHANGED frame ELSE Returned(Head(codec))
  /\ UNCHANGED <<packetq, reader, state, pkt, pkt_serial, finished, pictures>>

\* avcodec_decode_video2() fails, maybe on the null packet, which then marks no end; a
\* frame the codec held may be lost.
DecodeFails ==
  /\ dec = "decode"
  /\ codec' = codec \/ codec' = <<>>
  /\ dec' = "failed"
  /\ UNCHANGED <<packetq, reader, state, pkt, pkt_serial, pending, finished, frame,
                 pictures>>

DecodeFailed ==
  /\ dec = "failed"
  /\ pending' = FALSE
  /\ dec' = "top"
  /\ UNCHANGED <<packetq, reader, state, pkt, pkt_serial, finished, codec, frame,
                 pictures>>

\* A null packet stays pending while frames come out.
Drain ==
  /\ dec = "decode" /\ pkt = Null /\ codec # <<>>
  /\ codec' = <<>>
  /\ Returned(Head(codec))
  /\ UNCHANGED <<packetq, reader, state, pkt, pkt_serial, pending, finished, pictures>>

\* The codec has nothing left: the end of the packets of this serial.
Drained ==
  /\ dec = "decode" /\ pkt = Null /\ codec = <<>>
  /\ pending' = FALSE
  /\ finished' = pkt_serial
  /\ dec' = "top"
  /\ UNCHANGED <<packetq, reader, state, pkt, pkt_serial, codec, frame, pictures>>

-------------------------------------------------------------------------------
(***************************************************************************)
(* video_thread(): queue_picture()                                         *)
(***************************************************************************)
\* Variant: a queue with one free slot less than none.
NoRoomOffByOne == size > Slots

NoRoom == size >= Slots

QueueFull ==
  /\ dec = "queue" /\ (q_abort \/ NoRoom)
  /\ dec' = IF q_abort THEN "exited" ELSE "full"
  /\ UNCHANGED <<packetq, reader, state, decoder, pictures>>

\* The slot has a bitmap of the right size.
QueueReady ==
  /\ dec = "queue" /\ ~q_abort /\ ~NoRoom /\ bmp[windex]
  /\ dec' = "write"
  /\ UNCHANGED <<packetq, reader, state, decoder, pictures>>

\* It has none, or the picture's size has changed: the main thread allocates it.
QueueNeedsBitmap ==
  /\ dec = "queue" /\ ~q_abort /\ ~NoRoom
  /\ bmp' = [bmp EXCEPT ![windex] = FALSE]
  /\ alloc_event' = TRUE
  /\ dec' = "alloc"
  /\ UNCHANGED <<packetq, reader, state, decoder, slots, windex, rindex, shown, size,
                 main, display, user>>

AllocTest ==
  /\ dec = "alloc" /\ ~q_abort
  /\ dec' = IF bmp[windex] THEN "write" ELSE "allocwait"
  /\ UNCHANGED <<packetq, reader, state, decoder, pictures>>

\* Aborted: take the event back, or wait until the main thread has dealt with it.
AllocAborted ==
  /\ dec = "alloc" /\ q_abort
  /\ alloc_event' = FALSE
  /\ dec' = IF alloc_event \/ bmp[windex] \/ abort_request THEN "exited" ELSE "allocwait"
  /\ UNCHANGED <<packetq, reader, state, decoder, pictq, main, display, user>>

WritePicture ==
  /\ dec = "write"
  /\ slots' = [slots EXCEPT ![windex] = [serial |-> pkt_serial, data |-> frame]]
  /\ dec' = "push"
  /\ UNCHANGED <<packetq, reader, state, decoder, windex, rindex, shown, size, bmp,
                 alloc_event, main, display, user>>

\* frame_queue_push()
PushPicture ==
  /\ dec = "push"
  /\ windex' = (windex + 1) % Slots
  /\ size' = size + 1
  /\ frame' = None
  /\ dec' = "top"
  /\ UNCHANGED <<packetq, reader, state, pkt, pkt_serial, pending, finished, codec,
                 slots, rindex, shown, bmp, alloc_event, main, display, user>>

-------------------------------------------------------------------------------
(***************************************************************************)
(* The main thread: video_refresh()                                        *)
(***************************************************************************)
threads == <<packetq, reader>>

\* Not while paused, unless the window must be drawn again: then the picture on
\* show becomes the next one once more (frame_queue_prev()).
Refresh ==
  /\ main = "loop" /\ (~paused \/ force_refresh)
  /\ redisplay' = (force_refresh /\ shown = 1)
  /\ shown' = IF force_refresh THEN 0 ELSE shown
  /\ main' = "retry"
  /\ UNCHANGED <<threads, state, dec, decoder, slots, windex, rindex, size, bmp,
                 alloc_event, force_refresh, vidclk_serial, user>>

NothingToShow ==
  /\ main = "retry" /\ Remaining = 0
  /\ force_refresh' = FALSE
  /\ main' = "loop"
  /\ UNCHANGED <<threads, state, dec, decoder, pictq, alloc_event, redisplay,
                 vidclk_serial, user>>

\* Variant: pictures from before a seek are shown.
AnyPicture == TRUE

\* The picture is one of the current serial.
CurrentPicture == slots[Peek].serial = serial

\* update_video_pts(), unless the picture on show is only drawn again
SetVideoClock ==
  vidclk_serial' = IF redisplay THEN vidclk_serial ELSE slots[Peek].serial

Skip ==
  /\ NextFrame
  /\ redisplay' = FALSE
  /\ UNCHANGED <<threads, state, decoder, slots, windex, bmp, alloc_event, main,
                 force_refresh, user>>

SkipOld ==
  /\ main = "retry" /\ Remaining > 0 /\ ~CurrentPicture
  /\ Skip
  /\ UNCHANGED vidclk_serial

\* Framedrop: the picture after it is due already.
SkipLate ==
  /\ main = "retry" /\ Remaining > 1 /\ CurrentPicture /\ ~paused /\ ~step
  /\ Skip
  /\ SetVideoClock

\* The time of the picture has not come.
NotDue ==
  /\ main = "retry" /\ Remaining > 0 /\ CurrentPicture /\ ~paused /\ ~redisplay
  /\ main' = "loop"
  /\ UNCHANGED <<threads, state, dec, decoder, pictq, alloc_event, display, user>>

\* video_display()
Show ==
  /\ main = "retry" /\ Remaining > 0 /\ CurrentPicture
  /\ IF paused THEN UNCHANGED vidclk_serial ELSE SetVideoClock
  /\ main' = "display"
  /\ UNCHANGED <<threads, state, dec, decoder, pictq, alloc_event, redisplay,
                 force_refresh, user>>

\* The picture was shown; after a single step the player pauses again.
Showed ==
  /\ main = "display"
  /\ NextFrame
  /\ paused' = (paused \/ step)
  /\ redisplay' = FALSE /\ force_refresh' = FALSE
  /\ main' = "loop"
  /\ UNCHANGED <<threads, seek_req, seek_pos, step, abort_request, decoder, slots,
                 windex, bmp, alloc_event, vidclk_serial, user>>

-------------------------------------------------------------------------------
(***************************************************************************)
(* The main thread: events                                                 *)
(***************************************************************************)

\* stream_seek(): ignored while an earlier one is being served.
UserSeek ==
  /\ main = "loop" /\ loop \in SeekRounds /\ events < MaxEvents
  /\ events' = events + 1
  /\ ~seek_req
  /\ seek_req' = TRUE
  /\ seek_pos' \in Targets
  /\ UNCHANGED <<threads, paused, step, abort_request, dec, decoder, pictq,
                 alloc_event, main, display>>

\* toggle_pause(), or step_to_next_frame() for the user
UserPause ==
  /\ main = "loop" /\ events < MaxEvents
  /\ events' = events + 1
  /\ \/ paused' = ~paused /\ step' = FALSE
     \/ paused' = FALSE /\ step' = TRUE
  /\ UNCHANGED <<threads, seek_req, seek_pos, abort_request, dec, decoder, pictq,
                 alloc_event, main, display>>

Expose ==
  /\ main = "loop" /\ ~force_refresh
  /\ force_refresh' = TRUE
  /\ UNCHANGED <<threads, state, dec, decoder, pictq, alloc_event, main, redisplay,
                 vidclk_serial, user>>

\* alloc_picture()
AllocPicture ==
  /\ main = "loop" /\ alloc_event
  /\ alloc_event' = FALSE
  /\ bmp' = [bmp EXCEPT ![windex] = TRUE]
  /\ SignalPictq
  /\ UNCHANGED <<threads, state, decoder, slots, windex, rindex, shown, size, main,
                 display, user>>

\* The overlay cannot be had: do_exit(), from the event's handler.
AllocFails ==
  /\ main = "loop" /\ alloc_event
  /\ alloc_event' = FALSE
  /\ abort_request' = TRUE
  /\ main' = "closing"
  /\ UNCHANGED <<threads, seek_req, seek_pos, paused, step, dec, decoder, pictq,
                 display, user>>

\* The user quits, or FF_QUIT_EVENT arrives: stream_close().
Quit ==
  /\ main = "loop"
  /\ abort_request' = TRUE
  /\ main' = "closing"
  /\ UNCHANGED <<threads, seek_req, seek_pos, paused, step, dec, decoder, pictq,
                 alloc_event, display, user>>

\* The read thread was joined; packet_queue_abort() in decoder_abort().
AbortQueue ==
  /\ main = "closing" /\ rd \in {"exited", "quit"}
  /\ q_abort' = TRUE
  /\ dec' = IF dec = "pktwait" THEN "get" ELSE dec
  /\ main' = "signal"
  /\ UNCHANGED <<videoq, serial, reader, state, decoder, pictq, alloc_event, display,
                 user>>

\* Variant: pictq is not signalled.
SignalNobody ==
  /\ main = "signal"
  /\ main' = "joining"
  /\ UNCHANGED <<threads, state, dec, decoder, pictq, alloc_event, display, user>>

\* frame_queue_signal()
SignalDecoder ==
  /\ main = "signal"
  /\ SignalPictq
  /\ main' = "joining"
  /\ UNCHANGED <<threads, state, decoder, pictq, alloc_event, display, user>>

\* The video thread was joined; everything is freed.
Closed ==
  /\ main = "joining" /\ dec = "exited"
  /\ videoq' = <<>>
  /\ main' = "closed"
  /\ UNCHANGED <<serial, q_abort, reader, state, dec, decoder, pictq, alloc_event,
                 display, user>>

Terminated == main = "closed" /\ UNCHANGED vars

-------------------------------------------------------------------------------
ReadThread ==
  \/ ReadAborted \/ ReadSeek \/ ReadSeekFails \/ ReadPutFlush \/ ReadSought
  \/ ReadStep \/ ReadToggle \/ ReadStepped \/ ReadNoSeek \/ ReadFull
  \/ ReadLoop \/ ReadQuit
  \/ ReadPacket \/ ReadEof

VideoThread ==
  \/ DecodeNext \/ GetPacket \/ GetNothing \/ GotFlush \/ GotPacket
  \/ DecodePacket \/ DecodeFails \/ DecodeFailed \/ Drain \/ Drained
  \/ QueueFull \/ QueueReady \/ QueueNeedsBitmap \/ AllocTest \/ AllocAborted
  \/ WritePicture \/ PushPicture

VideoRefresh ==
  \/ Refresh \/ NothingToShow \/ SkipOld \/ SkipLate \/ NotDue \/ Show \/ Showed

Closing == AbortQueue \/ SignalDecoder \/ Closed

Next ==
  \/ ReadThread \/ VideoThread \/ VideoRefresh
  \/ AllocPicture \/ AllocFails \/ Closing
  \/ UserSeek \/ UserPause \/ Expose \/ Quit
  \/ Terminated

\* The threads run, events are handled, and time passes: a picture that is found
\* not due again and again is due at last.  The user does nothing that he has to.
Spec ==
  /\ Init /\ [][Next]_vars
  /\ WF_vars(ReadThread) /\ WF_vars(VideoThread)
  /\ WF_vars(VideoRefresh) /\ SF_vars(Show) /\ SF_vars(AllocPicture \/ AllocFails) /\ WF_vars(Closing)
  /\ SF_vars(rd = "quit" /\ Quit)

-------------------------------------------------------------------------------
(***************************************************************************)
(* Properties                                                              *)
(***************************************************************************)

\* The picture i places after the one that is, or was last, on show.
Picture(i) == slots[(rindex + i) % Slots]
Queued == 0 .. (size - 1)

\* A picture on show was decoded from packets read after the seek the screen is
\* meant to follow: its serial tells the truth, however late the flush packet
\* reached the decoder and whatever the codec held back.
SerialsTellTheTruth == \A i \in Queued : Picture(i).data[1] = Picture(i).serial

\* The pictures in the queue are in the order of the file, and no picture is in
\* it twice, also when the window is drawn again or frames are dropped.
PicturesInOrder ==
  \A i, j \in Queued :
    i < j /\ Picture(i).serial = Picture(j).serial => Picture(i).data[2] < Picture(j).data[2]

\* The video thread never writes the slot of the picture on show or of one that
\* is still to be shown.
ShownSlotIsNotWritten ==
  dec \in {"write", "push"} => \A i \in Queued : windex # (rindex + i) % Slots

Data == Nat \X Int

TypeQueues ==
  /\ videoq \in Seq([serial : Nat, data : Data]) /\ serial \in Nat /\ q_abort \in BOOLEAN
  /\ slots \in [0 .. (Slots - 1) -> [serial : Nat, data : Data]]
  /\ windex \in 0 .. (Slots - 1) /\ rindex \in 0 .. (Slots - 1)
  /\ shown \in 0 .. 1 /\ size \in 0 .. Slots
  /\ bmp \in [0 .. (Slots - 1) -> BOOLEAN] /\ alloc_event \in BOOLEAN

TypeReader ==
  /\ rd \in {"top", "flushed", "sought", "step", "toggle", "pause", "unpause",
             "stepped", "body", "read", "exited", "quit"}
  /\ pos \in 0 .. Packets /\ gen \in Nat /\ eof \in BOOLEAN /\ loop \in Nat \ {0}

TypeState ==
  /\ seek_req \in BOOLEAN /\ seek_pos \in 0 .. Packets
  /\ paused \in BOOLEAN /\ step \in BOOLEAN /\ abort_request \in BOOLEAN
  /\ main \in {"loop", "retry", "display", "closing", "signal", "joining", "closed"}
  /\ redisplay \in BOOLEAN /\ force_refresh \in BOOLEAN /\ vidclk_serial \in Int
  /\ events \in Nat

TypeDecoder ==
  /\ dec \in {"top", "get", "pktwait", "got", "decode", "failed", "queue", "full", "alloc",
              "allocwait", "write", "push", "exited"}
  /\ pkt \in Data /\ pkt_serial \in Nat /\ pending \in BOOLEAN /\ finished \in Nat
  /\ codec \in Seq(Data) /\ Len(codec) <= 1 /\ frame \in Data

TypeOK == TypeQueues /\ TypeReader /\ TypeState /\ TypeDecoder

\* The packet queue: it is aborted when nothing is read any more; what it holds is of
\* the current serial, after a flush packet if the decoder is still at an older one.
InvSerials ==
  /\ q_abort => rd \in {"exited", "quit"}
  /\ main \in {"signal", "joining", "closed"} => q_abort
  /\ serial >= 1 /\ gen = (IF rd = "flushed" THEN serial + 1 ELSE serial)
  /\ rd = "flushed" => videoq = <<>>
  /\ pkt_serial <= serial
  /\ \A k \in 1 .. Len(videoq) :
       /\ videoq[k].serial = serial
       /\ videoq[k].data = Flush <=> (k = 1 /\ pkt_serial # serial)
       /\ videoq[k].data \in {Flush, Null} \/ videoq[k].data[1] = serial
  /\ videoq = <<>> /\ pkt_serial # serial => rd \in {"flushed", "exited", "quit"}

\* The video thread has a frame to queue.
HasFrame == dec \in {"queue", "full", "alloc", "allocwait", "write", "push"}

\* The decoder: packet, frame and codec are of one serial, but for a flush packet
\* just got, whose serial the codec does not know yet.
InvDecoder ==
  /\ pkt \in {None, Flush, Null} \/ pkt[1] = pkt_serial
  /\ dec \in {"got", "decode"} \/ HasFrame => pkt # None
  /\ pkt # None => pkt_serial >= 1
  /\ dec = "decode" => pkt # Flush
  /\ (HasFrame \/ dec = "top") /\ pending => pkt = Null
  /\ codec # <<>> => codec[1][1] = pkt_serial \/ (dec = "got" /\ pkt = Flush)
  /\ IF HasFrame THEN frame[1] = pkt_serial ELSE frame = None \/ dec = "exited"

\* The ring of pictures: a slot is written only while one is free.
InvSlots ==
  /\ windex = (rindex + size) % Slots
  /\ dec \in {"alloc", "allocwait", "write", "push"} => size < Slots
  /\ dec = "push" => slots[windex] = [serial |-> pkt_serial, data |-> frame]
  /\ shown <= size
  /\ main = "display" => shown < size

\* d is a frame, or its packet, that was read before e, if after the same seek.
Before(d, e) == d[1] > 0 /\ d[1] = e[1] => d[2] < e[2]
HasBeenRead(d) == d[1] < gen \/ (d[1] = gen /\ d[2] <= pos)

\* d was taken from the packet queue.
Taken(d) == HasBeenRead(d) /\ \A k \in 1 .. Len(videoq) : Before(d, videoq[k].data)

\* What is queued was read, in the order of the file, after all that was taken.
InvRead ==
  /\ \A k \in 1 .. Len(videoq) : HasBeenRead(videoq[k].data)
  /\ \A j, k \in 1 .. Len(videoq) : j < k => Before(videoq[j].data, videoq[k].data)
  /\ Taken(pkt) /\ Taken(frame)
  /\ codec # <<>> => Taken(codec[1])
  /\ \A i \in Queued : Taken(Picture(i).data)

\* What was taken is in the order of the file: the pictures, the frame, what the
\* codec holds, the packet.
InvOrder ==
  /\ \A i, j \in Queued : i < j => Before(Picture(i).data, Picture(j).data)
  /\ \A i \in Queued :
       /\ Before(Picture(i).data, frame)
       /\ codec # <<>> => Before(Picture(i).data, codec[1])
       /\ dec \in {"got", "decode"} => Before(Picture(i).data, pkt)
  /\ codec # <<>> => Before(frame, codec[1])
  /\ codec # <<>> /\ dec \in {"got", "decode"} => Before(codec[1], pkt)

\* A picture has a serial of its own: that of a packet.
InvPictures == \A i \in Queued : Picture(i).serial >= 1

\* The picture queue is in order and the slots in use are not written, whatever the
\* three threads do; with what it takes to hold from step to step.
PicturesInv ==
  /\ TypeOK /\ PicturesInOrder /\ ShownSlotIsNotWritten
  /\ InvSerials /\ InvDecoder /\ InvSlots /\ InvRead /\ InvOrder /\ InvPictures

\* The file is played again, or the player quits, only when every frame since the
\* last seek was shown or dropped: none is in the packet queue, the codec, the
\* video thread or the picture queue.
EndedMeansAllShown ==
  [][ReadLoop \/ ReadQuit =>
       /\ \A i \in DOMAIN videoq : videoq[i].data \in {Flush, Null}
       /\ codec = <<>> /\ frame = None
       /\ pos = Packets
       /\ \A i \in shown .. (size - 1) : Picture(i).serial # serial]_vars

\* The next seek came before everything was shown.
Overtaken ==
  seek_req /\ rd \notin {"flushed", "sought"} /\ ~(finished = serial /\ Remaining = 0)

\* A seek is followed by a picture of the new position: the player does not stop, go
\* on to the next round or quit without having shown one, unless the seek was to the
\* end, decoding fails after it, the player is paused (other than for showing just
\* this picture) or closed, or another seek comes first.
SeekIsShown ==
  \A s \in 2 .. (MaxEvents + Loop) :
    rd = "flushed" /\ gen = s ~>
      \/ main = "display" /\ slots[Peek].serial = s
      \/ seek_pos = Packets \/ Overtaken
      \/ dec = "failed" /\ pkt_serial = s
      \/ paused /\ rd \notin {"sought", "step", "toggle", "pause", "unpause"}
      \/ main \notin {"loop", "retry", "display"} /\ rd # "quit"

\* Closing the player ends: both threads notice it wherever they wait.
CloseEnds == main = "closing" ~> main = "closed"
===============================================================================
