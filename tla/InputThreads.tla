----------------------------- MODULE InputThreads -----------------------------
(***************************************************************************)
(* The reader thread that ffmpeg (ffmpeg.c) runs per input file when there *)
(* are several inputs, and the main thread that takes its packets:         *)
(* init_input_threads(), input_thread(), get_input_packet(),               *)
(* process_input() as far as it reads, and free_input_threads().           *)
(*                                                                         *)
(* One file is modelled; files share nothing here but the main thread.     *)
(* Packets are numbered in the order the demuxer returns them, over all    *)
(* passes of a looped input.                                               *)
(***************************************************************************)
EXTENDS ThreadMessage

CONSTANTS
  NPackets,       \* packets av_read_frame() returns before AVERROR_EOF
  Loop,           \* -stream_loop
  AllocFailures   \* the allocations that may fail in ..._queue_alloc()

ASSUME InputAssumption ==
  /\ NPackets \in Nat
  /\ Loop \in Nat
  /\ AllocFailures \subseteq {"struct", "mutex", "cond", "fifo"}

VARIABLES
  main,             \* where the main thread is
  it,               \* where input_thread() is
  in_thread_queue,  \* "NULL" or "ready"
  alloc_ret,        \* what the queue's allocation returned
  non_blocking,     \* f->non_blocking
  flags,            \* input_thread()'s flags: does it send without blocking?
  position,         \* the demuxer's position in the file
  nread,            \* packets read so far
  loop, eof_reached, eagain,    \* fields of InputFile
  consumed,         \* the packets process_input() got
  dropped           \* the number of packets unreferenced unused

file == <<alloc_ret, non_blocking, loop, eof_reached, eagain>>
reader == <<it, flags, position, nread>>
vars == <<queue, main, in_thread_queue, file, reader, consumed, dropped>>

Main == "main"
Reader == "reader"

Init ==
  /\ QueueInit
  /\ main = "init"
  /\ it = "none"
  /\ in_thread_queue = "NULL"
  /\ alloc_ret = "none"
  /\ non_blocking \in BOOLEAN
  /\ flags = non_blocking
  /\ position = 0
  /\ nread = 0
  /\ loop = Loop
  /\ eof_reached = FALSE
  /\ eagain = FALSE
  /\ consumed = <<>>
  /\ dropped = 0

-------------------------------------------------------------------------------
(***************************************************************************)
(* init_input_threads() and av_thread_message_queue_alloc()                *)
(***************************************************************************)

\* When av_fifo_alloc() fails the function returns AVERROR(ret) with the ret of
\* the last successful call, which is 0: the caller is told of success.
AllocQueue ==
  /\ main = "init"
  /\ \E failing \in AllocFailures \cup {"none"} :
       /\ alloc_ret' = IF failing \in {"struct", "mutex", "cond"} THEN "error" ELSE "ok"
       /\ in_thread_queue' = IF failing = "none" THEN "ready" ELSE "NULL"
  /\ main' = IF alloc_ret' = "ok" THEN "create" ELSE "fail"
  /\ UNCHANGED <<queue, non_blocking, loop, eof_reached, eagain, reader, consumed, dropped>>

CreateThread ==
  /\ main = "create"
  /\ main' = "idle"
  /\ it' = "read"
  /\ UNCHANGED <<queue, in_thread_queue, file, flags, position, nread, consumed, dropped>>

\* pthread_create() failed: the queue is freed and its pointer cleared.
CreateThreadFails ==
  /\ main = "create"
  /\ main' = "fail"
  /\ in_thread_queue' = "NULL"
  /\ UNCHANGED <<queue, file, reader, consumed, dropped>>

-------------------------------------------------------------------------------
(***************************************************************************)
(* input_thread()                                                          *)
(***************************************************************************)
Usable == in_thread_queue = "ready"

\* av_read_frame() returns a packet (AVERROR(EAGAIN) makes it try again).
ReadPacket ==
  /\ it = "read"
  /\ position < NPackets
  /\ position' = position + 1
  /\ nread' = nread + 1
  /\ it' = "send"
  /\ UNCHANGED <<queue, main, in_thread_queue, file, flags, consumed, dropped>>

\* It fails, at the end of the file or before.
ReadFails(err) ==
  /\ it = "read"
  /\ Usable
  /\ err = "EOF" => position = NPackets
  /\ SetErrRecv(err)
  /\ it' = "exit"
  /\ UNCHANGED <<main, in_thread_queue, file, flags, position, nread, consumed, dropped>>

\* Variant: a packet that found the queue full is not sent again.
SendPacketOnce ==
  /\ it = "send"
  /\ Usable
  /\ \E ret \in {"ok", "sleep", "EAGAIN", "EOF"} :
       /\ Send(Reader, nread, flags, ret)
       /\ it' = CASE ret = "sleep" -> "send" [] ret = "EOF" -> "fail" [] OTHER -> "read"
       /\ flags' = (flags /\ ret # "EAGAIN")
  /\ UNCHANGED <<main, in_thread_queue, file, position, nread, consumed, dropped>>

\* One pass of av_thread_message_queue_send(); the first call that does not
\* block may give EAGAIN and is followed by one that does.
SendPacket ==
  /\ it = "send"
  /\ Usable
  /\ \E ret \in {"ok", "sleep", "EAGAIN", "EOF"} :
       /\ Send(Reader, nread, flags, ret)
       /\ it' = CASE ret = "ok" -> "read" [] ret = "EOF" -> "fail" [] OTHER -> "send"
       /\ flags' = (flags /\ ret # "EAGAIN")
  /\ UNCHANGED <<main, in_thread_queue, file, position, nread, consumed, dropped>>

\* Variant: the packet that could not be sent is forgotten.
SendFailedLeak ==
  /\ it = "fail"
  /\ SetErrRecv(err_send)
  /\ it' = "exit"
  /\ UNCHANGED <<main, in_thread_queue, file, flags, position, nread, consumed, dropped>>

\* Variant: the receiving side is not told.
SendFailedSilently ==
  /\ it = "fail"
  /\ dropped' = dropped + 1
  /\ it' = "exit"
  /\ UNCHANGED <<queue, main, in_thread_queue, file, flags, position, nread, consumed>>

\* The packet is unreferenced and the error passed on to the receiving side.
SendFailed ==
  /\ it = "fail"
  /\ dropped' = dropped + 1
  /\ SetErrRecv(err_send)
  /\ it' = "exit"
  /\ UNCHANGED <<main, in_thread_queue, file, flags, position, nread, consumed>>

-------------------------------------------------------------------------------
(***************************************************************************)
(* process_input() and transcode() in the main thread                      *)
(***************************************************************************)

\* transcode_step() chooses this file.
StartRead ==
  /\ main = "idle"
  /\ ~eof_reached
  /\ main' = "recv"
  /\ UNCHANGED <<queue, in_thread_queue, file, reader, consumed, dropped>>

\* With -re the packet may not be due yet: get_input_packet() gives EAGAIN.
NotDue ==
  /\ main = "idle"
  /\ ~eof_reached
  /\ eagain' = TRUE
  /\ UNCHANGED <<queue, main, in_thread_queue, alloc_ret, non_blocking, loop,
                 eof_reached, reader, consumed, dropped>>

\* process_input() has failed to get a packet: unless a decoder still returns
\* frames when it is flushed the file is finished; -xerror ends the program.
InputEnded(ret) ==
  \/ main' = "idle" /\ eof_reached' \in {eof_reached, TRUE}
  \/ ret # "EOF" /\ main' = "stop" /\ UNCHANGED eof_reached

\* The new value of eagain: reset_eagain() after a packet.
NewEagain(ret) == CASE ret = "ok" -> FALSE [] ret = "EAGAIN" -> TRUE [] OTHER -> eagain

\* One pass of get_input_packet_mt(), and what process_input() does with it.
GetPacket ==
  /\ main = "recv"
  /\ Usable
  /\ \E ret \in {"ok", "sleep", "EAGAIN", "EOF", "EIO"} :
       /\ Recv(Main, non_blocking, ret)
       /\ consumed' = IF ret = "ok" THEN Append(consumed, Head(fifo)) ELSE consumed
       /\ eagain' = NewEagain(ret)
       /\ \/ ret = "sleep" /\ UNCHANGED <<main, eof_reached>>
          \/ ret \in {"ok", "EAGAIN"} /\ main' = "idle" /\ UNCHANGED eof_reached
          \/ ret \in {"EOF", "EIO"} /\ loop # 0 /\ main' = "seek" /\ UNCHANGED eof_reached
          \/ ret \in {"EOF", "EIO"} /\ loop = 0 /\ InputEnded(ret)
  /\ UNCHANGED <<in_thread_queue, alloc_ret, non_blocking, loop, reader, dropped>>

\* seek_to_start(): the demuxer is rewound; input_thread() has returned already.
SeekToStart ==
  /\ main = "seek"
  /\ position' = 0
  /\ loop' = loop - 1
  /\ main' = "reread"
  /\ UNCHANGED <<queue, in_thread_queue, alloc_ret, non_blocking, eof_reached, eagain,
                 it, flags, nread, consumed, dropped>>

\* With -re the packet after the seek may not be due: that EAGAIN counts as an error.
SeekButNotDue ==
  /\ main = "seek"
  /\ position' = 0
  /\ loop' = loop - 1
  /\ InputEnded("EAGAIN")
  /\ UNCHANGED <<queue, in_thread_queue, alloc_ret, non_blocking, eagain,
                 it, flags, nread, consumed, dropped>>

\* av_seek_frame() failed: its error ends the main loop.
SeekFails ==
  /\ main = "seek"
  /\ main' = "stop"
  /\ UNCHANGED <<queue, in_thread_queue, file, reader, consumed, dropped>>

\* The second get_input_packet() of process_input(), after the seek.
GetPacketAgain ==
  /\ main = "reread"
  /\ \E ret \in {"ok", "sleep", "EAGAIN", "EOF", "EIO"} :
       /\ Recv(Main, non_blocking, ret)
       /\ consumed' = IF ret = "ok" THEN Append(consumed, Head(fifo)) ELSE consumed
       /\ eagain' = IF ret = "ok" THEN FALSE ELSE eagain
       /\ \/ ret = "sleep" /\ UNCHANGED <<main, eof_reached>>
          \/ ret = "ok" /\ main' = "idle" /\ UNCHANGED eof_reached
          \/ ret \notin {"ok", "sleep"} /\ InputEnded(ret)
  /\ UNCHANGED <<in_thread_queue, alloc_ret, non_blocking, loop, reader, dropped>>

\* All outputs were unavailable: sleep a little and try again.
ResetEagain ==
  /\ main = "idle"
  /\ eagain
  /\ eagain' = FALSE
  /\ UNCHANGED <<queue, main, in_thread_queue, alloc_ret, non_blocking, loop,
                 eof_reached, reader, consumed, dropped>>

\* The main loop ends: nothing more to write, 'q', a signal or an error.
StopTranscoding ==
  /\ main = "idle"
  /\ main' = "stop"
  /\ UNCHANGED <<queue, in_thread_queue, file, reader, consumed, dropped>>

-------------------------------------------------------------------------------
(***************************************************************************)
(* free_input_threads()                                                    *)
(***************************************************************************)

StopSenders ==
  /\ main = "stop"
  /\ Usable
  /\ SetErrSend("EOF")
  /\ main' = "drain"
  /\ UNCHANGED <<in_thread_queue, file, reader, consumed, dropped>>

\* Receive and unreference until the queue is empty and has its error.
Drain ==
  /\ main = "drain"
  /\ \E ret \in {"ok", "sleep", "EOF", "EIO"} :
       /\ Recv(Main, FALSE, ret)
       /\ dropped' = IF ret = "ok" THEN dropped + 1 ELSE dropped
       /\ main' = IF ret \in {"EOF", "EIO"} THEN "join" ELSE "drain"
  /\ UNCHANGED <<in_thread_queue, file, reader, consumed>>

JoinAndFree ==
  /\ main = "join"
  /\ it = "exit"
  /\ main' = "freed"
  /\ in_thread_queue' = "NULL"
  /\ UNCHANGED <<queue, file, reader, consumed, dropped>>

\* A file without a queue is passed over (transcode() came here by its fail label).
NothingToFree ==
  /\ main = "fail"
  /\ main' = "freed"
  /\ UNCHANGED <<queue, in_thread_queue, file, reader, consumed, dropped>>

-------------------------------------------------------------------------------
ReaderStep ==
  ReadPacket \/ (\E err \in {"EOF", "EIO"} : ReadFails(err)) \/ SendPacket \/ SendFailed

ReadStep == GetPacket \/ GetPacketAgain \/ SeekToStart \/ SeekButNotDue \/ SeekFails

FreeStep == StopSenders \/ Drain \/ JoinAndFree

Next ==
  \/ AllocQueue \/ CreateThread \/ CreateThreadFails \/ NothingToFree
  \/ ReaderStep
  \/ StartRead \/ NotDue \/ ReadStep \/ ResetEagain \/ StopTranscoding
  \/ FreeStep
  \/ \E t \in {Main, Reader} :
       Spurious(t) /\ UNCHANGED <<main, in_thread_queue, file, reader, consumed, dropped>>
  \/ main = "freed" /\ UNCHANGED vars

Spec == Init /\ [][Next]_vars

\* av_read_frame() returns sooner or later and both threads are scheduled; when
\* the main loop ends is up to the outputs and the user.
FairSpec ==
  /\ Spec
  /\ WF_vars(ReaderStep)
  /\ WF_vars(ReadStep)
  /\ WF_vars(FreeStep)

-------------------------------------------------------------------------------
(***************************************************************************)
(* Properties                                                              *)
(***************************************************************************)
Total == NPackets * (Loop + 1)      \* packets of a looped input

TypeOK ==
  /\ fifo \in Seq(1 .. Total) /\ Len(fifo) <= NELEM
  /\ err_send \in {"none", "EOF"} /\ err_recv \in {"none", "EOF", "EIO"}
  /\ asleep \subseteq {Main, Reader}
  /\ main \in {"init", "create", "fail", "idle", "recv", "seek", "reread", "stop",
               "drain", "join", "freed"}
  /\ it \in {"none", "read", "send", "fail", "exit"}
  /\ in_thread_queue \in {"NULL", "ready"}
  /\ alloc_ret \in {"none", "ok", "error"}
  /\ non_blocking \in BOOLEAN /\ flags \in BOOLEAN
  /\ position \in 0 .. NPackets /\ nread \in 0 .. Total /\ loop \in 0 .. Loop
  /\ eof_reached \in BOOLEAN /\ eagain \in BOOLEAN
  /\ consumed \in Seq(1 .. Total)
  /\ dropped \in 0 .. Total

\* When the file's thread was joined and the queue freed, every packet that was
\* read has been used or unreferenced, whichever of the two threads held it when
\* the main loop ended (free_input_threads, the error path of input_thread).
NoPacketLeaked ==
  main = "freed" => fifo = <<>> /\ nread = Len(consumed) + dropped

\* The packets reach the decoders in file order, none is skipped.
PacketsInOrder == consumed = [k \in 1 .. Len(consumed) |-> k]

\* Once the main thread has noticed the end of the file, nothing that was read
\* from it is still on its way: the error is not delivered before the packets.
EofAfterAllPackets ==
  eof_reached /\ main = "idle" =>
    it = "exit" /\ fifo = <<>> /\ Len(consumed) = nread

\* Every packet read is used, unreferenced, queued, or in the reader's hand; the
\* file is only rewound when the reader has returned.
InvCount ==
  /\ nread = Len(consumed) + dropped + Len(fifo) + (IF it \in {"send", "fail"} THEN 1 ELSE 0)
  /\ nread <= NPackets
  /\ it # "exit" => position = nread
  /\ it = "none" => nread = 0

\* Until the queue is drained nothing is dropped, and what it holds comes next.
InvQueue ==
  main \notin {"drain", "join", "freed"} =>
    dropped = 0 /\ \A k \in 1 .. Len(fifo) : fifo[k] = Len(consumed) + k

\* What each thread knows of the other from the two error codes.
InvEnd ==
  /\ main \in {"init", "create", "fail"} => it = "none"
  /\ err_recv # "none" <=> it = "exit"
  /\ it = "fail" => err_send = "EOF"
  /\ err_send # "none" => main \in {"drain", "join", "freed"}
  /\ eof_reached \/ main \in {"seek", "reread", "join"} => it = "exit" /\ fifo = <<>>
  /\ main = "seek" => loop > 0
  /\ main = "freed" => it \in {"none", "exit"} /\ fifo = <<>>

\* The file's two threads and its queue, as an inductive invariant: the variables
\* keep their types, order and end are as above, and no packet is unaccounted for.
InputInv ==
  TypeOK /\ PacketsInOrder /\ EofAfterAllPackets /\ InvCount /\ InvQueue /\ InvEnd

\* A read of the main thread returns, with a packet or an error.
ReadReturns == main \in {"recv", "reread"} ~> main \notin {"recv", "reread"}

\* Shutdown ends: a reader blocked on a full queue is released, its error ends
\* the drain, and the join returns.
ShutdownTerminates == main = "stop" ~> main = "freed"

\* Not true of the code.  doc/ffmpeg.texi on -stream_loop: "Set number of times input stream shall be
\* looped."  An input that reached its end without an error was read Loop + 1 times.
StreamIsLooped ==
  eof_reached /\ main = "idle" /\ err_recv = "EOF" => Len(consumed) = Total
===============================================================================
