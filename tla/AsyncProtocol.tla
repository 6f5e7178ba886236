----------------------------- MODULE AsyncProtocol -----------------------------
(***************************************************************************)
(* The async: protocol (libavformat/async.c over libavutil/fifo.c).        *)
(*                                                                         *)
(* A background thread (bg) reads the inner protocol ahead into a ring;    *)
(* the caller (rd) reads from the ring and seeks inside it, over bytes it  *)
(* has already read as well: the ring keeps up to ReadBack of them before  *)
(* its read position.  Only a seek out of the ring is handed to bg.        *)
(*                                                                         *)
(* The mutex is held from lock to unlock or cond_wait, so a critical       *)
(* section is one step.  Two things happen without it: bg fills the ring   *)
(* (in space it measured earlier, then publishing the new write index),    *)
(* and async_seek() looks at the ring and moves its read position back.    *)
(* Stores are seen in program order (fifo.c has no barrier between the     *)
(* bytes and the index).  A byte is its offset in the file.                *)
(***************************************************************************)
EXTENDS Integers, FiniteSetsExt

CONSTANTS
  Size,        \* the length of the file
  Capacity,    \* BUFFER_CAPACITY
  ReadBack,    \* READ_BACK_CAPACITY
  Chunk,       \* how much bg reads at a time (4096)
  Threshold,   \* SHORT_SEEK_THRESHOLD
  ReadSizes    \* the sizes the caller asks for

ASSUME SizesAssumption ==
  /\ Size \in Nat \ {0} /\ Threshold \in Nat
  /\ Capacity \in Nat \ {0} /\ ReadBack \in Nat /\ Chunk \in Nat \ {0}
  /\ ReadSizes \subseteq 1 .. Size

VARIABLES
  mem, rndx, wndx,          \* AVFifoBuffer: bytes (-1: none, or given up), indices
  read_pos,                 \* RingBuffer.read_pos: bytes kept before the reader
  inner,                    \* position of the inner protocol
  bg,                       \* where the background thread is
  wpos, left, got,          \* its locals while it fills: index, bytes to go, any
  inner_io_error,           \* how its last read ended; not looked at after that
  io_eof_reached, io_error,
  seek_request, seek_completed, seek_ret,   \* seek_pos is the call's target
  abort_request, logical_pos,                       \* Context
  call, result,             \* the caller's call, what the last one returned
  rd,                       \* where the caller is in it
  size, to_read,            \* locals of async_read_internal()
  interrupted,              \* the user's interrupt callback says stop
  broken                    \* an I/O error or an interrupt has occurred

ring == <<mem, rndx, wndx, read_pos>>
fill == <<wpos, left, got, inner_io_error>>
flags == <<io_eof_reached, io_error>>
seeking == <<seek_request, seek_completed, seek_ret>>
caller == <<call, result>>
reading == <<size, to_read>>
vars == <<ring, inner, bg, fill, flags, seeking, abort_request,
          logical_pos, caller, rd, reading, interrupted, broken>>

Cells == Capacity + ReadBack

\* Of seeks; a target far beyond the end is as good as one a little beyond.
Targets == 0 .. (Size + 2)

Init ==
  /\ mem = [c \in 0 .. (Cells - 1) |-> -1]
  /\ rndx = 0 /\ wndx = 0 /\ read_pos = 0
  /\ inner = 0
  /\ bg = "top"
  /\ wpos = 0 /\ left = 0 /\ got = FALSE
  /\ io_eof_reached = FALSE /\ io_error = FALSE /\ inner_io_error = FALSE
  /\ seek_request = FALSE /\ seek_completed = FALSE /\ seek_ret = 0
  /\ abort_request = FALSE
  /\ logical_pos = 0
  /\ call = <<"none">> /\ result = <<"none">>
  /\ rd = "idle" /\ size = 0 /\ to_read = 0
  /\ interrupted = FALSE
  /\ broken = FALSE

-------------------------------------------------------------------------------
(***************************************************************************)
(* The ring                                                                *)
(***************************************************************************)
ring_size == wndx - rndx - read_pos

\* Variant: the bytes kept for seeking back are not counted.
ring_space_unread == Cells - ring_size

ring_space == Cells - (wndx - rndx)

RingReset ==
  /\ rndx' = 0 /\ wndx' = 0 /\ read_pos' = 0
  /\ mem' = [c \in DOMAIN mem |-> -1]

\* ring_generic_read(): n bytes from the read position; bytes beyond what is
\* kept are given up.
RingPeek(n) == [i \in 1 .. n |-> mem[(rndx + read_pos + i - 1) % Cells]]

RingSkip(n) ==
  LET drained == Max({0, read_pos + n - ReadBack})
  IN /\ rndx' = rndx + drained
     /\ read_pos' = read_pos + n - drained
     /\ mem' = [c \in DOMAIN mem |->
                  IF \E i \in 0 .. (drained - 1) : c = (rndx + i) % Cells THEN -1 ELSE mem[c]]
     /\ UNCHANGED wndx

target == call[2]                                       \* of a seek
CheckInterrupt == abort_request \/ interrupted          \* async_check_interrupt()

SignalMain ==
  rd' = IF rd = "readwait" THEN "read" ELSE IF rd = "seekwait" THEN "seek" ELSE rd
SignalBackground == bg' = IF bg = "wait" THEN "top" ELSE bg

-------------------------------------------------------------------------------
(***************************************************************************)
(* async_buffer_task()                                                     *)
(***************************************************************************)
\* Variant: the caller is not signalled when the thread ends.
BgAbortSilently ==
  /\ bg = "top" /\ CheckInterrupt
  /\ abort_request' = TRUE
  /\ io_eof_reached' = TRUE /\ io_error' = TRUE
  /\ bg' = "exited"
  /\ UNCHANGED <<ring, inner, fill, seeking, logical_pos, caller, rd,
                 reading, interrupted, broken>>

BgAbort ==
  /\ bg = "top" /\ CheckInterrupt
  /\ abort_request' = TRUE
  /\ io_eof_reached' = TRUE /\ io_error' = TRUE
  /\ bg' = "exited"
  /\ SignalMain
  /\ UNCHANGED <<ring, inner, fill, seeking, logical_pos, caller,
                 reading, interrupted, broken>>

SeekAnswered(r) ==
  /\ seek_completed' = TRUE /\ seek_ret' = r /\ seek_request' = FALSE
  /\ SignalMain
  /\ UNCHANGED <<bg, fill, abort_request, logical_pos,
                 caller, reading, interrupted>>

\* Variant: the end of the file stays reached after a seek.
BgSeekKeepsEof ==
  /\ bg = "top" /\ ~CheckInterrupt /\ seek_request
  /\ inner' = target
  /\ RingReset
  /\ SeekAnswered(target)
  /\ UNCHANGED <<flags, broken>>

BgSeek ==
  /\ bg = "top" /\ ~CheckInterrupt /\ seek_request
  /\ inner' = target
  /\ io_eof_reached' = FALSE /\ io_error' = FALSE
  /\ RingReset
  /\ SeekAnswered(target)
  /\ UNCHANGED broken

BgSeekFails ==
  /\ bg = "top" /\ ~CheckInterrupt /\ seek_request
  /\ broken' = TRUE
  /\ SeekAnswered(-1)
  /\ UNCHANGED <<ring, inner, flags>>

\* Nothing to do: the file or the ring is at its end.
BgSleep ==
  /\ bg = "top" /\ ~CheckInterrupt /\ ~seek_request
  /\ io_eof_reached \/ ring_space <= 0
  /\ bg' = "wait"
  /\ SignalMain
  /\ UNCHANGED <<ring, inner, fill, flags, seeking, abort_request,
                 logical_pos, caller, reading, interrupted, broken>>

\* Measure the space and leave the critical section.
BgStartFill ==
  /\ bg = "top" /\ ~CheckInterrupt /\ ~seek_request
  /\ ~io_eof_reached /\ ring_space > 0
  /\ left' = Min({Chunk, ring_space})
  /\ wpos' = wndx
  /\ bg' = "fill"
  /\ UNCHANGED <<ring, inner, got, inner_io_error, flags, seeking, abort_request,
                 logical_pos, caller, rd, reading, interrupted, broken>>

\* One wrapped_url_read(): the inner protocol returns from 1 byte to what fits
\* before the end of the buffer; av_fifo_generic_write() calls again for the rest.
BgFill ==
  /\ bg = "fill" /\ inner < Size
  /\ \E k \in 1 .. Min({left, Cells - (wpos % Cells), Size - inner}) :
       /\ LET w == wpos % Cells
          IN mem' = [c \in DOMAIN mem |->
                       IF c \in w .. (w + k - 1) THEN inner + (c - w) ELSE mem[c]]
       /\ inner' = inner + k
       /\ wpos' = wpos + k
       /\ left' = left - k
       /\ bg' = IF k = left THEN "publish" ELSE "fill"
  /\ got' = TRUE
  /\ inner_io_error' = FALSE
  /\ UNCHANGED <<rndx, wndx, read_pos, flags, seeking, abort_request, logical_pos,
                 caller, rd, reading, interrupted, broken>>

BgFillEnds ==
  /\ bg = "fill" /\ inner >= Size
  /\ inner_io_error' = FALSE
  /\ bg' = "publish"
  /\ UNCHANGED <<ring, inner, wpos, left, got, flags, seeking, abort_request,
                 logical_pos, caller, rd, reading, interrupted, broken>>

\* An I/O error, or the inner protocol noticed the interrupt.
BgFillFails ==
  /\ bg = "fill"
  /\ inner_io_error' = TRUE
  /\ broken' = TRUE
  /\ abort_request' = CheckInterrupt
  /\ bg' = "publish"
  /\ UNCHANGED <<ring, inner, wpos, left, got, flags, seeking, logical_pos, caller,
                 rd, reading, interrupted>>

BgPublish ==
  /\ bg = "publish"
  /\ wndx' = wpos
  /\ bg' = "post"
  /\ UNCHANGED <<mem, rndx, read_pos, inner, fill, flags, seeking,
                 abort_request, logical_pos, caller, rd, reading, interrupted, broken>>

\* How the fill went; its locals end with it.
BgPost ==
  /\ bg = "post"
  /\ io_eof_reached' = (io_eof_reached \/ ~got)
  /\ io_error' = (io_error \/ (~got /\ inner_io_error))
  /\ bg' = "top"
  /\ wpos' = 0 /\ left' = 0 /\ got' = FALSE /\ inner_io_error' = FALSE
  /\ SignalMain
  /\ UNCHANGED <<ring, inner, seeking, abort_request, logical_pos, caller, reading,
                 interrupted, broken>>

-------------------------------------------------------------------------------
(***************************************************************************)
(* async_read_internal()                                                   *)
(***************************************************************************)
bgVars == <<inner, fill, interrupted, broken>>

Begin(c) ==
  /\ rd = "idle"
  /\ call' = c
  /\ result' = <<"none">>

Return(r) ==
  /\ rd' = "idle"
  /\ call' = <<"none">>
  /\ result' = r
  /\ size' = 0 /\ to_read' = 0

Skipping == call[1] = "seek"       \* read_complete, and no bytes are copied

\* What a read returns that ends without data; a skip returns where it is.
ReadResult(r) == IF Skipping THEN <<"at", logical_pos>> ELSE r

Read(n) ==
  /\ Begin(<<"read", n>>)
  /\ size' = n /\ to_read' = n
  /\ rd' = "read"
  /\ UNCHANGED <<ring, bg, flags, seeking, abort_request, logical_pos, bgVars>>

ReadInterrupted ==
  /\ rd = "read" /\ CheckInterrupt
  /\ abort_request' = TRUE
  /\ Return(ReadResult(<<"error">>))
  /\ SignalBackground
  /\ UNCHANGED <<ring, flags, seeking, logical_pos, bgVars>>

ReadSome ==
  /\ rd = "read" /\ ~CheckInterrupt /\ ring_size > 0
  /\ LET to_copy == Min({to_read, ring_size})
     IN /\ RingSkip(to_copy)
        /\ logical_pos' = logical_pos + to_copy
        /\ IF Skipping /\ to_copy < to_read
             THEN rd' = "readwait" /\ to_read' = to_read - to_copy /\ UNCHANGED <<caller, size>>
             ELSE Return(IF Skipping THEN <<"at", logical_pos'>>
                                     ELSE <<"data", RingPeek(to_copy)>>)
  /\ SignalBackground
  /\ UNCHANGED <<flags, seeking, abort_request, bgVars>>

ReadEnds ==
  /\ rd = "read" /\ ~CheckInterrupt /\ ring_size <= 0 /\ io_eof_reached
  /\ Return(ReadResult(IF io_error THEN <<"error">> ELSE <<"eof">>))
  /\ SignalBackground
  /\ UNCHANGED <<ring, flags, seeking, abort_request, logical_pos, bgVars>>

ReadWaits ==
  /\ rd = "read" /\ ~CheckInterrupt /\ ring_size <= 0 /\ ~io_eof_reached
  /\ rd' = "readwait"
  /\ SignalBackground
  /\ UNCHANGED <<ring, flags, seeking, abort_request, logical_pos, caller, reading,
                 bgVars>>

-------------------------------------------------------------------------------
(***************************************************************************)
(* async_seek()                                                            *)
(***************************************************************************)
InRing(p) == p >= logical_pos - read_pos /\ p < logical_pos + ring_size + Threshold

Seek(p) ==
  /\ Begin(<<"seek", p>>)
  /\ rd' = "decide"
  /\ UNCHANGED <<ring, bg, flags, seeking, abort_request, logical_pos, reading, bgVars>>

\* The choice is made without the mutex, on the ring as it happens to be.
SeekHere ==
  /\ rd = "decide" /\ target = logical_pos
  /\ Return(<<"at", logical_pos>>)
  /\ UNCHANGED <<ring, bg, flags, seeking, abort_request, logical_pos, bgVars>>

\* async_read_internal() with read_complete and nowhere to copy to.
SeekForward ==
  /\ rd = "decide" /\ target > logical_pos /\ InRing(target)
  /\ size' = target - logical_pos /\ to_read' = target - logical_pos
  /\ rd' = "read"
  /\ UNCHANGED <<ring, bg, flags, seeking, abort_request, logical_pos, caller, bgVars>>

\* ring_drain()
SeekBack ==
  /\ rd = "decide" /\ target < logical_pos /\ InRing(target)
  /\ read_pos' = read_pos + (target - logical_pos)
  /\ logical_pos' = target
  /\ Return(<<"at", target>>)
  /\ UNCHANGED <<mem, rndx, wndx, bg, flags, seeking, abort_request, bgVars>>

Elsewhere == target # logical_pos /\ ~InRing(target)

SeekRefused ==
  /\ rd = "decide" /\ Elsewhere /\ target > Size
  /\ Return(<<"error">>)
  /\ UNCHANGED <<ring, bg, flags, seeking, abort_request, logical_pos, bgVars>>

\* Post the request; the first turn of the loop in the same critical section.
SeekRequest ==
  /\ rd = "decide" /\ Elsewhere /\ target <= Size
  /\ seek_request' = TRUE
  /\ seek_completed' = FALSE /\ seek_ret' = 0
  /\ abort_request' = CheckInterrupt
  /\ IF CheckInterrupt
       THEN Return(<<"error">>) /\ UNCHANGED bg
       ELSE rd' = "seekwait" /\ UNCHANGED <<caller, reading>> /\ SignalBackground
  /\ UNCHANGED <<ring, flags, logical_pos, bgVars>>

SeekWaits ==
  /\ rd = "seek" /\ ~CheckInterrupt /\ ~seek_completed
  /\ rd' = "seekwait"
  /\ SignalBackground
  /\ UNCHANGED <<ring, flags, seeking, abort_request, logical_pos, caller, reading,
                 bgVars>>

SeekInterrupted ==
  /\ rd = "seek" /\ CheckInterrupt
  /\ abort_request' = TRUE
  /\ Return(<<"error">>)
  /\ UNCHANGED <<ring, bg, flags, seeking, logical_pos, bgVars>>

SeekDone ==
  /\ rd = "seek" /\ ~CheckInterrupt /\ seek_completed
  /\ logical_pos' = IF seek_ret >= 0 THEN seek_ret ELSE logical_pos
  /\ Return(IF seek_ret >= 0 THEN <<"at", seek_ret>> ELSE <<"error">>)
  /\ UNCHANGED <<ring, bg, flags, seeking, abort_request, bgVars>>

-------------------------------------------------------------------------------
(***************************************************************************)
(* async_close(), the interrupt callback, spurious wakeups                 *)
(***************************************************************************)
Close ==
  /\ Begin(<<"close">>)
  /\ abort_request' = TRUE
  /\ rd' = "join"
  /\ SignalBackground
  /\ UNCHANGED <<ring, flags, seeking, logical_pos, reading, bgVars>>

Joined ==
  /\ rd = "join" /\ bg = "exited"
  /\ rd' = "closed"
  /\ UNCHANGED <<ring, bg, flags, seeking, abort_request, logical_pos, caller,
                 reading, bgVars>>

Interrupt ==
  /\ ~interrupted /\ rd # "closed"
  /\ interrupted' = TRUE /\ broken' = TRUE
  /\ UNCHANGED <<ring, inner, bg, fill, flags, seeking,
                 abort_request, logical_pos, caller, rd, reading>>

SpuriousReader ==
  /\ rd \in {"readwait", "seekwait"}
  /\ SignalMain
  /\ UNCHANGED <<ring, bg, flags, seeking, abort_request, logical_pos, caller,
                 reading, bgVars>>

SpuriousBackground ==
  /\ bg = "wait"
  /\ SignalBackground
  /\ UNCHANGED <<ring, flags, seeking, abort_request, logical_pos, caller, rd,
                 reading, bgVars>>

Terminated ==
  /\ rd = "closed"
  /\ UNCHANGED vars

Background ==
  \/ BgAbort \/ BgSeek \/ BgSeekFails \/ BgSleep \/ BgStartFill
  \/ BgFill \/ BgFillEnds \/ BgFillFails \/ BgPublish \/ BgPost

Reader ==
  \/ ReadInterrupted \/ ReadSome \/ ReadEnds \/ ReadWaits
  \/ SeekHere \/ SeekForward \/ SeekBack \/ SeekRefused
  \/ SeekRequest \/ SeekWaits \/ SeekInterrupted \/ SeekDone
  \/ Joined

Caller ==
  \/ \E n \in ReadSizes : Read(n)
  \/ \E p \in Targets : Seek(p)
  \/ Close

Next ==
  \/ Background \/ Reader \/ Caller \/ Interrupt
  \/ SpuriousReader \/ SpuriousBackground
  \/ Terminated

\* Both threads run, and the inner protocol answers; nobody has to call.
Spec == Init /\ [][Next]_vars /\ WF_vars(Background) /\ WF_vars(Reader)

-------------------------------------------------------------------------------
(***************************************************************************)
(* Properties                                                              *)
(***************************************************************************)
Position ==
  IF call[1] = "seek" /\ rd \in {"read", "readwait"} THEN logical_pos - (size - to_read)
                                                    ELSE logical_pos

File == INSTANCE ByteFile WITH pos <- Position

\* Reads deliver the file's bytes at the position, the end of the file is
\* reported only there, seeks arrive where they say, whatever the background
\* thread has buffered, is writing or has not yet noticed (async_read,
\* async_seek, async_buffer_task).
ImplementsByteFile == File!Spec

\* While the background thread fills the ring with the mutex released it never
\* touches a byte the caller may still read or seek back to, although the space
\* was measured earlier and the caller has moved since (ring_space).
NeverOverwritten ==
  bg \in {"fill", "publish"} => wpos + left - rndx <= Cells

\* Every read, seek and close returns: the two threads never sleep on each
\* other's condition, and an interrupt or an error wakes the caller.
EveryCallReturns == call # <<"none">> ~> (call = <<"none">> \/ rd = "closed")

\* Not true of the code: the assertion offset <= -ring_size(ring) in ring_drain()
\* (async.c:145), which a seek back calls with the distance.
DrainAssertion ==
  rd = "decide" /\ target < logical_pos /\ InRing(target) =>
    target - logical_pos <= -ring_size

-------------------------------------------------------------------------------
(***************************************************************************)
(* The inductive invariant                                                 *)
(***************************************************************************)
TypeRing ==
  /\ mem \in [0 .. (Cells - 1) -> Int]
  /\ rndx \in Nat /\ wndx \in Nat /\ read_pos \in 0 .. ReadBack
  /\ inner \in 0 .. Size
  /\ bg \in {"top", "wait", "fill", "publish", "post", "exited"}
  /\ wpos \in Nat /\ left \in Nat /\ got \in BOOLEAN /\ inner_io_error \in BOOLEAN

TypeCaller ==
  /\ io_eof_reached \in BOOLEAN /\ io_error \in BOOLEAN
  /\ seek_request \in BOOLEAN /\ seek_completed \in BOOLEAN /\ seek_ret \in -1 .. Size
  /\ abort_request \in BOOLEAN /\ interrupted \in BOOLEAN /\ broken \in BOOLEAN
  /\ logical_pos \in 0 .. Size
  /\ rd \in {"idle", "read", "readwait", "decide", "seekwait", "seek", "join", "closed"}
  /\ size \in Nat /\ to_read \in 0 .. size

TypeOK == TypeRing /\ TypeCaller

SeekPending == rd \in {"seek", "seekwait"}

\* The position the ring is at: after a seek that was answered, its target.
At == IF SeekPending /\ seek_completed /\ seek_ret >= 0 THEN seek_ret ELSE logical_pos

\* The index after the last byte that is in the ring, published or not.
End == IF bg \in {"fill", "publish"} THEN wpos ELSE wndx

\* The call and where the caller is in it; a skip ends at its target.
InvCall ==
  /\ rd = "idle" => call = <<"none">>
  /\ rd \in {"read", "readwait"} =>
       /\ to_read > 0
       /\ \/ call = <<"read", size>> /\ size \in 1 .. Size /\ to_read = size
          \/ call = <<"seek", logical_pos + to_read>> /\ size - to_read <= logical_pos
  /\ rd = "decide" => \E p \in Targets : call = <<"seek", p>>
  /\ rd \in {"seek", "seekwait"} => \E p \in 0 .. Size : call = <<"seek", p>>
  /\ rd \in {"join", "closed"} => call = <<"close">>

\* What fits in the ring: the bytes in it, and those that are being put into it.
InvSpace ==
  /\ ring_size >= 0 /\ ring_space >= 0
  /\ bg \in {"fill", "publish"} => wndx <= wpos
  /\ NeverOverwritten

\* What a seek was told is about its own target, unless it has given up.
InvSeek ==
  /\ seek_request => (SeekPending \/ CheckInterrupt) /\ ~seek_completed
  /\ SeekPending /\ seek_completed /\ seek_ret >= 0 => seek_ret = target

\* The bytes up to End are those of the file, from where the ring was last reset.
InvBytes ==
  ~CheckInterrupt =>
    /\ inner = At + (End - (rndx + read_pos))
    /\ \A i \in rndx .. (End - 1) : mem[i % Cells] = At + (i - (rndx + read_pos))

\* The end of the file is only noticed there.
InvEof ==
  /\ bg \in {"fill", "publish", "post"} => ~io_eof_reached
  /\ bg \in {"publish", "post"} /\ ~got /\ ~inner_io_error => inner = Size
  /\ io_eof_reached /\ ~io_error => inner = Size

\* Nothing fails unless there was an error or an interrupt, or the stream is closed.
InvBroken ==
  /\ CheckInterrupt \/ io_error => broken \/ rd \in {"join", "closed"}
  /\ inner_io_error => broken
  /\ seek_completed /\ seek_ret < 0 => broken

IInv ==
  /\ TypeOK /\ InvCall /\ InvSpace /\ InvSeek /\ InvBytes /\ InvEof /\ InvBroken
================================================================================
