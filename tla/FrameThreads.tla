----------------------------- MODULE FrameThreads -----------------------------
(***************************************************************************)
(* Frame threading of libavcodec (libavcodec/pthread_frame.c): the client  *)
(* gives each packet to the next of N decoding threads, in a ring, and     *)
(* gets the frames back in the order of the packets, N-1 calls later.      *)
(*                                                                         *)
(* A packet is decoded in two parts.  In the setup the thread's codec      *)
(* context, copied from that of the packet before, is brought up to date   *)
(* and frames are requested, from the client if its callbacks are not      *)
(* thread-safe; only when it is finished the next packet is submitted.     *)
(* The rest runs in parallel, and waits for the rows of reference frames   *)
(* that other threads are still decoding.                                  *)
(*                                                                         *)
(* A step is one critical section of progress_mutex, or one unlocked test. *)
(* A worker holds its p->mutex all the time but in the wait for input.     *)
(* Row progress is one step: a frame is complete or it is not.             *)
(***************************************************************************)
EXTENDS Integers, Sequences, Functions

CONSTANTS
  N,            \* avctx->thread_count
  Codecs,       \* the kinds of codec and client, see below
  MaxCalls,     \* bound on the packets, empty ones included
  MaxFlush,     \* bound on the calls of ff_thread_flush()
  SpuriousOn    \* the conditions whose waits may end by themselves

\* A kind: has the codec update_thread_context() and can that fail; is it to be
\* called with empty packets (AV_CODEC_CAP_DELAY); are the client's callbacks
\* served by the client's thread; is it FFV1, which delays one frame less.
Kinds == [update : BOOLEAN, fallible : BOOLEAN, cap_delay : BOOLEAN,
          callbacks : BOOLEAN, ffv1 : BOOLEAN]

ASSUME NAssumption == N \in Nat /\ N >= 2
ASSUME BoundsAssumption == MaxCalls \in Nat /\ MaxFlush \in Nat /\ Codecs \subseteq Kinds
ASSUME SpuriousAssumption == SpuriousOn \subseteq {"input", "progress", "output"}

Workers == 0 .. (N - 1)
Main == N               \* the client's thread
None == N               \* prev_thread or buffer_mutex: nobody

VARIABLES
  codec,
  main, avpkt, finished, i, why,    \* the client's thread and its locals
  created,
  prev_thread, next_decoding, next_finished, delaying, die,  \* FrameThreadContext
  state, pkt, frame, result,        \* PerThreadContext; packet and frame numbers
  wpc, ref, obtained,               \* each worker's place, reference, own frame
  ctx,                              \* each codec context: last packet, last frame
  buffer_mutex,
  asleep,                           \* the condition each thread sleeps on
  owner, complete,                  \* ThreadFrame: its thread, those fully decoded
  outcome, out, reported, drained, epoch, torn, flushes   \* history

fctx == <<prev_thread, next_decoding, next_finished, delaying, die>>
call == <<main, avpkt, finished, i, why, created>>
thread == <<wpc, ref, obtained>>
frames == <<owner, complete>>
history == <<out, reported, drained, epoch, torn, flushes>>
vars == <<codec, call, fctx, state, pkt, frame, result, thread, ctx, buffer_mutex,
          asleep, frames, outcome, history>>

Awake == <<"none", 0>>
input_cond(w) == <<"input", w>>
progress_cond(w) == <<"progress", w>>
output_cond(w) == <<"output", w>>

\* pthread_cond_broadcast() and pthread_cond_signal(), on the sleepers sl.
Broadcast(c, sl) == [t \in DOMAIN sl |-> IF sl[t] = c THEN Awake ELSE sl[t]]
Signal(c, sl) ==
  IF \E t \in DOMAIN sl : sl[t] = c
    THEN {[sl EXCEPT ![t] = Awake] : t \in {u \in DOMAIN sl : sl[u] = c}}
    ELSE {sl}

Up(t) == asleep[t] = Awake
SleepOn(t, c) == asleep' = [asleep EXCEPT ![t] = c]

Count == Len(outcome)
Initially(x) == [w \in Workers |-> x]

Init ==
  /\ codec \in Codecs
  /\ main = "creating" /\ avpkt = "data" /\ finished = 0 /\ i = 0 /\ why = "none"
  /\ created = 0
  /\ prev_thread = None /\ next_decoding = 0 /\ next_finished = 0
  /\ delaying = TRUE /\ die = FALSE
  /\ state = Initially("INPUT_READY")
  /\ pkt = Initially(0) /\ frame = Initially(0) /\ result = Initially("ok")
  /\ wpc = Initially("none") /\ ref = Initially(0) /\ obtained = Initially(FALSE)
  /\ ctx = Initially([last |-> 0, ref |-> 0])
  /\ buffer_mutex = None
  /\ asleep = [t \in 0 .. N |-> Awake]
  /\ owner = <<>> /\ complete = {}
  /\ outcome = <<>> /\ out = <<>> /\ reported = {} /\ drained = FALSE
  /\ epoch = 0 /\ torn = FALSE /\ flushes = 0

-------------------------------------------------------------------------------
(***************************************************************************)
(* ff_frame_thread_init()                                                  *)
(***************************************************************************)
CreateWorker ==
  /\ main = "creating"
  /\ created' = created + 1
  /\ wpc' = [wpc EXCEPT ![created] = "idle"]
  /\ main' = IF created + 1 = N THEN "idle" ELSE "creating"
  /\ UNCHANGED <<codec, avpkt, finished, i, why, fctx, state, pkt, frame, result, ref,
                 obtained, ctx, buffer_mutex, asleep, frames, outcome, history>>

\* An allocation, the codec's init or pthread_create() fails for one thread.
CreateFails ==
  /\ main = "creating"
  /\ main' = "park"
  /\ i' = 0
  /\ why' = "free"
  /\ UNCHANGED <<codec, avpkt, finished, created, fctx, state, pkt, frame, result, thread,
                 ctx, buffer_mutex, asleep, frames, outcome, history>>

-------------------------------------------------------------------------------
(***************************************************************************)
(* frame_worker_thread() and what a codec calls                            *)
(***************************************************************************)

\* submit_packet() holds p->mutex while it waits for the packet before.
MainHolds(w) == main = "prev" /\ w = next_decoding

EarlySetup == ~codec.update /\ ~codec.callbacks

\* The wait for input; a thread just created has not got here yet.
WaitForInput(w) ==
  /\ wpc[w] \in {"idle", "loop"}
  /\ Up(w)
  /\ ~MainHolds(w)
  /\ \/ /\ state[w] = "INPUT_READY" /\ ~die
        /\ SleepOn(w, input_cond(w))
        /\ wpc' = [wpc EXCEPT ![w] = "idle"]
        /\ UNCHANGED frame
     \/ /\ die
        /\ wpc' = [wpc EXCEPT ![w] = "exit"]
        /\ UNCHANGED <<asleep, frame>>
     \/ /\ state[w] # "INPUT_READY" /\ ~die
        /\ wpc' = [wpc EXCEPT ![w] = IF EarlySetup THEN "start" ELSE "parse"]
        /\ frame' = [frame EXCEPT ![w] = 0]
        /\ UNCHANGED asleep
  /\ UNCHANGED <<codec, call, fctx, state, pkt, result, ref, obtained, ctx,
                 buffer_mutex, frames, outcome, history>>

\* ff_thread_finish_setup(); by then the context is that of this packet.
SetupFinished(w) ==
  /\ state' = [state EXCEPT ![w] = "SETUP_FINISHED"]
  /\ ctx' = [ctx EXCEPT ![w].last = pkt[w]]
  /\ asleep' = Broadcast(progress_cond(w), asleep)

\* Nothing to set up: the next packet may come at once.
EarlyFinish(w) ==
  /\ wpc[w] = "start"
  /\ SetupFinished(w)
  /\ wpc' = [wpc EXCEPT ![w] = "parse"]
  /\ UNCHANGED <<codec, call, fctx, pkt, frame, result, ref, obtained, buffer_mutex,
                 frames, outcome, history>>

\* ff_thread_get_format() and ff_thread_get_buffer() ask the client's thread:
\* set the state, wake the client and sleep until it is SETTING_UP again.
Request(w, st) ==
  /\ codec.callbacks
  /\ state[w] = "SETTING_UP"
  /\ state' = [state EXCEPT ![w] = st]
  /\ asleep' = [Broadcast(progress_cond(w), asleep) EXCEPT ![w] = progress_cond(w)]

AskForFormat(w) ==
  /\ wpc[w] = "parse"
  /\ Request(w, "GET_FORMAT")
  /\ wpc' = [wpc EXCEPT ![w] = "format"]
  /\ UNCHANGED <<codec, call, fctx, pkt, frame, result, ref, obtained, ctx,
                 buffer_mutex, frames, outcome, history>>

AskForBuffer(w) ==
  /\ wpc[w] \in {"parse", "setup"}
  /\ buffer_mutex = None
  /\ Request(w, "GET_BUFFER")
  /\ buffer_mutex' = w
  /\ wpc' = [wpc EXCEPT ![w] = "buffer"]
  /\ UNCHANGED <<codec, call, fctx, pkt, frame, result, ref, obtained, ctx,
                 frames, outcome, history>>

\* Woken without an answer.
StillWaiting(w) ==
  /\ wpc[w] \in {"format", "buffer"}
  /\ Up(w)
  /\ state[w] # "SETTING_UP"
  /\ SleepOn(w, progress_cond(w))
  /\ UNCHANGED <<codec, call, fctx, state, pkt, frame, result, thread, ctx,
                 buffer_mutex, frames, outcome, history>>

FormatAnswered(w) ==
  /\ wpc[w] = "format"
  /\ Up(w)
  /\ state[w] = "SETTING_UP"
  /\ wpc' = [wpc EXCEPT ![w] = "setup"]
  /\ UNCHANGED <<codec, call, fctx, state, pkt, frame, result, ref, obtained, ctx,
                 buffer_mutex, asleep, frames, outcome, history>>

\* The frame is the one that the packets to come refer to; it refers to the last.
Obtain(w, ok) ==
  /\ obtained' = [obtained EXCEPT ![w] = ok]
  /\ ref' = [ref EXCEPT ![w] = IF ok /\ codec.update THEN ctx[w].ref ELSE 0]
  /\ ctx' = IF ok THEN [ctx EXCEPT ![w].ref = pkt[w]] ELSE ctx

\* The answer; buffer_mutex is released here unless the setup ends with it.
BufferAnswered(w) ==
  /\ wpc[w] = "buffer"
  /\ Up(w)
  /\ state[w] = "SETTING_UP"
  /\ Obtain(w, result[w] = "ok")
  /\ wpc' = [wpc EXCEPT ![w] = "buffered"]
  /\ buffer_mutex' = IF codec.update THEN None ELSE w
  /\ UNCHANGED <<codec, call, fctx, state, pkt, frame, result, asleep, frames,
                 outcome, history>>

\* A thread-safe callback is called here; after the setup only if there is none.
GetBuffer(w) ==
  /\ wpc[w] \in {"parse", "setup"}
  /\ ~codec.callbacks
  /\ buffer_mutex = None
  /\ state[w] = "SETTING_UP" \/ ~codec.update
  /\ \E ok \in BOOLEAN : Obtain(w, ok)
  /\ wpc' = [wpc EXCEPT ![w] = "buffered"]
  /\ UNCHANGED <<codec, call, fctx, state, pkt, frame, result, buffer_mutex, asleep,
                 frames, outcome, history>>

\* The codec says so, or thread_get_buffer_internal() for one that cannot.
FinishSetup(w) ==
  /\ state[w] = "SETTING_UP"
  /\ \/ codec.update /\ wpc[w] \in {"parse", "setup", "buffered"} /\ UNCHANGED buffer_mutex
     \/ buffer_mutex = w /\ wpc[w] = "buffered" /\ buffer_mutex' = None
  /\ SetupFinished(w)
  /\ wpc' = [wpc EXCEPT ![w] = IF obtained[w] THEN "work" ELSE "end"]
  /\ UNCHANGED <<codec, call, fctx, pkt, frame, result, ref, obtained, frames,
                 outcome, history>>

\* The codec goes on, or gives up, without a call of ff_thread_finish_setup().
NoFinish(w) ==
  /\ wpc[w] \in {"parse", "setup", "buffered"}
  /\ buffer_mutex # w
  /\ wpc' = [wpc EXCEPT ![w] = IF obtained[w] THEN "work" ELSE "end"]
  /\ UNCHANGED <<codec, call, fctx, state, pkt, frame, result, ref, obtained, ctx,
                 buffer_mutex, asleep, frames, outcome, history>>

\* ff_thread_await_progress() on the reference frame.
AwaitProgress(w) ==
  /\ wpc[w] = "work"
  /\ Up(w)
  /\ \/ /\ ref[w] \in complete \cup {0}
        /\ wpc' = [wpc EXCEPT ![w] = "report"]
        /\ UNCHANGED asleep
     \/ /\ ref[w] \notin complete \cup {0}
        /\ SleepOn(w, progress_cond(owner[ref[w]]))
        /\ UNCHANGED wpc
  /\ UNCHANGED <<codec, call, fctx, state, pkt, frame, result, ref, obtained, ctx,
                 buffer_mutex, frames, outcome, history>>

\* ff_thread_report_progress(); a codec reports every row, also after an error.
ReportProgress(w) ==
  /\ wpc[w] = "report"
  /\ complete' = complete \cup {pkt[w]}
  /\ asleep' = Broadcast(progress_cond(w), asleep)
  /\ wpc' = [wpc EXCEPT ![w] = "end"]
  /\ UNCHANGED <<codec, call, fctx, state, pkt, frame, result, ref, obtained, ctx,
                 buffer_mutex, owner, outcome, history>>

\* codec->decode() returned before ff_thread_finish_setup() was called.
LateFinish(w) ==
  /\ wpc[w] = "end"
  /\ state[w] = "SETTING_UP"
  /\ SetupFinished(w)
  /\ UNCHANGED <<codec, call, fctx, pkt, frame, result, thread, buffer_mutex, frames,
                 outcome, history>>

\* What codec->decode() returned: its frame if it got one, an error or nothing.
Decoded(w) ==
  \E o \in {"frame", "none", "error"} :
    /\ o = "frame" => obtained[w]
    /\ outcome' = [outcome EXCEPT ![pkt[w]] = o]
    /\ result' = [result EXCEPT ![w] = IF o = "error" THEN "error" ELSE "ok"]
    /\ frame' = [frame EXCEPT ![w] = IF o = "frame" THEN pkt[w] ELSE 0]

\* Variant: the client, which waits for the output, is not told.
TellReadyQuietly(w) == asleep' = Broadcast(progress_cond(w), asleep)

TellReady(w) == asleep' \in Signal(output_cond(w), Broadcast(progress_cond(w), asleep))

OutputReady(w) ==
  /\ wpc[w] = "end"
  /\ state[w] # "SETTING_UP"
  /\ Decoded(w)
  /\ state' = [state EXCEPT ![w] = "INPUT_READY"]
  /\ TellReady(w)
  /\ wpc' = [wpc EXCEPT ![w] = "loop"]
  /\ ref' = [ref EXCEPT ![w] = 0]
  /\ obtained' = [obtained EXCEPT ![w] = FALSE]
  /\ UNCHANGED <<codec, call, fctx, pkt, ctx, buffer_mutex, frames, history>>

-------------------------------------------------------------------------------
(***************************************************************************)
(* ff_thread_decode_frame() and submit_packet()                            *)
(***************************************************************************)

\* The client's call, with a packet or an empty one to drain the decoder; only
\* a codec with AV_CODEC_CAP_DELAY is given an empty one.
Call(size) ==
  /\ main = "idle"
  /\ Count < MaxCalls
  /\ avpkt' = size
  /\ drained' = FALSE
  /\ LET submit == size = "data" \/ codec.cap_delay
     IN  /\ main' = IF submit THEN "lock" ELSE "output"
         /\ finished' = IF submit THEN finished ELSE next_finished
  /\ UNCHANGED <<codec, i, why, created, fctx, state, pkt, frame, result, thread, ctx,
                 buffer_mutex, asleep, frames, outcome, out, reported, epoch, torn, flushes>>

\* Lock p->mutex and release the buffers kept for the client.
LockThread ==
  /\ main = "lock"
  /\ wpc[next_decoding] = "idle"
  /\ buffer_mutex = None
  /\ main' = "prev"
  /\ UNCHANGED <<codec, avpkt, finished, i, why, created, fctx, state, pkt, frame, result,
                 thread, ctx, buffer_mutex, asleep, frames, outcome, history>>

\* Variant: the packet before is not waited for.
PrevIsSetUpAlways == TRUE

PrevIsSetUp == prev_thread # None => state[prev_thread] # "SETTING_UP"

AwaitPrev ==
  /\ main = "prev" /\ Up(Main)
  /\ ~PrevIsSetUp
  /\ SleepOn(Main, progress_cond(prev_thread))
  /\ UNCHANGED <<codec, call, fctx, state, pkt, frame, result, thread, ctx, buffer_mutex,
                 frames, outcome, history>>

\* The packet is handed over with the context of the one before.
Submit ==
  /\ main = "prev" /\ Up(Main)
  /\ PrevIsSetUp
  /\ LET p == next_decoding
     IN  /\ ctx' = IF prev_thread = None THEN ctx ELSE [ctx EXCEPT ![p] = ctx[prev_thread]]
         /\ pkt' = [pkt EXCEPT ![p] = Count + 1]
         /\ owner' = Append(owner, p)
         /\ state' = [state EXCEPT ![p] = "SETTING_UP"]
         /\ asleep' \in Signal(input_cond(p), asleep)
  /\ outcome' = Append(outcome, "pending")
  /\ main' = IF codec.callbacks THEN "serve" ELSE "submitted"
  /\ UNCHANGED <<codec, avpkt, finished, i, why, created, fctx, frame, result, thread,
                 buffer_mutex, complete, history>>

\* update_thread_context() failed: the packet is refused.
SubmitFails ==
  /\ main = "prev" /\ Up(Main)
  /\ PrevIsSetUp
  /\ prev_thread # None /\ codec.update /\ codec.fallible
  /\ main' = "idle"
  /\ UNCHANGED <<codec, avpkt, finished, i, why, created, fctx, state, pkt, frame, result,
                 thread, ctx, buffer_mutex, asleep, frames, outcome, history>>

AwaitRequest ==
  /\ main = "serve" /\ Up(Main)
  /\ state[next_decoding] = "SETTING_UP"
  /\ SleepOn(Main, progress_cond(next_decoding))
  /\ UNCHANGED <<codec, call, fctx, state, pkt, frame, result, thread, ctx, buffer_mutex,
                 frames, outcome, history>>

\* The client's get_buffer() or get_format() runs, then the worker goes on.
Serve ==
  /\ main = "serve" /\ Up(Main)
  /\ LET p == next_decoding
     IN  /\ state[p] \in {"GET_BUFFER", "GET_FORMAT"}
         /\ state' = [state EXCEPT ![p] = "SETTING_UP"]
         /\ \/ state[p] = "GET_FORMAT" /\ UNCHANGED result
            \/ state[p] = "GET_BUFFER"
               /\ \E ret \in {"ok", "error"} : result' = [result EXCEPT ![p] = ret]
         /\ asleep' \in Signal(progress_cond(p), asleep)
  /\ UNCHANGED <<codec, call, fctx, pkt, frame, thread, ctx, buffer_mutex, frames,
                 outcome, history>>

\* Variant: the index wraps before it is compared.
AdvancedWrapped == (next_decoding + 1) % N

Advanced == next_decoding + 1

StillDelaying(nd) == delaying /\ nd <= N - 1 - (IF codec.ffv1 THEN 1 ELSE 0)

\* The end of submit_packet(): go on to the output unless the pipeline is filling.
Submitted ==
  /\ \/ main = "submitted"
     \/ main = "serve" /\ Up(Main)
        /\ state[next_decoding] \in {"SETUP_FINISHED", "INPUT_READY"}
  /\ prev_thread' = next_decoding
  /\ next_decoding' = Advanced
  /\ delaying' = StillDelaying(next_decoding')
  /\ main' = IF delaying' /\ avpkt = "data" THEN "idle" ELSE "output"
  /\ finished' = IF main' = "output" THEN next_finished ELSE 0
  /\ UNCHANGED <<codec, avpkt, i, why, created, next_finished, die, state, pkt, frame, result,
                 thread, ctx, buffer_mutex, asleep, frames, outcome, history>>

AwaitOutput ==
  /\ main = "output" /\ Up(Main)
  /\ state[finished] # "INPUT_READY"
  /\ SleepOn(Main, output_cond(finished))
  /\ UNCHANGED <<codec, call, fctx, state, pkt, frame, result, thread, ctx, buffer_mutex,
                 frames, outcome, history>>

\* Variant: a thread without a frame ends a draining call, too.
LookFurtherNever(next) == FALSE

\* A draining call passes over threads that have no frame, once round the ring.
LookFurther(next) ==
  avpkt = "empty" /\ frame[finished] = 0 /\ next # next_finished

Wrapped == IF next_decoding >= N THEN 0 ELSE next_decoding

\* Variant: the frame stays in the thread, to be found again.
TakeFrameKeep == UNCHANGED frame

TakeFrame == frame' = [frame EXCEPT ![finished] = 0]

\* i holds err: the last packet that this call found to have failed.
Output ==
  /\ main = "output" /\ Up(Main)
  /\ state[finished] = "INPUT_READY"
  /\ LET got  == frame[finished]
         next == (finished + 1) % N
         err  == IF result[finished] = "error" THEN pkt[finished] ELSE i
     IN  /\ TakeFrame
         /\ out' = IF got = 0 THEN out ELSE Append(out, got)
         /\ IF LookFurther(next)
              THEN /\ finished' = next
                   /\ i' = err
                   /\ UNCHANGED <<main, next_decoding, next_finished, reported, drained>>
              ELSE /\ finished' = 0
                   /\ i' = 0
                   /\ main' = "idle"
                   /\ next_decoding' = Wrapped
                   /\ next_finished' = next
                   /\ drained' = (avpkt = "empty" /\ got = 0)
                   /\ reported' =
                        IF drained' THEN reported \cup ({err} \ {0})
                        ELSE IF result[finished] = "error" THEN reported \cup {pkt[finished]}
                        ELSE reported
  /\ UNCHANGED <<codec, avpkt, why, created, prev_thread, delaying, die, state, pkt, result,
                 thread, ctx, buffer_mutex, asleep, frames, outcome, epoch, torn, flushes>>

-------------------------------------------------------------------------------
(***************************************************************************)
(* ff_thread_flush() and ff_frame_thread_free()                            *)
(***************************************************************************)
StartFlush ==
  /\ main = "idle"
  /\ flushes < MaxFlush
  /\ main' = "park"
  /\ why' = "flush"
  /\ UNCHANGED <<codec, avpkt, finished, i, created, fctx, state, pkt, frame, result, thread,
                 ctx, buffer_mutex, asleep, frames, outcome, history>>

StartFree ==
  /\ main = "idle"
  /\ main' = "park"
  /\ why' = "free"
  /\ UNCHANGED <<codec, avpkt, finished, i, created, fctx, state, pkt, frame, result, thread,
                 ctx, buffer_mutex, asleep, frames, outcome, history>>

\* The number of threads to park or free: after a failed init the last has none.
Limit == IF created < N THEN created + 1 ELSE N

\* park_frame_worker_threads(), one thread a step.
Park ==
  /\ main = "park" /\ Up(Main)
  /\ i < Limit
  /\ \/ /\ state[i] # "INPUT_READY"
        /\ SleepOn(Main, output_cond(i))
        /\ UNCHANGED <<i, frame>>
     \/ /\ state[i] = "INPUT_READY"
        /\ frame' = [frame EXCEPT ![i] = 0]
        /\ i' = i + 1
        /\ UNCHANGED asleep
  /\ UNCHANGED <<codec, main, avpkt, finished, why, created, fctx, state, pkt, result, thread,
                 ctx, buffer_mutex, frames, outcome, history>>

\* Variant: the first thread keeps its old context.
RestartContextStale == UNCHANGED <<ctx, torn>>

\* The next packet goes to thread 0, so it gets the context of the last one; a
\* failure of update_thread_context() is not noticed.
RestartContext ==
  \/ /\ prev_thread # None
     /\ ctx' = [ctx EXCEPT ![0] = ctx[prev_thread]]
     /\ UNCHANGED torn
  \/ /\ prev_thread \in {None, 0} \/ (codec.update /\ codec.fallible)
     /\ torn' = (torn \/ prev_thread \notin {None, 0})
     /\ UNCHANGED ctx

Flush ==
  /\ main = "park" /\ why = "flush" /\ i = N
  /\ RestartContext
  /\ next_decoding' = 0
  /\ next_finished' = 0
  /\ delaying' = TRUE
  /\ prev_thread' = None
  /\ main' = "idle"
  /\ i' = 0
  /\ flushes' = flushes + 1
  /\ epoch' = Count
  /\ out' = <<>>
  /\ reported' = {}
  /\ drained' = FALSE
  /\ UNCHANGED <<codec, avpkt, finished, why, created, die, state, pkt, frame, result, thread,
                 buffer_mutex, asleep, frames, outcome>>

Free ==
  /\ main = "park" /\ why = "free" /\ i = Limit
  /\ die' = TRUE
  /\ main' = "join"
  /\ i' = 0
  /\ UNCHANGED <<codec, avpkt, finished, why, created, prev_thread, next_decoding,
                 next_finished, delaying, state, pkt, frame, result, thread, ctx, buffer_mutex,
                 asleep, frames, outcome, history>>

\* Variant: the sleeping worker is not woken.
WakeForExitNot(w) == UNCHANGED asleep

WakeForExit(w) == asleep' \in Signal(input_cond(w), asleep)

SignalExit ==
  /\ main = "join"
  /\ wpc[i] \in {"none", "idle", "exit"}
  /\ WakeForExit(i)
  /\ main' = "joining"
  /\ UNCHANGED <<codec, avpkt, finished, i, why, created, fctx, state, pkt, frame, result,
                 thread, ctx, buffer_mutex, frames, outcome, history>>

\* Variant: nobody is joined.
JoinedAtOnce(w) == TRUE

\* pthread_join(), for a thread that was created.
Joined(w) == wpc[w] \in {"none", "exit"}

Join ==
  /\ main = "joining"
  /\ Joined(i)
  /\ i' = i + 1
  /\ main' = IF i + 1 = Limit THEN "freed" ELSE "join"
  /\ UNCHANGED <<codec, avpkt, finished, why, created, fctx, state, pkt, frame, result,
                 thread, ctx, buffer_mutex, asleep, frames, outcome, history>>

\* POSIX lets a wait return without a signal.
Spurious(t) ==
  /\ asleep[t][1] \in SpuriousOn
  /\ asleep' = [asleep EXCEPT ![t] = Awake]
  /\ UNCHANGED <<codec, call, fctx, state, pkt, frame, result, thread, ctx, buffer_mutex,
                 frames, outcome, history>>

-------------------------------------------------------------------------------
WorkerStep(w) ==
  \/ WaitForInput(w) \/ EarlyFinish(w)
  \/ AskForFormat(w) \/ AskForBuffer(w) \/ StillWaiting(w) \/ FormatAnswered(w)
  \/ BufferAnswered(w) \/ GetBuffer(w) \/ FinishSetup(w) \/ NoFinish(w)
  \/ AwaitProgress(w) \/ ReportProgress(w)
  \/ LateFinish(w) \/ OutputReady(w)

DecodeStep ==
  \/ LockThread \/ AwaitPrev \/ Submit \/ SubmitFails
  \/ AwaitRequest \/ Serve \/ Submitted \/ AwaitOutput \/ Output

FreeStep == Park \/ Flush \/ Free \/ SignalExit \/ Join

Next ==
  \/ CreateWorker \/ CreateFails
  \/ \E w \in Workers : WorkerStep(w)
  \/ \E size \in {"data", "empty"} : Call(size)
  \/ DecodeStep
  \/ StartFlush \/ StartFree
  \/ FreeStep
  \/ \E t \in 0 .. N : Spurious(t)
  \/ main = "freed" /\ UNCHANGED vars

Spec == Init /\ [][Next]_vars

\* The threads are scheduled and a codec's decode() returns; the client may stop
\* calling at any time.
FairSpec ==
  /\ Spec
  /\ \A w \in Workers : WF_vars(WorkerStep(w))
  /\ WF_vars(DecodeStep)
  /\ WF_vars(FreeStep)

-------------------------------------------------------------------------------
(***************************************************************************)
(* Properties                                                              *)
(***************************************************************************)
InSetup(w) == state[w] \in {"SETTING_UP", "GET_BUFFER", "GET_FORMAT"}

TypeClient ==
  /\ codec \in Codecs
  /\ main \in {"creating", "idle", "lock", "prev", "serve", "submitted", "output",
               "park", "join", "joining", "freed"}
  /\ avpkt \in {"data", "empty"} /\ finished \in Workers /\ i \in Nat /\ created \in 0 .. N
  /\ why \in {"none", "flush", "free"}
  /\ prev_thread \in Workers \cup {None}
  /\ next_decoding \in 0 .. N /\ (next_decoding = N => main = "output")
  /\ next_finished \in Workers /\ delaying \in BOOLEAN /\ die \in BOOLEAN

TypeWorkers ==
  /\ state \in [Workers -> {"INPUT_READY", "SETTING_UP", "GET_BUFFER", "GET_FORMAT",
                            "SETUP_FINISHED"}]
  /\ pkt \in [Workers -> 0 .. Count] /\ frame \in [Workers -> 0 .. Count]
  /\ ref \in [Workers -> 0 .. Count] /\ obtained \in [Workers -> BOOLEAN]
  /\ result \in [Workers -> {"ok", "error"}]
  /\ wpc \in [Workers -> {"none", "idle", "loop", "start", "parse", "format", "setup", "buffer",
                          "buffered", "work", "report", "end", "exit"}]
  /\ ctx \in [Workers -> [last : 0 .. Count, ref : 0 .. Count]]
  /\ buffer_mutex \in Workers \cup {None}
  /\ owner \in Seq(Workers) /\ Len(owner) = Count /\ complete \subseteq 1 .. Count
  /\ outcome \in Seq({"pending", "frame", "none", "error"})

TypeOK == TypeClient /\ TypeWorkers

\* The client gets the frames in the order of their packets and none is passed
\* over, whichever thread finishes first and however packets and draining calls
\* are mixed: no thread is given a packet while its last frame is not yet taken.
FramesInOrder ==
  LET last == IF out = <<>> THEN epoch ELSE out[Len(out)]
  IN  /\ \A m, n \in DOMAIN out : m < n => out[m] < out[n]
      /\ Range(out) = {k \in (epoch + 1) .. last : outcome[k] = "frame"}

\* A draining call that returns no frame means that there is none left.
DrainedMeansEmpty ==
  drained => \A k \in (epoch + 1) .. Count :
               outcome[k] # "pending" /\ (outcome[k] = "frame" => \E n \in DOMAIN out : out[n] = k)

\* doc/multithreading.txt: it "delays decoded pictures by N-1 frames", no more.
AtMostNMinusOneBehind ==
  main = "idle" =>
    \A k \in (epoch + 1) .. Count :
      outcome[k] = "frame" /\ Count - k >= N - 1 => \E n \in DOMAIN out : out[n] = k

\* Nothing decoded is held back longer than the ring of threads asks for.
NothingIsHeldBack == DrainedMeansEmpty /\ AtMostNMinusOneBehind

\* A packet is parsed with the context that the packet before it left behind,
\* also after a flush and after a packet that was refused.  (torn: a flush did
\* not notice that update_thread_context() failed.)
ContextIsPassedOn ==
  \A w \in Workers :
    codec.update /\ ~torn /\ InSetup(w) /\ wpc[w] # "exit" =>
      ctx[w].last = pkt[w] - 1

\* Setups never overlap, so the client's callbacks are called one at a time.
OneSetupAtATime ==
  codec.update \/ codec.callbacks =>
    \A v, w \in Workers : InSetup(v) /\ InSetup(w) => v = w

\* The contexts are freed when no worker is left to use them.
NoWorkerAfterFree ==
  main = "freed" => \A w \in Workers : wpc[w] \in {"none", "exit"}

\* Each call of the client comes back, although it waits in turn for the setup of
\* the last packet, requests of the new one and the output of the oldest, while
\* workers wait for each other's rows.
CallsReturn == main \in {"lock", "prev", "serve", "submitted", "output"} ~> main = "idle"

\* Flush and free end, whatever the workers are doing.
FlushAndFreeEnd == main = "park" ~> main \in {"idle", "freed"}

\* The comment in ff_thread_decode_frame(): "When no frame was found while
\* flushing, but an error occurred in any thread, return it instead of 0.
\* Otherwise the error can get lost."  So when the client has drained the decoder
\* and something failed, some call has told it.
ErrorsAreNotLost ==
  drained /\ (\E k \in (epoch + 1) .. Count : outcome[k] = "error") => reported # {}

\* Not true of the code.  avcodec.h on avcodec_flush_buffers(): "Reset the internal decoder state / flush
\* internal buffers.  Should be called e.g. when seeking".  An error reported after
\* it is that of a packet sent after it.
FlushForgetsErrors == \A k \in reported : k > epoch
-------------------------------------------------------------------------------
(***************************************************************************)
(* The inductive invariant                                                 *)
(***************************************************************************)
\* The steps from thread a to thread b, round the ring.
Steps(a, b) == IF a <= b THEN b - a ELSE b - a + N

\* The packet is submitted, but its thread is not yet the one before the next.
Handing == main \in {"serve", "submitted"}

\* The thread of the last packet, and how many packets later than w's it came.
Newest == IF Handing THEN next_decoding ELSE IF next_decoding = 0 THEN N - 1 ELSE next_decoding - 1
Age(w) == Steps(w, Newest)

\* The call has submitted a packet whose output it may still have to wait for.
HasSubmitted == Handing \/ (main = "output" /\ (avpkt = "data" \/ codec.cap_delay))

\* The number of packets whose frames are still to be taken, N at most; the last
\* of the others.
Held == IF HasSubmitted THEN Steps(next_finished, Newest) + 1 ELSE Steps(next_finished, next_decoding)
Taken == Count - Held

Ending == main \in {"park", "join", "joining", "freed"}

\* Creating, parking and joining the workers.
InvThreads ==
  /\ main = "creating" => created < N
  /\ created < N => main = "creating" \/ (Ending /\ why = "free")
  /\ created < N => \A w \in Workers : state[w] = "INPUT_READY"
  /\ \A w \in Workers : wpc[w] = "none" <=> w >= created
  /\ main \notin {"output", "park", "join", "joining", "freed"} => i = 0
  /\ main = "park" =>
       i <= Limit /\ \A w \in Workers : w < i => state[w] = "INPUT_READY" /\ frame[w] = 0
  /\ main \in {"join", "joining"} => i < Limit
  /\ main \in {"join", "joining", "freed"} =>
       \A w \in Workers : state[w] = "INPUT_READY" /\ (w < i => wpc[w] \in {"none", "exit"})
  /\ die => main \in {"join", "joining", "freed"}

\* Where a worker is, and whether it has a packet.
InvWorkers ==
  /\ \A w \in Workers :
       /\ wpc[w] = "exit" => die
       /\ IF state[w] = "INPUT_READY" THEN wpc[w] \in {"none", "idle", "loop", "exit"}
                                      ELSE wpc[w] \notin {"none", "loop", "exit"}
       /\ state[w] \in {"GET_FORMAT", "GET_BUFFER"} => wpc[w] \in {"format", "buffer"}
  /\ main = "prev" => wpc[next_decoding] = "idle"

\* The ring: each thread has the packet of its place; the delay ends for good.
InvRing ==
  /\ epoch \in 0 .. Count /\ Held <= Count - epoch
  /\ \A w \in Workers :
       IF Count - Age(w) > epoch THEN pkt[w] = Count - Age(w) ELSE pkt[w] <= epoch
  /\ main \in {"lock", "prev", "serve", "submitted"} => avpkt = "data" \/ codec.cap_delay
  /\ main = "output" /\ HasSubmitted =>
       next_decoding >= 1 /\ (delaying => next_finished < next_decoding)
  /\ next_decoding = N => HasSubmitted
  /\ delaying => next_finished <= next_decoding /\ next_decoding < N
  /\ main = "output" /\ avpkt = "data" => finished = next_finished /\ ~delaying

\* The frames that are still to be taken are with the threads they were decoded by,
\* and a draining call has passed over none.
InvFrames ==
  \A w \in Workers :
    /\ state[w] # "INPUT_READY" => outcome[pkt[w]] = "pending" /\ frame[w] = 0 /\ Age(w) < Held
    /\ state[w] = "INPUT_READY" /\ pkt[w] > epoch => outcome[pkt[w]] # "pending"
    /\ frame[w] # 0 => frame[w] = pkt[w] /\ outcome[pkt[w]] = "frame" /\ Age(w) < Held
    /\ ~Ending /\ state[w] = "INPUT_READY" /\ Age(w) < Held /\ outcome[pkt[w]] = "frame" =>
         frame[w] = pkt[w]
    /\ main = "output" /\ Steps(next_finished, w) < Steps(next_finished, finished) =>
         state[w] = "INPUT_READY" /\ frame[w] = 0

\* Those taken are the frames of all packets before, in order.
InvOut ==
  /\ out \in Seq(Nat)
  /\ \A m, n \in DOMAIN out : m < n => out[m] < out[n]
  /\ Range(out) = {k \in (epoch + 1) .. Taken : outcome[k] = "frame"}
  /\ \A k \in (epoch + 1) .. Taken : outcome[k] # "pending"

InvDrained ==
  /\ drained => main \in {"idle", "park", "join", "joining", "freed"}
  /\ drained => \A k \in (epoch + 1) .. Count :
                  outcome[k] # "pending" /\ (outcome[k] = "frame" => k \in Range(out))

\* Who is in its setup, and whose context the next packet gets.
InvSetup ==
  /\ main = "serve" => codec.callbacks
  /\ \A w \in Workers :
       /\ state[w] \in {"GET_FORMAT", "GET_BUFFER"} => codec.callbacks
       /\ InSetup(w) /\ (codec.update \/ codec.callbacks) => w = Newest
       /\ InSetup(w) /\ codec.callbacks => main = "serve"
  /\ ~Handing => IF prev_thread = None THEN Count = epoch /\ next_decoding = 0
                                       ELSE Count > epoch /\ prev_thread = Newest

InvContext ==
  /\ \A w \in Workers :
       /\ pkt[w] > epoch /\ ~InSetup(w) => ctx[w].last = pkt[w]
       /\ codec.update /\ ~torn /\ InSetup(w) => ctx[w].last = pkt[w] - 1
  /\ codec.update /\ ~torn /\ prev_thread = None /\ ~Handing => ctx[0].last = Count

\* The threads, the ring and the setups: setups do not overlap, and no thread is
\* left when the contexts are freed.
ThreadsInv ==
  /\ TypeOK /\ OneSetupAtATime /\ NoWorkerAfterFree
  /\ InvThreads /\ InvWorkers /\ InvRing /\ InvFrames /\ InvOut /\ InvDrained
  /\ InvSetup /\ InvContext
===============================================================================
