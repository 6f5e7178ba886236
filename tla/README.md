# TLA+ models of FFmpeg's threading and buffering core

The repository holds two code bases: `src/ffmpeg`, a complete FFmpeg tree
(libraries and tools, about 1.3 million lines), and `src/avcode`, a C library
called Solid (`src/avcode/common`, about 94 000 lines: containers, parsers,
networking, utilities). Most of either is sequential number crunching or parsing.
What is small, shared by everything else and hard to test is the code where
threads meet or where packets arrive in an order nobody chose: the two thread
pools of libavcodec and the row progress of wavefront decoding, frame-threaded
encoding, the message queue and the input threads of the `ffmpeg` tool, the
reference counted buffers they all pass around, the `async:` protocol, the video
path of ffplay, and the RTP reordering queue. These are modelled here, checked
with TLC on small instances, and proved with TLAPS for every value of the constants:
every safety property of a run is stated by a theorem as well.

## 1. Inventory

### Modelled

| Component (source) | State | Operations | Interacts with |
|---|---|---|---|
| Slice threading (`libavcodec/pthread_slice.c`) | `current_job`, `job_count`, `current_execute`, `done`, one mutex, two conditions; locals of each `worker()` | init, `execute()`, `execute2()`, free, failed creation | codecs call `execute()`; jobs run on the workers |
| Row progress, WPP (`pthread_slice.c` from line 249, `hevc.c`, `hevc_cabac.c`) | `entries[]`, a mutex and condition per thread, `wpp_err`, the shared CABAC state | report, await, one row (`hls_decode_entry_wpp`), one slice (`hls_slice_data_wpp`) | rows are jobs of the slice pool and wait for one another |
| Frame threading (`libavcodec/pthread_frame.c`) | ring position (`next_decoding`, `next_finished`, `delaying`), `prev_thread`, `die`; per thread `state`, packet, frame, result, three conditions; progress of each frame | init, submit, decode, setup finished, callbacks served by the client's thread, report and await progress, drain, flush, free | client's decode calls, client's `get_buffer`/`get_format` callbacks, codecs |
| Frame-threaded encoding (`libavcodec/frame_thread_encoder.c`) | task FIFO, ring of `BUFFER_SIZE` results, two indices, `exit` | init, encode call with and without a frame, free, failed creation | the client's encode calls, intra-only encoders |
| Thread message queue (`libavutil/threadmessage.c`) | FIFO, two error codes, one mutex, one condition | alloc, send, recv, set_err_send, set_err_recv, free | `ffmpeg.c` input threads |
| Input threads (`ffmpeg.c`; partly) | per file: thread, queue pointer, `eof_reached`, `eagain`, `loop`, the demuxer's position | init, reader loop, the reading half of `process_input()`, seek for `-stream_loop`, shutdown | message queue, demuxers, main loop |
| Buffers and pools (`libavutil/buffer.c`) | per block `refcount` and flags; per `AVBufferRef` its buffer; per pool count, list, mutex | create, alloc, ref, unref, make_writable, realloc; pool init, get, release, uninit | every thread that holds a frame or packet; `update_frame_pool()` in `libavcodec/utils.c` |
| `async:` protocol (`libavformat/async.c`, `libavutil/fifo.c`) | ring (bytes, two indices, bytes kept for seeking back), end and error flags, seek request, `abort_request`, `logical_pos` | background fill, read, the three kinds of seek, interrupt, close | an inner protocol; the caller's interrupt callback |
| ffplay's video path (`ffplay.c`; partly) | packet queue with serials, decoder, picture queue, the read thread's position, pause, step and seek requests | read, queue, decode, show, seek, pause, step, loop, close | read thread, video thread, main thread; codec; SDL events |
| RTP reordering (`libavformat/rtpdec.c`, `rtsp.c`; partly) | last sequence number, queue, `prev_ret`, statistics of the source | receive, validate, queue, parse from the queue, time out | network, payload handlers, the fetch loop of RTSP |

What makes each of them correct:

- **Slice pool.** Each job runs exactly once; `execute()` returns after the last
  job and always returns; the pool ends cleanly, also when a thread could not be
  created. One counter hands out the jobs and at the same time counts the
  completions, workers may sleep through whole calls, and the only signal to the
  caller comes from the worker that makes the counter reach its final value.
- **Wavefront.** A CTB is decoded only after its upper right neighbour, although
  rows that fail or stop raise their counters over CTBs they never decoded; each
  row starts from the contexts the row above left, in the one buffer all share.
- **Frame threads.** Frames come in packet order, with a delay of at most N-1;
  a thread starts from the context its predecessor's setup left; setups (and so
  the client's callbacks) never overlap; nobody waits for ever although the
  client waits for workers, workers for the client and workers for each other's
  rows; errors are reported.
- **Encoder.** Results in frame order, none overwritten in the ring, a bounded
  number in flight, every call returns, closing ends.
- **Message queue and input threads.** No lost wakeup although senders and
  receivers sleep on one condition and each message wakes one sleeper; errors do
  not overtake messages; no packet lost, doubled or leaked at shutdown.
- **Buffers and pools.** Nothing a reference names is freed or handed out again;
  who finds a buffer writable stays alone with it; a pool lives as long as its
  client, any of its buffers, or a thread inside it needs it, and no longer.
- **async:** The caller sees a plain file. The background thread writes into
  space it measured earlier, while the caller seeks back into it.
- **ffplay.** A picture decoded before a seek is not taken for one after it; the
  slot on the screen is not overwritten; the end is noticed only when everything
  was shown; a seek is followed by its picture; closing ends.
- **RTP.** The handlers get packets in order; one that comes too late is dropped;
  a gap is waited for only so long; no frame of a packet is skipped.

### Not modelled

`PROJECT.json` lists every part with the reason. In short:

| Part | Why not, or when |
|---|---|
| `libavfilter/pthread.c` | the same protocol as the slice pool, statement by statement |
| `udp:` ring, `mux.c` interleaving, `audio_frame_queue.c` | in the plan |
| avcode `msg_queue.c`, `sock_pool.c`, `gen_sync_src.c` | in the plan |
| filter graph, transcoding loop of `ffmpeg.c`, ffplay's audio and subtitles | later candidates |
| avcode threads and mutexes | one-line wrappers of the operating system |
| codecs, DSP and assembly, demuxers, muxers, other protocols, scaling, resampling, post-processing, devices, parsers, hashes | sequential data processing whose correctness is agreement with an external format or a reference decoder; tested by FATE |
| tests, documentation, build system, compat | not part of the running system |

### Hazards

`PROJECT.json`, `hazards`, lists the places that are hard to test, each at its
line, with the properties that would catch it. Three have no property: the full
`udp:` ring (`udp.c:515`, not modelled), the counters of rows that are allocated
once only (`hevc.c:2456`) and a flush that cannot copy a context
(`pthread_frame.c:737`); the last two happen in the models, and the properties say
nothing of what follows, as the code does nothing about it. In ffplay the read
thread and the main thread may both invert `paused` (`ffplay.c:1455`): that is
modelled, but nothing says what the player should be then. A packet, or the flush
packet of a seek, is lost when there is no memory for its list element
(`ffplay.c:405`): that is not modelled. Further hazards of parts that are not
modelled, for the plan: the reset of an avcode message queue outside its mutex
(`msg_queue.c:152`), the reference count of an avcode socket that destroys its own
mutex (`sock_pool.c:444`), `mux.c:900` (a packet given out before a stream has
delivered its first one), `gen_sync_src.c:137` (the caller's time rebuilt by adding
wraps of a 32-bit tick), `audio_frame_queue.c:105` (samples removed that were
never added), `udp.c:907` (a timeout is told by a positive return value).

## 2. Modules

| Module | Models | Proofs |
|---|---|---|
| `ParallelFor` | abstract: what `AVCodecContext.execute()` promises | |
| `SliceThreads` | the pool of `pthread_slice.c`; implements `ParallelFor` | `SliceThreadsProofs` |
| `WppRows` | row progress and the rows of an HEVC slice; extends `SliceThreads` | `SliceThreadsProofs` |
| `ThreadMessage` | `threadmessage.c`: the queue's operations, one step per pass through a loop under the mutex | |
| `MessageClients` | several senders and receivers on a `ThreadMessage` | `ThreadMessageProofs` |
| `InputThreads` | `ffmpeg.c` reader and main thread on a `ThreadMessage` | `ThreadMessageProofs` |
| `FrameThreads` | `pthread_frame.c` | `FrameThreadsProofs` |
| `FrameThreadEncoder` | `frame_thread_encoder.c` | `FrameThreadEncoderProofs` |
| `BufferPool` | `buffer.c` | `BufferPoolProofs` |
| `ByteFile` | abstract: what a caller of a protocol sees, a file of bytes | |
| `AsyncProtocol` | `async.c` on the ring of `fifo.c`; implements `ByteFile` | `AsyncProtocolProofs` |
| `Playback` | the video path of `ffplay.c` | `PlaybackProofs` |
| `RtpReorder` | `rtpdec.c` and the loop of `rtsp.c` for one stream | `RtpReorderProofs` |
| `MC*` | constants for TLC | |

Common conventions. A step is one critical section, or one access outside of any,
so that everything that can come between two statements of two threads does. A
thread in `pthread_cond_wait()` is asleep until it is signalled; waits may also
end by themselves (`Spurious*` actions). A thread's place in its function is a
`pc` variable. Names are those of the source. Definitions under the comment
"Variant:" are plausible mistakes, used by no specification; each shows that a
property depends on the definition it would replace.

**SliceThreads.** `main` is the caller, between creating and freed. `worker()` is
`WorkerEnter`, `WorkerRegister`, `LoopHead`/`Settle` (the inner `while` with its
wait), `RunJob` and `CountJob`; the caller is `Execute`, `Park`, `MainWoken` (the
broadcast, and the wait in `thread_park_workers()`), `Free` and `Joined`. The
job's function is abstracted to storing the number of the call into `rets`, which
tells the call that wrote a result from earlier ones. `tcount` is the thread's own
copy of `thread_count`, which a failed creation may shorten. The refinement reads
the abstract set of jobs still to start from the workers that have not noticed the
call (their own job is reserved for them) and from the counter.

**WppRows** puts the rows on that pool: job r of a call is row r. Between taking a
job and returning from it (`RunJob`) a worker goes through awaiting, testing
`wpp_err`, decoding a CTB, reporting it, and the end, as `row[w]` says. `pic[r]` is
what row r has really decoded, `entries[r]` what it has reported; the two differ
once a row fails, and that difference is what the properties are about. A CTB is
decoded with or without more data behind it, or fails. The buffer of CABAC
contexts is the number of the row that wrote it last. Awaiting and reporting are
single steps, being critical sections of one mutex; the loop that awaits reads the
waiting row's own counter too, which only that row changes. The counters are those
of the code: `hls_slice_data_wpp()` allocates them once, for the rows of the first
slice that has several (`hevc.c:2456`; a slice of one row takes another path, 2748),
does not look at the result, and each slice resets `entries_count` of them. Without
memory the first report is a null pointer (`Crash`, the end of the program). A later
slice with more rows uses what lies past the array: its counters start from anything
(`Leftover`), and what else its writes hit is not followed. From then on the
history variable `overrun` is true, and no property of the rows claims anything.

**ThreadMessage, MessageClients, InputThreads.** `Send` and `Recv` are one pass of
the loops with the result `ret`; `Signal` wakes any one sleeper, of either kind.
`MessageClients` prefixes its `Init`, `Next` and invariants
with `Clients`, as one module holds the proofs of both systems. `InputThreads` follows one packet at a time: read, send without blocking, send
again blocking after `EAGAIN`; the main thread reads, notes the end, seeks when
the input is looped, and shuts down in the four steps of `free_input_threads()`.
Decoding and everything after it are outside; that the main loop may stop after
any read (`StopTranscoding`) stands for them.

**FrameThreads.** A worker goes through waiting for input, the setup (early for
codecs without a context to pass on), requests to the client, waiting for rows of
the reference, reporting, the end and telling the client. The client's call is
locking the thread, waiting for the previous setup, copying the context, serving
requests, waiting for the output and looking further when draining. `codec` is a
kind of codec and client: has it `update_thread_context()`, can that fail, is it
called with empty packets, are callbacks served by the client's thread, is it
FFV1. Progress is one step per frame, not per row: whether frame threading hangs
or mixes up frames depends on whether a reference's rows come, not on how many
there are. Contexts are the number of the last packet parsed and the last frame.

**FrameThreadEncoder.** FIFO, ring, indices and conditions as in the source. A
frame becomes a packet, nothing, or an error. That a step counts in flight with
`(task_index - finished_task_index) % BUFFER_SIZE` is kept, wrap included.

**BufferPool.** The variant that is compiled with threads (`thread.h` sets
`USE_ATOMICS` to 0 for the pool): a list under a mutex and atomic counters.
A block is the memory with its `AVBuffer` and, from a pool, its entry. The list is
a set, as no property depends on its order. Each access to a counter is a step,
so is each step of a get under the mutex. Blocks, references and pools are reused
once freed, as by `malloc()`. `HandOver` stands for the many places where a frame
with its references moves to another thread. One thread at a time calls the
pool's client side (get, init, uninit), as the decoder's context does in
`update_frame_pool()`; releases come from any thread at any time. `realloc` of a
buffer shares the actions of `make_writable`.

**AsyncProtocol, ByteFile.** `bg` is the place of the background thread, `rd` that
of the caller. The ring is the FIFO's memory and its two indices; a byte is its
offset in the file, so that a read which returns the wrong bytes returns the wrong
numbers. The fill happens without the mutex: `BgStartFill` measures the space,
`BgFill` writes one piece, as `av_fifo_generic_write()` calls the inner protocol
once up to the end of the memory and once from its start, `BgPublish` moves the
write index. `async_seek()` decides and moves back without the mutex as well
(`SeekHere`, `SeekBack`). `ByteFile` says: a read returns the bytes at the
position, at least one unless the file ends there or something broke; a seek goes
where it says, or fails and leaves the position. The refinement maps the position
to `logical_pos`, except during a forward seek, which reads bytes it throws away
and has not moved until it returns. Stores are taken to be seen in program order,
which the code does not enforce between the bytes and the index.

**Playback.** Three threads: `rd` reads and queues packets, `dec` decodes them and
writes pictures into the ring `slots`, `main` shows them and handles events. A
picture is the number of seeks made before it was read, and its position. Serials
are those of the code: raised by a flush packet, copied to the decoder, to each
picture and to the clock. Times are left out: a picture may be due, not due or
late whenever the main thread looks (`NotDue`, `SkipLate`, `Show`). The codec
holds back at most one frame and gives it out when it is drained. Decoding may fail
at any packet, the null packet that drains included, and may lose that frame; the
packet is then done with, and no end is marked. The read thread's
`step_to_next_frame()` is its four accesses to `paused` and `step`; the main thread's
own test and change of `paused` is one step. Waits of the
read thread have a timeout in the code and are polls here. That `packet_queue_put()`
finds no memory for an element is left out.

**RtpReorder.** Packets are numbered as they were sent; sequence numbers are that
number modulo `M`, and "ahead" is the sign of a difference of that width. The
network loses, duplicates and reorders within `Window`. What a payload handler
returns is any of: no frame yet, an error, the last frame, a frame with more to
come, also when it is asked with NULL, as long as frames are left (`rest`). A packet
may have another payload type and is then an error that changes nothing. `ff_rtsp_fetch_packet()` is the loop that asks for what is left first and
then fetches; a time-out passes a NULL buffer.

## 3. Runs

| Run | Instance | Distinct states | Shows |
|---|---|---|---|
| `wpp_rows` | 3 threads; slices of 2 and 4 rows of 3 CTBs; 2 slices; row 3 has no valid entry point; the allocation may fail | 400 742 | `Wavefront`, `RowInheritsContexts`, `SliceReturns`; of the pool under it: barrier, free ends, refinement of `ParallelFor` |
| `message_clients` | 2 senders, 2 receivers, 2 places, 3 messages each | 9 398 | wakeups are not lost, nothing is lost before EOF, abort releases all senders, all finish |
| `input_threads` | 4 packets, 2 places, one loop, failing allocations | 1 898 | order, no leak, EOF after all packets, reads return, shutdown ends |
| `frame_threads` | 2 threads, 4 kinds, 3 packets or drains, 1 flush, spurious wakeups of the waits for progress | 510 355 | order, draining leaves nothing, context passed on, setups apart, calls return, flush and free end |
| `frame_thread_encoder` | 2 threads, ring of 4, 5 frames | 41 837 | order, nothing overwritten, bounded pipeline, calls return, closing ends |
| `buffer_pool` | 3 threads, 3 references, 3 blocks, 2 pools (symmetric) | 183 936 | no use after release, exclusive writes, pool lifetime, no leak |
| `async` | file of 6 bytes, ring of 2 + 2, chunks of 2, reads of 1 and 2, any seeks, errors, an interrupt | 257 955 | `ByteFile` is implemented, nothing readable is overwritten, calls return |
| `playback` | 2 packets, 2 slots, 2 rounds, one user event: a pause or a step, or a seek in the second round | 238 221 | serials tell the truth, slots and order, the end, the seek's picture, closing ends |
| `rtp_reorder` | 7 packets, 4-bit numbers that wrap, queue of 3, window of 4, one duplicate | 191 942 | queue in order, new packets in order, the queue is drained |
| `error_lost`, `wpp_hang`, `rtp_skipped` | | | disagreements, see section 5 |

Why these bounds are enough for the cases that matter:

- *Slice pool and rows*: with 2 rows one of three workers has none; with 4 the
  counter hands one out after the three reserved ones, and that row waits for a
  row of a worker that may be the same. Two slices let a worker sleep through the
  first, leave counters to be reset, and come as 2 and 4 rows too: then rows 2 and 3
  have no counters. What they may find there is 5, so that a row starts too early;
  a value that lets them wait as well would only add waits. Three CTBs are a first, a second (which saves the contexts) and one that
  has no right neighbour. Only the last row is corrupt, as any other leads to
  the hang of section 5. The theorems cover all other values.
- *Message queue*: two threads on each side are the least with which a wakeup can
  go to the wrong kind. Two places are the smallest safe size for them: with one
  place TLC finds all four asleep. `RoomAssumption` asks for as many places as
  there are senders, and as there are receivers; the wakeups are proved from it.
  A bound on the threads in total is not enough: with three places, two senders
  and four receivers can all be asleep. `ffmpeg` uses one thread on each side.
- *Input*: four packets overrun a queue of two. Failure of `av_fifo_alloc()` is
  modelled but not enabled: `av_thread_message_queue_alloc()` then returns
  `AVERROR(0)`, and the reader is started with a NULL queue.
- *Frame threads*: two threads with three calls go once around the ring, with a
  flush at every point. A third thread adds one between first and last, which
  passing over failed threads needs: `error_lost` uses three. Requests and errors
  may occur in any packet.
- *Encoder*: the ring of four is the smallest allowed (`BUFFER_SIZE >= 2 *
  MAX_THREADS`), and five frames wrap both indices.
- *Pool*: two pools are what one replacing the other takes; three threads allow a
  get, a release and an uninit at once. The theorems cover all sizes.
- *async*: the file is longer than the ring, so the ring wraps and forgets; every
  position is sought from every other, so all three kinds of seek occur, before
  and after the end of the file was met.
- *Playback*: a queue that is full with two packets, two slots (one shown, one
  free) and two rounds of the file make every wait happen. The user pauses or steps
  once at any moment, also around the seek that starts the second round; or he seeks
  once, in the second round (`SeekRounds`), which may follow the round's own seek
  before anything of it was decoded. A seek in the first round would be the same
  with the round after it added; it is left to the theorems. Seeks go to the second
  packet, or to the first for the second round: there is always a picture to be
  shown.
- *RTP*: numbers start at 12 of 16 and wrap; the queue overflows; a packet can be
  overtaken by three others. `MAX_DROPOUT` and `MAX_MISORDER` are scaled with the
  numbers, so that packets on both sides of them occur.

Deadlock is checked in every run. The specifications that end have an explicit
stuttering step in their final state (`freed`, `closed`, or all threads done) and
in no other, so a state in which nobody can move anywhere else is an error.

### Fairness

Weak fairness for threads: they are scheduled and mutexes are handed on. The
code adds what finishes by itself: a job returns, a CTB is decoded or fails,
decoding or encoding one packet ends, `av_read_frame()` returns, the client's
callback returns, an inner protocol answers. No fairness is assumed for what the
client or the user decides (another packet, a flush, a seek, stopping), nor for
the network, nor for spurious wakeups. In `MessageClients` EOF is set when all
senders have finished, and abort when no receiver is left, as `input_thread()` and
`free_input_threads()` do. Each process is fair on its own, so that no thread is
left behind for others' progress. In `WppRows` a program that has crashed owes nothing.
In `RtpReorder` the caller goes on fetching, and `max_delay` passes also when nothing
arrives: `udp_read_packet()` polls and looks at `wait_end` between (`rtsp.c:1914`,
1944). RTP over TCP blocks without looking, but has no reordering queue by default.

`Playback` has three strong ones. `Show`: a picture that is found not due again
and again is due at last, since the clock moves. The allocation of a bitmap and
the quit event the read thread posts: the main thread meets events between refreshes,
again and again, and the event queue hands out each event at last.

## 4. Proofs

Checked by TLAPS from the definitions and the named assumptions of the modules.

**Slice pool** (`SliceThreadsProofs`), for every N, every finite or infinite set
of positive job counts and any number of calls within `MaxExec`:
`TypeCorrect`, `Barrier`, `WakeupsAreNotLost`, `FreeIsSafe` and `Refinement` (each
job exactly once, return after all). That main does not sleep with the work
done is not inductive: the step that could break it, a count by a worker,
needs to know how many jobs are left. `IInv` adds that. `Outstanding` is the set
of jobs not yet counted: those reserved for workers that have not noticed the
call, those the counter has still to hand out, and those being run. `InvCount`
says its size is `N + job_count - current_job`. Every increment of the counter
takes one job out (`CountJobEffect`), a worker that wakes up moves its own job
from reserved to running (`RecheckEffect`), and a new call starts with all
(`ExecuteEffect`). So the counter is final exactly when nothing is outstanding.
`InvIds` says that ids are distinct and below N, `InvLoop` that two workers never
run the same job, `InvThreads` ties the workers' places to the caller's.

**Wavefront** (also `SliceThreadsProofs`), for every N, all row counts, every width from two
CTBs on and any set of corrupt rows, as long as no slice has more rows than there are
counters. `PoolUnderneath`: the steps of the rows are
steps of the pool or leave it alone, so `WppSpec` implies the safety part of
`SliceThreads`, and everything above holds here too: `WppBarrier`,
`WppRefinement`, with no condition. `WavefrontHolds` and `ContextsHold` rest on `RowsInv`:
`WppInv` or `overrun` (`RowsInvariance`). `InvEntries` says that otherwise every row of
the slice has a counter, so that `DecodeSlice` resets them all. The core of `WppInv` is
`InvCounters`: a row counts at most what it has decoded, or it has ended, and then
it is whole, or `wpp_err` is set, or it is the last row, which nobody waits for.
A row that found the row above ahead and then no error therefore knows that the
picture is ahead, not only the counter (`CheckErrorKeeps`); the order of these two
tests is what makes the code right. `InvContexts` says that rows are begun in
order and that the contexts are those of the last row with two CTBs, which
follows at each second CTB from the wavefront itself (`DecodeContexts`). That two
workers never have the same row, and that a row just taken is untouched, comes from
the pool's invariant (`RunningJobs`, `PoolBeginsRows`).

**Buffers** (`BufferPoolProofs`), for any finite sets of threads, references,
blocks and pools: `BuffersAreSafe`, `WritesAreExclusive`, `PoolsAreSafe`,
`PoolsAreFreed`, `NothingLeaks`, and `TypeCorrect`. The invariant relates each
counter to what it counts: a block's `refcount` is the number of references that
name it (`InvRefs`), and the count of a pool is its client, plus its blocks that
are out of the list, plus the releases that have put the block back and not yet
given up their count (`InvPoolCount`). The second one is why the order in
`av_buffer_pool_get()` (take the entry, unlock, then count) is right: the client
holds its own count meanwhile, and a block just taken is not counted as out until
the increment. When a count falls to zero the sum has only zero terms
(`FreedPoolIsUnused`), so nobody uses the pool. The rest says where a block can be
(`InvPlaces`), what a thread's locals mean (`InvLocals`), what the mutex protects
(`InvMutex`) and which pools exist (`InvPools`, `InvFreePool`). Frame lemmas
(`PlacesFrame`, `MutexFrame`, ...) state what a step that leaves some variables
alone preserves; then there is one lemma per action.

**Encoder** (`FrameThreadEncoderProofs`), for any number of threads and frames and
any ring of at least twice the threads: `EncoderInvariance`, `ResultsAreInOrder`
(also: no result is overwritten before it is taken), `NoFrameIsLost`. `EncoderInv`
is inductive. The two indices count the frames given and the results returned (`InvIndices`). The
frames between them are in the FIFO (the last ones, in order: `InvFifo`), with a
worker, or in the slot that their number names (`InvWorkers`, `InvSlots`, `InvPlaces`).
There are at most `ThreadCount + 1` of them (`InvClient`), no more than slots, so
no two have the same slot, and a result is never put where another still is.

**Message queue** (`ThreadMessageProofs`), for any finite sets of threads and any
number of messages: `WakeupsSuffice` (`QueueInv`: while messages are to come or to be sent, somebody who
has not finished is awake) and `NothingIsLost` (once a receiver has seen EOF, all
that was sent has been received, once and in order). A signal wakes one sleeper of unknown kind,
so the invariant counts (`InvSleepers`): senders and receivers never sleep at the
same time, and there are no more sleeping senders than messages in the queue, whose
removal will wake them, or sleeping receivers than empty places. `RoomAssumption`
makes the count hold at the start: a sender falls asleep on a full queue, a
receiver on an empty one.

**Input threads** (also `ThreadMessageProofs`), for any number of packets and passes, any
queue and any failing allocations: `InputInvariance` (order; the end comes last) and
`NoPacketIsLeaked`. `InvCount` is the balance: every packet read is used,
unreferenced, queued or in the reader's hand. `InvQueue` says which packets are
queued, until the queue is drained. `InvEnd` is what the two threads know of each
other by the error codes: the receiving side has an error exactly when the reader
has returned, so the drain in `free_input_threads()`, which ends with that error,
ends after the reader's last packet.

**async:** (`AsyncProtocolProofs`), for files, rings, chunks and reads of any size:
`Invariance` of `IInv`, `NothingIsOverwritten`, and `AsyncImplementsByteFile`, the
refinement. `InvBytes` says that each byte of the ring, from the oldest one kept to the newest,
also one not yet published, is the byte of the file that its distance from the
reader's position names, and that the inner protocol stands after the newest.
`InvSpace` is why the fill may run outside the mutex: what it writes and what the
caller may still read or go back to fit in the ring together. The caller only makes
more space meanwhile: going back moves within the bytes the measure left out.
`InvSeek` says that an answered seek is about its own target, `InvEof` that the end
is noticed only there, `InvBroken` that nothing fails without an error or an
interrupt. TLC confirms `IInv` on the run's instance.

**Frame threads** (`FrameThreadsProofs`), for two or more threads, any kinds of codec
and client, any number of calls and flushes and with spurious wakeups:
`Invariance` of `ThreadsInv`, `FramesComeInOrder`, `NothingHeldBack` (a draining
call without a frame leaves none behind, and frames are delayed by `N - 1` packets
at most), `ContextPassed`. The order of frames is a
statement about the ring: `Age` counts the packets
submitted since a thread's own, which is therefore packet `Count - Age`
(`InvRing`), and `Held` the packets whose frames are still to be taken: they are
with the threads of age below `Held` (`InvFrames`), and all frames of earlier packets have
been taken, in order (`InvOut`). Between calls `Held` is at most `N - 1`, so that the
next thread, of age `N - 1`, is ready and empty when it is given a packet
(`NextIsFree`). What a call does that takes a frame, or passes over threads
without one, is arithmetic on the ring (`Steps`, `RingTurns`). That a context is
passed on rests on `InvSetup`: only the newest thread can be in its setup, and when
the next packet is handed over nobody is (`NobodyInSetup`), so the context copied
is complete; a flush hands on the newest thread's too (`LastContext`).

**ffplay** (`PlaybackProofs`), for a file of any length, any queue sizes (two or more
pictures), and any seeks, pauses and redraws: `NoPictureFromBeforeASeek`
(`SerialsTellTheTruth`), `PlayedToTheEnd` (`EndedMeansAllShown`) and `Invariance` of `PicturesInv` (the pictures are in order,
none twice, and the slot on show is not written). `InvSerials` says what a serial in
the packet queue means: all that is queued has the current one, and starts with a
flush packet exactly when the decoder is still at an older one. So the decoder
changes its serial only by a flush (`InvDecoder`), and neither packet, codec nor frame
is of another serial than `pkt_serial` says, although that is read without a lock.
Order is a statement about everything on its way at once: a packet is read after
all that was taken before it (`InvRead`), and the pictures, the frame, the codec and
the packet are in the order of the file (`InvOrder`). `InvSlots` ties the three indices
of the ring of pictures; the main thread only takes pictures out (`VideoRefreshMoves`)
and the video thread only adds one (`VideoThreadMoves`). That the end is not noticed too
early needs `InvEnd`: after a null packet come only null packets, until the next seek,
also when the decoder has taken the null packet (so the queue the main thread finds
empty does not fill again), and when `finished` is the current serial, packet, codec
and frame of the video thread are empty.

**RTP** (`RtpReorderProofs`), for any number of packets, any first sequence number, any
number space and queue, any losses and duplicates: `QueueStaysInOrder` (`QueueInOrder`: the
queue is sorted, a duplicate may stand twice, and it is not overfull) and `ParsedInOrder`
(`NewPacketsInOrder`). Sequence numbers order packets only if fewer than half of them
lie between. `DiffIsDistance` says that then the signed difference of two numbers is the
distance of the packets, across the wrap too. Hence the condition `HalfSpace`: what is
queued, or was parsed last, is less than `M \div 2` packets behind the sender. In the
code that is 32768 packets sent while one waits for `max_delay` (0.1 s by default), or
while all are lost. It cannot be dropped: with 6 numbers and a queue of 4, TLC
finds packet 7 queued before packet 4. A stream of fewer than `M \div 2` packets needs no
condition (`ShortStreamInOrder`); the run's instance is one. The invariant says that a
packet in flight is overtaken by less than `Window` others (`InvFlight`), that `seq` is
the number of the packet parsed last (`InvLast`), and that what was skipped lies behind
all that is queued and behind that packet (`InvGaps`). "Everything parsed is behind `seq`"
is the invariant one expects and is false: a queued duplicate, parsed late, takes
`seq` back, and what keeps the order then is that nothing between was skipped.

Assumptions: in `BufferPool` the sets are finite and do not contain `None`
(`PoolAssumption`); in `SliceThreads` there are at least two threads (the code makes
no pool for fewer) and job counts are positive (`execute()` returns at once for
zero), in `FrameThreads` likewise two; in `WppRows` a row has at least two CTBs (with
one column the code has no second CTB to save contexts after); in
`MessageClients` the queue has the room of `RoomAssumption`; in
`FrameThreadEncoder` the ring has two slots per thread, as `BUFFER_SIZE` is defined; in
`Playback` there are two pictures at least (`VIDEO_PICTURE_QUEUE_SIZE` is 3); in
`RtpReorder` the network reorders by less than half the number space, and its theorems
have the condition `HalfSpace`, except for short streams.
The steps' atomicity and the contract of the pool's client are part of the
specifications.

**Only model-checked**: liveness, which needs fairness and `ENABLED` and is out of the
prover's reach: that calls return (`SliceReturns`, `CallsReturn`, `EveryCallReturns`,
`ReadReturns`), that things end (`FreeTerminates`, `FlushAndFreeEnd`, `CloseEnds`,
`ShutdownTerminates`, `EveryoneFinishes`), that a seek's picture comes (`SeekIsShown`)
and that the RTP queue is emptied (`QueueIsDrained`). What can be said of them without
fairness is proved where it is the point of the code: `NoLostWakeup` and `QueueInv`.
Absence of deadlock is also checked by TLC alone, in each run.

## 5. Where the code and its documentation disagree

- `error_lost` (`ErrorsAreNotLost`): a draining call that passes over a failed
  thread and then finds a frame returns 0; with AV_CODEC_CAP_DELAY the next one
  gives the failed thread an empty packet, which overwrites its error. The
  comment at `pthread_frame.c:468` wants the error to be returned instead.
  Three threads: the first packet fails, the second gives a frame.
- `wpp_hang` (`ExecuteReturns`): a row whose entry point does not lie in the NAL
  unit returns at `hevc.c:2381` without reporting progress. The row below waits
  for that report without a timeout, so `execute2()` never returns, while
  `avcodec.h:2953` says it returns after finishing all tasks.
- `rtp_skipped` (`NoFrameIsSkipped`): when a packet parsed from the queue after
  another one gave nothing has more than one frame, the caller is told that more
  can follow, but `prev_ret`, set before the loop (`rtpdec.c:848`), says
  otherwise: the next call parses the next packet and the rest is lost.

Reproducible by naming the property in the run's cfg, all false of the code:
`StreamIsLooped` in `input_threads` (`-stream_loop` with several inputs: the reader
thread has returned and its EOF stays in the queue, `ffmpeg.c:3744`; the file is
read once, `doc/ffmpeg.texi:257` promises more), `FlushForgetsErrors` in
`frame_threads` (`ff_thread_flush()` does not clear `result`, so an error from before
a seek is reported after it, `pthread_frame.c:743` and `avcodec.h:5002`),
`CloseFreesEverything` in `frame_thread_encoder` (frames in the FIFO and packets in
the ring are not freed, `frame_thread_encoder.c:245` and `avcodec.h:3838`),
`DrainAssertion` in `async` (the assertion at `async.c:145`, compiled in at assert
level 2, fails on a seek back by less than what is buffered ahead).

Met on the way:

- `threadmessage.h:69-89` describes the two error setters with their sides
  exchanged with respect to the code; `threadmessage.c:73` returns the previous,
  successful, result when the FIFO cannot be allocated.
- `ff_thread_flush()` ignores the result of `update_thread_context()`
  (`pthread_frame.c:737`). Then the next packet is decoded in an old context;
  `ContextIsPassedOn` excludes that case by the history variable `torn`.
- RTP: both copies of a duplicated packet can be queued; the second stays at the
  head of the queue and is parsed after `max_delay`, which moves `seq` back
  (`NewPacketsInOrder` is about packets not seen before). Sequence number 0 with an
  empty queue is taken for the first packet again (`rtpdec.c:799`). A restarted
  sender whose numbers are behind is dropped before the statistics can notice it.
- ffplay: a packet of an old serial is dropped without being unreferenced
  (`ffplay.c:579`); a step while paused may let the main thread draw the old picture
  once more before the new one is there. A null packet whose decoding fails marks no
  end, so that `-loop` and `-autoexit` do not happen (`ffplay.c:619`); the model has
  this case, and `SeekIsShown` excuses what was not decoded. After a seek while paused
  the read thread and the main thread may both invert `paused` (1433).
  `packet_queue_put()` of a flush packet may fail for want of memory (407, ignored at
  3038), and packets of the new position then pass for the old one; not modelled.
- WPP: the counters are allocated for the first slice with several rows only
  (`hevc.c:2456`). A later slice with more rows (another slice of the picture, or of a
  later one) reads and writes past the array: rows may start too early, or
  wait for ever, besides what the writes hit. `ENOMEM` is ignored there as well.

## 6. Plan

Done: the modules and proofs of section 2. Next, in this order:

1. `UdpRing`: datagrams whole and in order, bounded loss, close that ends.
2. avcode `MsgQueue` and `SockPool`: an operation outside the mutex; a reference
   count that destroys its own mutex. `gen_sync_src`: unwrapping the tick, with
   small widths.
3. `Interleave` (`mux.c`), with its promise about dts order, and the audio frame
   queue with its assertions.
4. `FrameThreads` and `BufferPool` composed: frames handed between workers and
   client while the pool is replaced.
