-------------------------- MODULE FrameThreadEncoder --------------------------
(***************************************************************************)
(* Frame-threaded encoding with intra-only encoders                        *)
(* (libavcodec/frame_thread_encoder.c).  The client's frames go through a  *)
(* FIFO to whichever worker is free; what the worker made of a frame is    *)
(* put into the slot of that frame in a ring of BUFFER_SIZE slots, and the *)
(* client is given the slots in turn.                                      *)
(*                                                                         *)
(* A step is one critical section of task_fifo_mutex or of                 *)
(* finished_task_mutex, or one of the unlocked tests.  Frames are numbered *)
(* in the order the client gives them.                                     *)
(***************************************************************************)
EXTENDS Integers, Sequences, FiniteSets

CONSTANTS
  ThreadCount,  \* avctx->thread_count
  BUFFER_SIZE,
  MaxFrames     \* bound on the frames the client gives

\* MAX_THREADS is half of BUFFER_SIZE and bounds the thread count.
ASSUME ThreadsAssumption == ThreadCount \in Nat /\ ThreadCount >= 2
ASSUME SizeAssumption == BUFFER_SIZE \in Nat /\ BUFFER_SIZE >= 2 * ThreadCount
ASSUME FramesAssumption == MaxFrames \in Nat

Workers == 1 .. ThreadCount
Main == 0
Slots == 0 .. (BUFFER_SIZE - 1)

VARIABLES
  main, created,
  exit, task_fifo, finished_tasks, task_index, finished_task_index,  \* ThreadContext
  wpc, task,        \* each worker's place and task
  asleep,           \* the threads in pthread_cond_wait()
  given,            \* frames referenced by ff_thread_video_encode_frame()
  unreferenced,     \* those a worker has released
  encoded,          \* what each frame became: "pending", "packet", "none", "error"
  returned          \* the tasks the client was given the result of

client == <<main, created>>
context == <<exit, task_fifo, finished_tasks, task_index, finished_task_index>>
history == <<given, unreferenced, encoded, returned>>
vars == <<client, context, wpc, task, asleep, history>>

NoTask == [index |-> 0, frame |-> 0]
Empty == 0              \* outdata is NULL

Init ==
  /\ main = "creating" /\ created = 0
  /\ exit = FALSE
  /\ task_fifo = <<>>
  /\ finished_tasks = [s \in Slots |-> Empty]
  /\ task_index = 0
  /\ finished_task_index = 0
  /\ wpc = [w \in Workers |-> "none"]
  /\ task = [w \in Workers |-> NoTask]
  /\ asleep = {}
  /\ given = 0 /\ unreferenced = {} /\ encoded = <<>> /\ returned = <<>>

-------------------------------------------------------------------------------
(***************************************************************************)
(* ff_frame_thread_encoder_init() and the workers                          *)
(***************************************************************************)
CreateWorker ==
  /\ main = "creating"
  /\ created' = created + 1
  /\ wpc' = [wpc EXCEPT ![created + 1] = "wait"]
  /\ main' = IF created' = ThreadCount THEN "idle" ELSE "creating"
  /\ UNCHANGED <<context, task, asleep, history>>

\* An allocation, avcodec_open2() or pthread_create() fails.
CreateFails ==
  /\ main = "creating"
  /\ main' = "free"
  /\ UNCHANGED <<created, context, wpc, task, asleep, history>>

\* There is a task and the pool is not being closed.
MayGetTask == task_fifo # <<>> /\ ~exit

\* Take a task out of the FIFO, leave, or sleep on task_fifo_cond.
GetTask(w) ==
  /\ wpc[w] = "wait"
  /\ w \notin asleep
  /\ \/ /\ MayGetTask
        /\ task' = [task EXCEPT ![w] = Head(task_fifo)]
        /\ task_fifo' = Tail(task_fifo)
        /\ wpc' = [wpc EXCEPT ![w] = "encode"]
        /\ UNCHANGED asleep
     \/ /\ exit
        /\ wpc' = [wpc EXCEPT ![w] = "exit"]
        /\ UNCHANGED <<task, task_fifo, asleep>>
     \/ /\ ~exit /\ task_fifo = <<>>
        /\ asleep' = asleep \cup {w}
        /\ UNCHANGED <<task, task_fifo, wpc>>
  /\ UNCHANGED <<client, exit, finished_tasks, task_index, finished_task_index, history>>

\* Variant: the result goes to the slot that is returned next.
ResultSlotNext(w) == finished_task_index

ResultSlot(w) == task[w].index

\* Variant: nobody is told.
TellClientNot == UNCHANGED asleep

\* pthread_cond_signal(&c->finished_task_cond): the client is alone in waiting on it.
TellClient == asleep' = asleep \ {Main}

\* The frame is encoded and released, and the result put into its slot.
Finish(w) ==
  /\ wpc[w] = "encode"
  /\ LET f == task[w].frame
     IN  /\ \E o \in {"packet", "none", "error"} : encoded' = [encoded EXCEPT ![f] = o]
         /\ finished_tasks' = [finished_tasks EXCEPT ![ResultSlot(w)] = f]
         /\ unreferenced' = unreferenced \cup {f}
  /\ TellClient
  /\ task' = [task EXCEPT ![w] = NoTask]
  /\ wpc' = [wpc EXCEPT ![w] = "wait"]
  /\ UNCHANGED <<client, exit, task_fifo, task_index, finished_task_index, given,
                 returned>>

-------------------------------------------------------------------------------
(***************************************************************************)
(* ff_thread_video_encode_frame()                                          *)
(***************************************************************************)

\* A wakeup of one worker that waits for a task.
WakeWorker ==
  IF asleep \cap Workers = {} THEN UNCHANGED asleep
  ELSE \E w \in asleep \cap Workers : asleep' = asleep \ {w}

Following(s) == (s + 1) % BUFFER_SIZE

\* With a frame: a new task.  (Without the memory for it nothing happens.)
AddTask ==
  /\ main = "idle"
  /\ given < MaxFrames
  /\ given' = given + 1
  /\ encoded' = Append(encoded, "pending")
  /\ task_fifo' = Append(task_fifo, [index |-> task_index, frame |-> given'])
  /\ task_index' = Following(task_index)
  /\ WakeWorker
  /\ main' = "added"
  /\ UNCHANGED <<created, exit, finished_tasks, finished_task_index, wpc, task,
                 unreferenced, returned>>

\* Variant: the number of tasks in flight is not looked at.
PipelineHasRoomAlways == finished_tasks[finished_task_index] = Empty

\* The unsigned difference, BUFFER_SIZE being a power of two.
InFlight == (task_index - finished_task_index) % BUFFER_SIZE

\* The oldest result is not there yet and the workers are not all busy.
PipelineHasRoom ==
  finished_tasks[finished_task_index] = Empty /\ InFlight <= ThreadCount

\* The test is made without the lock.
ReturnEarly ==
  /\ main = "added"
  /\ PipelineHasRoom
  /\ main' = "idle"
  /\ UNCHANGED <<created, context, wpc, task, asleep, history>>

WaitForOldest ==
  /\ main = "added"
  /\ ~PipelineHasRoom
  /\ main' = "take"
  /\ UNCHANGED <<created, context, wpc, task, asleep, history>>

\* Without a frame: get what is left, if anything.
Drain ==
  /\ main = "idle"
  /\ task_index # finished_task_index
  /\ main' = "take"
  /\ UNCHANGED <<created, context, wpc, task, asleep, given, unreferenced, encoded, returned>>

SleepForResult ==
  /\ main = "take"
  /\ Main \notin asleep
  /\ finished_tasks[finished_task_index] = Empty
  /\ asleep' = asleep \cup {Main}
  /\ UNCHANGED <<client, context, wpc, task, history>>

ClearSlot == finished_tasks' = [finished_tasks EXCEPT ![finished_task_index] = Empty]

TakeResult ==
  /\ main = "take"
  /\ Main \notin asleep
  /\ finished_tasks[finished_task_index] # Empty
  /\ LET f == finished_tasks[finished_task_index]
     IN  /\ returned' = Append(returned, f)
  /\ ClearSlot
  /\ finished_task_index' = Following(finished_task_index)
  /\ main' = "idle"
  /\ UNCHANGED <<created, exit, task_fifo, task_index, wpc, task, asleep,
                 given, unreferenced, encoded>>

-------------------------------------------------------------------------------
(***************************************************************************)
(* ff_frame_thread_encoder_free()                                          *)
(***************************************************************************)
Close ==
  /\ main = "idle"
  /\ main' = "free"
  /\ UNCHANGED <<created, context, wpc, task, asleep, history>>

\* Variant: one worker is woken.
WakeForExitOne == WakeWorker

\* pthread_cond_broadcast(&c->task_fifo_cond)
WakeForExit == asleep' = asleep \ Workers

Free ==
  /\ main = "free"
  /\ exit' = TRUE
  /\ WakeForExit
  /\ main' = "join"
  /\ UNCHANGED <<created, task_fifo, finished_tasks, task_index,
                 finished_task_index, wpc, task, history>>

\* Variant: the last thread that was created is not counted.
ToJoinOneShort == 1 .. (created - 1)

ToJoin == 1 .. created

\* The workers have ended; the FIFO and the context are freed.
Join ==
  /\ main = "join"
  /\ \A w \in ToJoin : wpc[w] = "exit"
  /\ main' = "freed"
  /\ UNCHANGED <<created, context, wpc, task, asleep, history>>

Spurious(t) ==
  /\ t \in asleep
  /\ asleep' = asleep \ {t}
  /\ UNCHANGED <<client, context, wpc, task, history>>

-------------------------------------------------------------------------------
EncodeStep == ReturnEarly \/ WaitForOldest \/ SleepForResult \/ TakeResult
FreeStep == Free \/ Join
WorkerStep(w) == GetTask(w) \/ Finish(w)

Next ==
  \/ CreateWorker \/ CreateFails
  \/ \E w \in Workers : WorkerStep(w)
  \/ AddTask \/ Drain \/ EncodeStep
  \/ Close \/ FreeStep
  \/ \E t \in Workers \cup {Main} : Spurious(t)
  \/ main = "freed" /\ UNCHANGED vars

Spec == Init /\ [][Next]_vars

\* The threads are scheduled and encoding a frame ends; the client calls as it likes.
FairSpec ==
  /\ Spec
  /\ \A w \in Workers : WF_vars(WorkerStep(w))
  /\ WF_vars(EncodeStep)
  /\ WF_vars(FreeStep)

-------------------------------------------------------------------------------
(***************************************************************************)
(* Properties                                                              *)
(***************************************************************************)
TypeOK ==
  /\ main \in {"creating", "idle", "added", "take", "free", "join", "freed"}
  /\ created \in 0 .. ThreadCount /\ exit \in BOOLEAN
  /\ task_fifo \in Seq([index : Slots, frame : 1 .. given])
  /\ finished_tasks \in [Slots -> 0 .. given]
  /\ task_index \in Slots /\ finished_task_index \in Slots
  /\ wpc \in [Workers -> {"none", "wait", "encode", "exit"}]
  /\ task \in [Workers -> [index : Slots, frame : 0 .. given]]
  /\ asleep \subseteq Workers \cup {Main}
  /\ given \in 0 .. MaxFrames /\ unreferenced \subseteq 1 .. given
  /\ encoded \in Seq({"pending", "packet", "none", "error"}) /\ Len(encoded) = given
  /\ returned \in Seq(1 .. given)

\* The client gets the results in the order of its frames, each once, whichever
\* worker is first and however often the ring goes round.
ResultsInOrder == returned = [k \in 1 .. Len(returned) |-> k]

\* Where a frame can be that the client has not been given the result of.
InFifo(f) == \E k \in DOMAIN task_fifo : task_fifo[k].frame = f
InWorker(f) == \E w \in Workers : task[w].frame = f
InSlot(f) == \E s \in Slots : finished_tasks[s] = f

\* No result is overwritten by that of a frame a whole ring later: as long as the
\* pool lives, every frame not returned is in exactly one place.
EveryFrameIsSomewhere ==
  \A f \in (Len(returned) + 1) .. given :
    /\ InFifo(f) \/ InWorker(f) \/ InSlot(f)
    /\ ~(InFifo(f) /\ InWorker(f)) /\ ~(InWorker(f) /\ InSlot(f)) /\ ~(InFifo(f) /\ InSlot(f))

\* When a call returns, no more than ThreadCount frames are in flight, so that the
\* indices never meet with the ring full.
BoundedPipeline == main = "idle" => given - Len(returned) <= ThreadCount

\* When the context is freed all the threads that were created have ended.
NoWorkerAfterFree == main = "freed" => \A w \in Workers : wpc[w] \in {"none", "exit"}

-------------------------------------------------------------------------------
(***************************************************************************)
(* The invariant of the pool, as an inductive one                          *)
(***************************************************************************)
SlotOf(f) == (f - 1) % BUFFER_SIZE

\* Frames up to this one have left the FIFO.
Taken == given - Len(task_fifo)

\* Main has not given a frame before the threads exist, and never has more than one
\* in flight beyond the number of threads.
InvClient ==
  /\ main = "creating" => created < ThreadCount /\ given = 0
  /\ Len(returned) <= Taken
  /\ given - Len(returned) <= ThreadCount + 1
  /\ BoundedPipeline

\* The indices count the tasks given and returned.
InvIndices ==
  /\ task_index = given % BUFFER_SIZE
  /\ finished_task_index = Len(returned) % BUFFER_SIZE
  /\ ResultsInOrder

\* The FIFO holds the last frames, in order, each with its slot.
InvFifo ==
  \A k \in 1 .. Len(task_fifo) :
    task_fifo[k] = [index |-> SlotOf(Taken + k), frame |-> Taken + k]

\* A worker has a task only while it encodes: one of those in flight, its own.
InvWorkers ==
  /\ \A w \in Workers :
       /\ wpc[w] = "encode" => /\ task[w].frame \in (Len(returned) + 1) .. Taken
                               /\ task[w].index = SlotOf(task[w].frame)
       /\ wpc[w] # "encode" => task[w] = NoTask
  /\ \A v, w \in Workers : wpc[v] = "encode" /\ task[v].frame = task[w].frame => v = w

\* A result is in its own slot, and its frame is with no worker.
InvSlots ==
  \A s \in Slots : finished_tasks[s] # Empty =>
    /\ finished_tasks[s] \in (Len(returned) + 1) .. Taken
    /\ s = SlotOf(finished_tasks[s])
    /\ ~InWorker(finished_tasks[s])

\* No frame in flight is lost between the FIFO and the ring.
InvPlaces ==
  \A f \in (Len(returned) + 1) .. Taken : InWorker(f) \/ InSlot(f)

\* The workers that exist are those created; the last call waits for all of them.
InvThreads ==
  /\ \A w \in Workers : wpc[w] = "none" <=> w > created
  /\ NoWorkerAfterFree

\* The pool of encoders as a whole: no more in flight than the threads and one, the
\* indices and the FIFO in step with the frames, each of them in one place, and no
\* thread left when the context is freed.
EncoderInv ==
  /\ TypeOK /\ InvClient /\ InvIndices /\ InvFifo
  /\ InvWorkers /\ InvSlots /\ InvPlaces /\ InvThreads

-------------------------------------------------------------------------------
\* A call comes back: the result that the client waits for arrives, and it is told.
CallsReturn == main \in {"added", "take"} ~> main = "idle"

\* Closing ends, with workers asleep, busy, or only just created.
CloseEnds == main = "free" ~> main = "freed"

\* Not true of the code.  avcodec.h on avcodec_close(): it will "free all the data associated with it".
\* Every frame that was referenced is released and every packet freed or returned.
CloseFreesEverything ==
  main = "freed" => unreferenced = 1 .. given /\ \A s \in Slots : finished_tasks[s] = Empty
===============================================================================
