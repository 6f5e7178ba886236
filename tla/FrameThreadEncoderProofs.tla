------------------------ MODULE FrameThreadEncoderProofs ------------------------
(***************************************************************************)
(* Proofs about FrameThreadEncoder, for any number of threads and frames   *)
(* and any ring that is at least twice the number of threads: EncoderInv   *)
(* is inductive, and the order of the results and the absence of lost      *)
(* frames follow from it.                                                  *)
(***************************************************************************)
EXTENDS FrameThreadEncoder, SequenceTheorems, TLAPS

-------------------------------------------------------------------------------
(***************************************************************************)
(* Arithmetic modulo the size of the ring                                  *)
(***************************************************************************)
\* What the quotient and the remainder are.
LEMMA DivMod ==
  ASSUME NEW B \in Nat, B > 0, NEW a \in Int
  PROVE  a \div B \in Int /\ a % B \in 0 .. (B-1) /\ a = B * (a \div B) + (a % B)
OBVIOUS

\* No multiple of B but 0 is nearer to 0 than B.
LEMMA Multiple ==
  ASSUME NEW B \in Nat, B > 0, NEW k \in Int, B * k < B, -B < B * k
  PROVE k = 0
<1>1. CASE k >= 1
  <2>1. B * k >= B
    BY <1>1
  <2> QED
    BY <2>1
<1>2. CASE k <= -1
  <2>1. B * k <= -B
    BY <1>2
  <2> QED
    BY <2>1
<1> QED
  BY <1>1, <1>2

\* Quotient and remainder are unique.
LEMMA ModIs ==
  ASSUME NEW B \in Nat, B > 0, NEW a \in Int, NEW q \in Int, NEW r \in 0 .. (B-1), a = B * q + r
  PROVE a % B = r
<1> DEFINE p == a \div B
           s == a % B
<1>1. p \in Int /\ s \in 0 .. (B-1) /\ a = B * p + s
  BY DivMod
<1> HIDE DEF p, s
<1>2. B * (p - q) = r - s
  <2>1. B * p - B * q = r - s
    BY <1>1
  <2>2. B * (p - q) = B * p - B * q
    BY <1>1
  <2> QED
    BY <2>1, <2>2
<1>3. p - q = 0
  BY <1>1, <1>2, Multiple
<1> QED
  BY <1>1, <1>2, <1>3 DEF s

\* Numbers less than B apart are told apart by their remainders.
LEMMA ModUnique ==
  ASSUME NEW B \in Nat, B > 0, NEW a \in Int, NEW b \in Int, a % B = b % B, a - b < B, b - a < B
  PROVE a = b
<1> DEFINE p == a \div B
           q == b \div B
<1>1. p \in Int /\ a % B \in Int /\ a = B * p + (a % B)
  BY DivMod
<1>2. q \in Int /\ b = B * q + (b % B)
  BY DivMod
<1>5. a % B = b % B
  OBVIOUS
<1> HIDE DEF p, q
<1>3. B * (p - q) = a - b
  <2>1. B * p - B * q = a - b
    BY <1>1, <1>2, <1>5
  <2>2. B * (p - q) = B * p - B * q
    BY <1>1, <1>2
  <2> QED
    BY <2>1, <2>2
<1>4. p - q = 0
  BY <1>1, <1>2, <1>3, Multiple
<1> QED
  BY <1>1, <1>2, <1>3, <1>4

\* The remainder of the next number.
LEMMA ModNext ==
  ASSUME NEW B \in Nat, B > 1, NEW a \in Int
  PROVE ((a % B) + 1) % B = (a+1) % B
<1> DEFINE p == a \div B
           s == a % B
<1>1. p \in Int /\ s \in 0 .. (B-1) /\ a = B * p + s
  BY DivMod
<1> HIDE DEF p, s
<1>2. CASE s = B - 1
  <2>1. (s + 1) % B = 0
    <3>1. s + 1 = B * 1 + 0
      BY <1>2
    <3> QED
      BY <3>1, ModIs, <1>1
  <2>2. a + 1 = B * (p + 1) + 0
    BY <1>1, <1>2
  <2>3. (a + 1) % B = 0
    BY <1>1, <2>2, ModIs
  <2> QED
    BY <2>1, <2>3 DEF s
<1>3. CASE s < B - 1
  <2>1. (s + 1) % B = s + 1
    BY <1>1, <1>3
  <2>2. a + 1 = B * p + (s + 1)
    BY <1>1, <1>2
  <2>3. (a + 1) % B = s + 1
    BY <1>1, <1>3, <2>2, ModIs
  <2> QED
    BY <2>1, <2>3 DEF s
<1> QED
  BY <1>1, <1>2, <1>3

\* The difference of two indices, taken modulo B, is that of the counts.
LEMMA ModDiff ==
  ASSUME NEW B \in Nat, B > 0, NEW a \in Int, NEW b \in Int, b <= a, a - b < B
  PROVE ((a % B) - (b % B)) % B = a - b
<1> DEFINE p == a \div B
           q == b \div B
           x == a % B
           y == b % B
<1>1. p \in Int /\ x \in Int /\ a = B * p + x
  BY DivMod
<1>2. q \in Int /\ y \in Int /\ b = B * q + y
  BY DivMod
<1> HIDE DEF p, q, x, y
<1>3. x - y = B * (q - p) + (a - b)
  <2>1. x - y = B * q - B * p + (a - b)
    BY <1>1, <1>2
  <2>2. B * (q - p) = B * q - B * p
    BY <1>1, <1>2
  <2> QED
    BY <2>1, <2>2, <1>1, <1>2
<1>4. q - p \in Int /\ x - y \in Int /\ a - b \in 0 .. (B-1)
  BY <1>1, <1>2
<1>5. (x - y) % B = a - b
  BY <1>3, <1>4, ModIs
<1> QED
  BY <1>5 DEF x, y
-------------------------------------------------------------------------------
(***************************************************************************)
(* The ring                                                                *)
(***************************************************************************)
LEMMA Sizes ==
  /\ BUFFER_SIZE \in Nat /\ ThreadCount \in Nat /\ ThreadCount >= 2
  /\ BUFFER_SIZE >= ThreadCount + 2 /\ BUFFER_SIZE > 1
BY ThreadsAssumption, SizeAssumption

\* Every frame has a slot.
LEMMA SlotType ==
  ASSUME NEW f \in Int
  PROVE  SlotOf(f) \in Slots /\ f % BUFFER_SIZE \in Slots
<1>1. f - 1 \in Int
  OBVIOUS
<1> QED
  BY <1>1, Sizes, DivMod DEF SlotOf, Slots

LEMMA SlotOfNext ==
  ASSUME NEW n \in Nat
  PROVE  SlotOf(n + 1) = n % BUFFER_SIZE
<1>1. (n + 1) - 1 = n
  OBVIOUS
<1> QED
  BY <1>1, Zenon DEF SlotOf

\* Two frames less than a ring apart that share a slot are the same.
LEMMA SlotUnique ==
  ASSUME NEW f \in Int, NEW g \in Int, SlotOf(f) = SlotOf(g),
         f - g < BUFFER_SIZE, g - f < BUFFER_SIZE
  PROVE  f = g
<1>1. f - 1 \in Int /\ g - 1 \in Int
  OBVIOUS
<1>2. f - 1 = g - 1
  BY <1>1, Sizes, ModUnique DEF SlotOf
<1> QED
  BY <1>2

\* What the indices of the context are, in terms of the frames.
LEMMA Indices ==
  ASSUME EncoderInv
  PROVE  /\ given \in Nat /\ Len(returned) \in Nat /\ Len(task_fifo) \in Nat
         /\ Taken \in Int /\ Taken <= given /\ Len(returned) <= Taken
         /\ given - Len(returned) < BUFFER_SIZE
         /\ task_index = SlotOf(given + 1)
         /\ finished_task_index = SlotOf(Len(returned) + 1)
         /\ InFlight = given - Len(returned)
<1>1. given \in Nat /\ returned \in Seq(1 .. given)
      /\ task_fifo \in Seq([index : Slots, frame : 1 .. given])
  BY FramesAssumption DEF EncoderInv, TypeOK
<1>2. Len(returned) \in Nat /\ Len(task_fifo) \in Nat
  BY <1>1, LenProperties
<1>3. /\ Taken \in Int /\ Taken <= given /\ Len(returned) <= Taken
      /\ given - Len(returned) < BUFFER_SIZE
  BY <1>1, <1>2, Sizes DEF EncoderInv, InvClient, Taken
<1>4. given \in Int /\ Len(returned) \in Int
  BY <1>1, <1>2
<1>5. task_index = SlotOf(given + 1) /\ finished_task_index = SlotOf(Len(returned) + 1)
  <2>1. task_index = given % BUFFER_SIZE /\ finished_task_index = Len(returned) % BUFFER_SIZE
    BY DEF EncoderInv, InvIndices
  <2> QED
    BY <1>1, <1>2, <2>1, SlotOfNext
<1>6. InFlight = given - Len(returned)
  <2>1. BUFFER_SIZE \in Nat /\ BUFFER_SIZE > 0 /\ Len(returned) <= given
    BY <1>1, <1>2, <1>3, Sizes
  <2>2. ((given % BUFFER_SIZE) - (Len(returned) % BUFFER_SIZE)) % BUFFER_SIZE
          = given - Len(returned)
    BY <1>3, <1>4, <2>1, ModDiff, Zenon
  <2> QED
    BY <2>2, Zenon DEF EncoderInv, InvIndices, InFlight
<1> QED
  BY <1>1, <1>2, <1>3, <1>5, <1>6

\* The index after that of one frame is that of the next.
LEMMA FollowingIs ==
  ASSUME NEW n \in Nat
  PROVE  Following(n % BUFFER_SIZE) = (n + 1) % BUFFER_SIZE
<1>1. n \in Int
  OBVIOUS
<1>2. ((n % BUFFER_SIZE) + 1) % BUFFER_SIZE = (n + 1) % BUFFER_SIZE
  BY <1>1, Sizes, ModNext
<1> QED
  BY <1>2, Zenon DEF Following

\* The slot that is returned next can only hold the oldest frame in flight.
LEMMA OldestSlot ==
  ASSUME EncoderInv, finished_tasks[finished_task_index] # Empty
  PROVE  finished_tasks[finished_task_index] = Len(returned) + 1
<1> DEFINE f == finished_tasks[finished_task_index]
<1>1. finished_task_index \in Slots
  BY DEF EncoderInv, TypeOK
<1>2. f \in (Len(returned) + 1) .. Taken /\ finished_task_index = SlotOf(f)
  BY <1>1 DEF EncoderInv, InvSlots
<1>3. SlotOf(f) = SlotOf(Len(returned) + 1)
  BY <1>2, Indices
<1> HIDE DEF f
<1>4. /\ f \in Int /\ Len(returned) + 1 \in Int
      /\ f - (Len(returned) + 1) < BUFFER_SIZE /\ (Len(returned) + 1) - f < BUFFER_SIZE
  BY <1>2, Indices, Sizes
<1>5. f = Len(returned) + 1
  BY <1>3, <1>4, SlotUnique
<1> QED
  BY <1>5 DEF f

\* A worker's task is one of the frames in flight, in no slot, and its slot is free.
LEMMA TaskOf ==
  ASSUME EncoderInv, NEW w \in Workers, wpc[w] = "encode"
  PROVE  /\ task[w].frame \in (Len(returned) + 1) .. Taken
         /\ task[w].frame \in 1 .. given
         /\ task[w].index = SlotOf(task[w].frame) /\ task[w].index \in Slots
         /\ \A s \in Slots : finished_tasks[s] # task[w].frame
         /\ finished_tasks[task[w].index] = Empty
<1> DEFINE f == task[w].frame
<1>1. f \in (Len(returned) + 1) .. Taken /\ task[w].index = SlotOf(f)
  BY DEF EncoderInv, InvWorkers
<1>2. f \in 1 .. given
  BY <1>1, Indices
<1>3. task[w].index \in Slots
  BY <1>1, <1>2, SlotType
<1>4. ASSUME NEW s \in Slots, finished_tasks[s] = f PROVE FALSE
  <2>1. f # Empty
    BY <1>2 DEF Empty
  <2>2. ~InWorker(f)
    BY <1>4, <2>1 DEF EncoderInv, InvSlots
  <2> QED
    BY <2>2 DEF InWorker
<1>5. ASSUME finished_tasks[task[w].index] # Empty PROVE FALSE
  <2> DEFINE g == finished_tasks[task[w].index]
  <2>1. g \in (Len(returned) + 1) .. Taken /\ SlotOf(f) = SlotOf(g)
    BY <1>1, <1>3, <1>5 DEF EncoderInv, InvSlots
  <2> HIDE DEF f, g
  <2>2. f \in Int /\ g \in Int /\ f - g < BUFFER_SIZE /\ g - f < BUFFER_SIZE
    BY <1>1, <2>1, Indices, Sizes
  <2>3. f = g
    BY <2>1, <2>2, SlotUnique
  <2> QED
    BY <1>3, <1>4, <2>3 DEF g
<1> QED
  BY <1>1, <1>2, <1>3, <1>4, <1>5
-------------------------------------------------------------------------------
(***************************************************************************)
(* The invariant                                                           *)
(***************************************************************************)
LEMMA InitInv == Init => EncoderInv
<1> SUFFICES ASSUME Init PROVE EncoderInv
  OBVIOUS
<1>1. 0 % BUFFER_SIZE = 0 /\ 0 \in Slots
  BY Sizes DEF Slots
<1>2. Len(task_fifo) = 0 /\ Len(returned) = 0 /\ Taken = 0 /\ Len(encoded) = 0
  <2>1. Len(<<>>) = 0
    BY EmptySeq
  <2>2. Len(task_fifo) = 0 /\ Len(returned) = 0 /\ Len(encoded) = 0 /\ given = 0
    BY <2>1, Zenon DEF Init
  <2> QED
    BY <2>2 DEF Taken
<1>3. TypeOK
  <2>1. task \in [Workers -> [index : Slots, frame : 0 .. given]]
    BY <1>1 DEF Init, NoTask
  <2>2. task_fifo \in Seq([index : Slots, frame : 1 .. given]) /\ returned \in Seq(1 .. given)
        /\ encoded \in Seq({"pending", "packet", "none", "error"})
    BY EmptySeq DEF Init
  <2> QED
    BY <1>1, <1>2, <2>1, <2>2, Sizes, FramesAssumption, SMTT(20) DEF Init, TypeOK, Empty
<1>4. InvClient
  BY <1>2, Sizes DEF Init, InvClient, BoundedPipeline
<1>5. InvIndices
  BY <1>1, <1>2 DEF Init, InvIndices, ResultsInOrder
<1>6. InvFifo
  BY <1>2 DEF InvFifo
<1>7. InvWorkers
  BY DEF Init, InvWorkers
<1>8. InvSlots /\ InvPlaces
  BY <1>2 DEF Init, InvSlots, InvPlaces
<1>9. InvThreads
  BY DEF Init, InvThreads, NoWorkerAfterFree, Workers
<1> QED
  BY <1>3, <1>4, <1>5, <1>6, <1>7, <1>8, <1>9 DEF EncoderInv

\* A step that moves no frame.
LEMMA MovesNoFrame ==
  ASSUME EncoderInv,
         UNCHANGED <<task_fifo, finished_tasks, task_index, finished_task_index, task, history>>,
         main' \in {"creating", "idle", "added", "take", "free", "join", "freed"},
         created' \in 0 .. ThreadCount, exit' \in BOOLEAN,
         wpc' \in [Workers -> {"none", "wait", "encode", "exit"}],
         asleep' \subseteq Workers \cup {Main},
         \A w \in Workers : wpc'[w] = "encode" <=> wpc[w] = "encode",
         main' = "creating" => created' < ThreadCount /\ given = 0,
         BoundedPipeline', InvThreads'
  PROVE  EncoderInv'
<1>1. TypeOK'
  BY DEF EncoderInv, TypeOK, history
<1>2. Taken' = Taken
  BY DEF Taken, history
<1>3. InvClient'
  BY <1>2 DEF EncoderInv, InvClient, history
<1>4. InvIndices' /\ InvFifo'
  BY <1>2 DEF EncoderInv, InvIndices, InvFifo, SlotOf, ResultsInOrder, history
<1>5. InvWorkers'
  BY <1>2 DEF EncoderInv, InvWorkers, SlotOf, history
<1>6. \A f : (InWorker(f)' <=> InWorker(f)) /\ (InSlot(f)' <=> InSlot(f))
  BY DEF InWorker, InSlot
<1>7. InvSlots' /\ InvPlaces'
  BY <1>2, <1>6 DEF EncoderInv, InvSlots, InvPlaces, SlotOf, history
<1> QED
  BY <1>1, <1>3, <1>4, <1>5, <1>7 DEF EncoderInv

LEMMA CreateWorkerInv ==
  ASSUME EncoderInv, CreateWorker PROVE EncoderInv'
<1>1. created \in Nat /\ created < ThreadCount /\ created + 1 \in Workers /\ given = 0
  BY Sizes DEF EncoderInv, TypeOK, InvClient, CreateWorker, Workers
<1>2. /\ created' = created + 1 /\ created' \in 0 .. ThreadCount
      /\ main' \in {"creating", "idle"} /\ (main' = "creating" => created' < ThreadCount)
  BY <1>1, Sizes DEF CreateWorker
<1>3. wpc' \in [Workers -> {"none", "wait", "encode", "exit"}]
  BY DEF EncoderInv, TypeOK, CreateWorker
<1>4. wpc[created + 1] = "none"
  BY <1>1 DEF EncoderInv, InvThreads
<1>5. \A w \in Workers : wpc'[w] = IF w = created + 1 THEN "wait" ELSE wpc[w]
  BY DEF EncoderInv, TypeOK, CreateWorker
<1>6. given' = given /\ Len(returned') \in Nat
  BY Indices DEF CreateWorker, history
<1>7. BoundedPipeline'
  BY <1>1, <1>6, Sizes DEF BoundedPipeline
<1>8. InvThreads'
  <2>1. \A w \in Workers : wpc'[w] = "none" <=> w > created'
    BY <1>1, <1>2, <1>4, <1>5 DEF EncoderInv, InvThreads, Workers
  <2> QED
    BY <1>2, <2>1 DEF InvThreads, NoWorkerAfterFree
<1>9. /\ UNCHANGED <<task_fifo, finished_tasks, task_index, finished_task_index, task, history>>
      /\ exit' \in BOOLEAN /\ asleep' \subseteq Workers \cup {Main}
      /\ \A w \in Workers : wpc'[w] = "encode" <=> wpc[w] = "encode"
  BY <1>4, <1>5 DEF EncoderInv, TypeOK, CreateWorker, context
<1> QED
  BY <1>1, <1>2, <1>3, <1>7, <1>8, <1>9, MovesNoFrame

\* The client's steps that move no frame.
LEMMA ClientInv ==
  ASSUME EncoderInv,
         \/ CreateFails \/ ReturnEarly \/ WaitForOldest \/ Drain \/ SleepForResult
         \/ Close \/ Free \/ Join \/ \E t \in Workers \cup {Main} : Spurious(t)
         \/ UNCHANGED vars
  PROVE  EncoderInv'
<1>1. /\ UNCHANGED <<created, task_fifo, finished_tasks, task_index, finished_task_index,
                     task, history, wpc>>
      /\ exit' \in BOOLEAN
      /\ asleep' \subseteq Workers \cup {Main}
  BY DEF EncoderInv, TypeOK, CreateFails, ReturnEarly, WaitForOldest, Drain, SleepForResult,
         Close, Free, Join, Spurious, vars, client, context, history, WakeForExit
<1>2. /\ main' \in {"creating", "idle", "added", "take", "free", "join", "freed"}
      /\ main' = "creating" => main = "creating"
      /\ main' = "idle" => main = "idle" \/ ReturnEarly
      /\ main' = "freed" => main = "freed" \/ Join
  BY DEF EncoderInv, TypeOK, CreateFails, ReturnEarly, WaitForOldest, Drain, SleepForResult,
         Close, Free, Join, Spurious, vars, client
<1>3. BoundedPipeline'
  <2>1. CASE main = "idle"
    BY <1>1, <2>1 DEF EncoderInv, InvClient, BoundedPipeline, history
  <2>2. CASE ReturnEarly
    <3>1. given - Len(returned) <= ThreadCount
      BY <2>2, Indices DEF ReturnEarly, PipelineHasRoom
    <3> QED
      BY <1>1, <3>1 DEF BoundedPipeline, history
  <2> QED
    BY <1>2, <2>1, <2>2 DEF BoundedPipeline
<1>4. InvThreads'
  <2>1. CASE Join
    <3>1. \A w \in 1 .. created : wpc[w] = "exit"
      BY <2>1 DEF Join, ToJoin
    <3>2. \A w \in Workers : w > created \/ w \in 1 .. created
      BY Sizes DEF EncoderInv, TypeOK, Workers
    <3>3. NoWorkerAfterFree'
      BY <1>1, <3>1, <3>2 DEF EncoderInv, InvThreads, NoWorkerAfterFree
    <3> QED
      BY <1>1, <3>3 DEF EncoderInv, InvThreads
  <2>2. CASE main' = "freed" => main = "freed"
    BY <1>1, <2>2 DEF EncoderInv, InvThreads, NoWorkerAfterFree
  <2> QED
    BY <1>2, <2>1, <2>2
<1>5. main' = "creating" => created' < ThreadCount /\ given = 0
  BY <1>1, <1>2 DEF EncoderInv, InvClient
<1>6. created' \in 0 .. ThreadCount /\ wpc' \in [Workers -> {"none", "wait", "encode", "exit"}]
  BY <1>1 DEF EncoderInv, TypeOK
<1> QED
  BY <1>1, <1>2, <1>3, <1>4, <1>5, <1>6, MovesNoFrame

\* The task that leaves the FIFO is the one after those that left it before.
LEMMA TakeTaskInv ==
  ASSUME EncoderInv, NEW w \in Workers, GetTask(w), task' # task
  PROVE  EncoderInv'
<1>1. /\ task_fifo # <<>> /\ task_fifo' = Tail(task_fifo)
      /\ task' = [task EXCEPT ![w] = Head(task_fifo)]
      /\ wpc[w] = "wait" /\ wpc' = [wpc EXCEPT ![w] = "encode"] /\ asleep' = asleep
      /\ UNCHANGED <<client, exit, finished_tasks, task_index, finished_task_index, history>>
  BY DEF GetTask, MayGetTask
<1> DEFINE n == Len(task_fifo)
           Task == [index : Slots, frame : 1 .. given]
           f == Taken + 1
<1>2. task_fifo \in Seq(Task) /\ given' = given /\ returned' = returned
  BY <1>1 DEF EncoderInv, TypeOK, history
<1>3. /\ n \in Nat /\ n > 0 /\ Head(task_fifo) = task_fifo[1]
      /\ task_fifo' \in Seq(Task) /\ Len(task_fifo') = n - 1
      /\ \A k \in 1 .. (n - 1) : task_fifo'[k] = task_fifo[k + 1]
  BY <1>1, <1>2, EmptySeq, HeadTailProperties
<1>4. Taken' = Taken + 1 /\ Taken' \in Int
  BY <1>2, <1>3, Indices DEF Taken
<1>5. task_fifo[1] = [index |-> SlotOf(f), frame |-> f]
  <2>1. 1 \in 1 .. Len(task_fifo)
    BY <1>3
  <2> QED
    BY <2>1, Zenon DEF EncoderInv, InvFifo
<1>6. task_fifo[1] \in Task
  <2>1. 1 \in 1 .. Len(task_fifo)
    BY <1>3
  <2> QED
    BY <1>2, <2>1, ElementOfSeq
<1>7. f \in (Len(returned) + 1) .. Taken' /\ f > Taken
  BY <1>4, Indices
<1>8. /\ task'[w] = [index |-> SlotOf(f), frame |-> f] /\ wpc'[w] = "encode"
      /\ \A v \in Workers \ {w} : task'[v] = task[v] /\ wpc'[v] = wpc[v]
  BY <1>1, <1>3, <1>5 DEF EncoderInv, TypeOK
<1>9. task[w] = NoTask
  BY <1>1 DEF EncoderInv, InvWorkers
<1> HIDE DEF n, Task, f
<1>10. TypeOK'
  <2>1. task' \in [Workers -> [index : Slots, frame : 0 .. given]]
    BY <1>1, <1>3, <1>6 DEF EncoderInv, TypeOK, Task
  <2> QED
    BY <1>1, <1>2, <1>3, <2>1 DEF EncoderInv, TypeOK, client, history, Task
<1>11. InvClient'
  BY <1>1, <1>2, <1>4, Indices DEF EncoderInv, InvClient, BoundedPipeline, client
<1>12. InvIndices'
  BY <1>1, <1>2 DEF EncoderInv, InvIndices, ResultsInOrder
<1>13. InvFifo'
  <2> SUFFICES ASSUME NEW k \in 1 .. Len(task_fifo')
               PROVE  task_fifo'[k] = [index |-> SlotOf(Taken' + k), frame |-> Taken' + k]
    BY DEF InvFifo, SlotOf
  <2>1. k \in 1 .. (n - 1) /\ k + 1 \in 1 .. n
    BY <1>3
  <2>3. Taken' + k = Taken + (k + 1)
    BY <1>4, <2>1, Indices
  <2>2. task_fifo[k + 1] = [index |-> SlotOf(Taken + (k + 1)), frame |-> Taken + (k + 1)]
    BY <2>1 DEF EncoderInv, InvFifo, n
  <2> QED
    BY <1>3, <2>1, <2>2, <2>3
<1>14. \A g \in Int : g # 0 => (InWorker(g)' <=> InWorker(g) \/ g = f)
  BY <1>8, <1>9 DEF InWorker, NoTask
<1>15. InvWorkers'
  <2>1. ASSUME NEW v \in Workers, wpc'[v] = "encode"
        PROVE  /\ task'[v].frame \in (Len(returned) + 1) .. Taken'
               /\ task'[v].index = SlotOf(task'[v].frame)
    <3>1. CASE v = w
      BY <3>1, <1>7, <1>8
    <3>2. CASE v # w
      BY <3>2, <2>1, <1>8, <1>4, Indices DEF EncoderInv, InvWorkers
    <3> QED
      BY <3>1, <3>2
  <2>2. \A v \in Workers : wpc'[v] # "encode" => task'[v] = NoTask
    BY <1>8 DEF EncoderInv, InvWorkers
  <2>3. \A v \in Workers \ {w} : task[v].frame # f
    <3> SUFFICES ASSUME NEW v \in Workers, task[v].frame = f PROVE FALSE
      OBVIOUS
    <3>1. wpc[v] = "encode"
      BY <1>7, Indices DEF EncoderInv, InvWorkers, NoTask
    <3> QED
      BY <3>1, <1>7, Indices DEF EncoderInv, InvWorkers
  <2>4. \A u, v \in Workers : wpc'[u] = "encode" /\ task'[u].frame = task'[v].frame => u = v
    BY <1>8, <2>3 DEF EncoderInv, InvWorkers
  <2> QED
    BY <1>2, <2>1, <2>2, <2>4 DEF InvWorkers, SlotOf
<1>16. InvSlots'
  <2> SUFFICES ASSUME NEW s \in Slots, finished_tasks[s] # Empty
               PROVE  /\ finished_tasks[s] \in (Len(returned) + 1) .. Taken'
                      /\ s = SlotOf(finished_tasks[s])
                      /\ \A v \in Workers : task'[v].frame # finished_tasks[s]
    BY <1>1, <1>2 DEF InvSlots, SlotOf, InWorker
  <2>1. /\ finished_tasks[s] \in (Len(returned) + 1) .. Taken
        /\ s = SlotOf(finished_tasks[s]) /\ ~InWorker(finished_tasks[s])
    BY DEF EncoderInv, InvSlots
  <2>2. /\ finished_tasks[s] \in (Len(returned) + 1) .. Taken' /\ finished_tasks[s] \in Int
        /\ finished_tasks[s] # 0 /\ finished_tasks[s] # f
    BY <2>1, <1>4, <1>7, Indices
  <2>3. \A v \in Workers : task'[v].frame # finished_tasks[s]
    BY <2>1, <2>2, <1>8 DEF InWorker
  <2> QED
    BY <2>1, <2>2, <2>3
<1>17. InvPlaces'
  <2> SUFFICES ASSUME NEW g \in (Len(returned) + 1) .. Taken'
               PROVE  InWorker(g)' \/ InSlot(g)'
    BY <1>2 DEF InvPlaces
  <2>1. g = f \/ g \in (Len(returned) + 1) .. Taken
    BY <1>4, Indices DEF f
  <2>2. InWorker(g)' \/ InSlot(g)
    BY <2>1, <1>14, Indices DEF EncoderInv, InvPlaces
  <2> QED
    BY <2>2, <1>1 DEF InSlot
<1>18. InvThreads'
  <2>1. \A v \in Workers : wpc'[v] = "none" <=> wpc[v] = "none"
    BY <1>1, <1>8
  <2>2. main # "freed"
    BY <1>1 DEF EncoderInv, InvThreads, NoWorkerAfterFree
  <2> QED
    BY <1>1, <2>1, <2>2 DEF EncoderInv, InvThreads, NoWorkerAfterFree, client
<1> QED
  BY <1>10, <1>11, <1>12, <1>13, <1>15, <1>16, <1>17, <1>18 DEF EncoderInv

LEMMA GetTaskInv ==
  ASSUME EncoderInv, NEW w \in Workers, GetTask(w) PROVE EncoderInv'
<1>1. CASE task' # task
  BY <1>1, TakeTaskInv
<1>2. CASE task' = task /\ MayGetTask
  <2> DEFINE Task == [index : Slots, frame : 1 .. given]
  <2>1. task_fifo \in Seq(Task) /\ task_fifo # <<>>
    BY <1>2 DEF EncoderInv, TypeOK, MayGetTask
  <2>2. task_fifo[1].frame \in 1 .. given
    <3>1. 1 \in 1 .. Len(task_fifo)
      BY <2>1, EmptySeq
    <3>2. task_fifo[1] \in Task
      BY <2>1, <3>1, ElementOfSeq
    <3> QED
      BY <3>2
  <2>3. task[w] = NoTask
    BY DEF GetTask, EncoderInv, InvWorkers
  <2>4. task'[w] = Head(task_fifo)
    BY <1>2 DEF GetTask, MayGetTask, EncoderInv, TypeOK
  <2>5. Head(task_fifo) = task_fifo[1]
    BY <2>1, EmptySeq
  <2> QED
    BY <1>2, <2>2, <2>3, <2>4, <2>5, Indices DEF NoTask
<1>3. CASE task' = task /\ ~MayGetTask
  <2>1. /\ UNCHANGED <<client, task_fifo, finished_tasks, task_index, finished_task_index,
                       task, history, exit>>
        /\ wpc[w] = "wait"
        /\ \/ wpc' = [wpc EXCEPT ![w] = "exit"] /\ asleep' = asleep
           \/ wpc' = wpc /\ asleep' = asleep \cup {w}
    BY <1>3 DEF GetTask, MayGetTask
  <2>2. /\ wpc' \in [Workers -> {"none", "wait", "encode", "exit"}]
        /\ asleep' \subseteq Workers \cup {Main}
        /\ \A v \in Workers : /\ wpc'[v] = "encode" <=> wpc[v] = "encode"
                              /\ wpc'[v] = "none" <=> wpc[v] = "none"
    BY <2>1 DEF EncoderInv, TypeOK
  <2>3. main # "freed"
    BY <2>1 DEF EncoderInv, InvThreads, NoWorkerAfterFree
  <2>4. BoundedPipeline' /\ InvThreads'
    BY <2>1, <2>2, <2>3
       DEF EncoderInv, InvClient, BoundedPipeline, InvThreads, NoWorkerAfterFree, client, history
  <2>5. /\ main' \in {"creating", "idle", "added", "take", "free", "join", "freed"}
        /\ created' \in 0 .. ThreadCount /\ exit' \in BOOLEAN
        /\ main' = "creating" => created' < ThreadCount /\ given = 0
    BY <2>1 DEF EncoderInv, TypeOK, InvClient, client
  <2> QED
    BY <2>1, <2>2, <2>4, <2>5, MovesNoFrame
<1> QED
  BY <1>1, <1>2, <1>3

\* The result goes to a free slot, and the frame leaves its worker.
LEMMA FinishInv ==
  ASSUME EncoderInv, NEW w \in Workers, Finish(w) PROVE EncoderInv'
<1> DEFINE f == task[w].frame
           s == task[w].index
<1>1. /\ wpc[w] = "encode"
      /\ \E o \in {"packet", "none", "error"} : encoded' = [encoded EXCEPT ![f] = o]
      /\ finished_tasks' = [finished_tasks EXCEPT ![s] = f]
      /\ unreferenced' = unreferenced \cup {f} /\ asleep' = asleep \ {Main}
      /\ task' = [task EXCEPT ![w] = NoTask] /\ wpc' = [wpc EXCEPT ![w] = "wait"]
      /\ UNCHANGED <<client, exit, task_fifo, task_index, finished_task_index, given, returned>>
  BY DEF Finish, ResultSlot, TellClient
<1>2. /\ f \in (Len(returned) + 1) .. Taken /\ f \in 1 .. given
      /\ s = SlotOf(f) /\ s \in Slots
      /\ finished_tasks[s] = Empty /\ \A r \in Slots : finished_tasks[r] # f
  BY <1>1, TaskOf
<1>3. /\ task'[w] = NoTask /\ wpc'[w] = "wait"
      /\ \A v \in Workers \ {w} : task'[v] = task[v] /\ wpc'[v] = wpc[v]
  BY <1>1 DEF EncoderInv, TypeOK
<1>4. /\ finished_tasks'[s] = f
      /\ \A r \in Slots \ {s} : finished_tasks'[r] = finished_tasks[r]
  BY <1>1, <1>2 DEF EncoderInv, TypeOK
<1>5. Taken' = Taken /\ Taken \in Int
  BY <1>1, Indices DEF Taken
<1>6. \A v \in Workers \ {w} : task[v].frame # f
  BY <1>1 DEF EncoderInv, InvWorkers
<1> HIDE DEF f, s
<1>7. TypeOK'
  <2>1. NoTask \in [index : Slots, frame : 0 .. given]
    BY Indices, Sizes DEF NoTask, Slots
  <2>2. finished_tasks' \in [Slots -> 0 .. given]
    BY <1>1, <1>2 DEF EncoderInv, TypeOK
  <2>3. task' \in [Workers -> [index : Slots, frame : 0 .. given]]
    BY <1>1, <2>1 DEF EncoderInv, TypeOK
  <2>4. /\ encoded' \in Seq({"pending", "packet", "none", "error"})
        /\ Len(encoded') = given
    <3>1. /\ encoded \in Seq({"pending", "packet", "none", "error"})
          /\ f \in 1 .. Len(encoded) /\ Len(encoded) = given
      BY <1>2 DEF EncoderInv, TypeOK
    <3>2. PICK o \in {"pending", "packet", "none", "error"} : encoded' = [encoded EXCEPT ![f] = o]
      BY <1>1
    <3> QED
      BY <3>1, <3>2, ExceptSeq
  <2> QED
    BY <1>1, <1>2, <2>2, <2>3, <2>4 DEF EncoderInv, TypeOK, client
<1>8. InvClient' /\ InvIndices' /\ InvFifo'
  BY <1>1, <1>5 DEF EncoderInv, InvClient, BoundedPipeline, InvIndices, ResultsInOrder,
                    InvFifo, SlotOf, client
<1>9. InvWorkers'
  <2>1. ASSUME NEW v \in Workers, wpc'[v] = "encode"
        PROVE  /\ task'[v].frame \in (Len(returned) + 1) .. Taken'
               /\ task'[v].index = SlotOf(task'[v].frame)
    BY <1>3, <1>5, <2>1 DEF EncoderInv, InvWorkers
  <2>2. \A v \in Workers : wpc'[v] # "encode" => task'[v] = NoTask
    BY <1>3 DEF EncoderInv, InvWorkers
  <2>3. \A v \in Workers : wpc[v] = "encode" => task[v].frame # 0
    BY Indices DEF EncoderInv, InvWorkers
  <2>4. \A u, v \in Workers : wpc'[u] = "encode" /\ task'[u].frame = task'[v].frame => u = v
    BY <1>3, <2>3 DEF EncoderInv, InvWorkers, NoTask
  <2> QED
    BY <1>1, <2>1, <2>2, <2>4 DEF InvWorkers, SlotOf
<1>10. InvSlots'
  <2> SUFFICES ASSUME NEW r \in Slots, finished_tasks'[r] # Empty
               PROVE  /\ finished_tasks'[r] \in (Len(returned) + 1) .. Taken
                      /\ r = SlotOf(finished_tasks'[r])
                      /\ \A v \in Workers : task'[v].frame # finished_tasks'[r]
    BY <1>1, <1>5 DEF InvSlots, SlotOf, InWorker
  <2>1. CASE r = s
    BY <2>1, <1>2, <1>3, <1>4, <1>6, Indices DEF NoTask
  <2>2. CASE r # s
    BY <2>2, <1>3, <1>4, Indices DEF EncoderInv, InvSlots, InWorker, NoTask, Empty
  <2> QED
    BY <2>1, <2>2
<1>11. InvPlaces'
  <2> SUFFICES ASSUME NEW g \in (Len(returned) + 1) .. Taken
               PROVE  InWorker(g)' \/ InSlot(g)'
    BY <1>1, <1>5 DEF InvPlaces
  <2>1. CASE g = f
    BY <2>1, <1>2, <1>4 DEF InSlot
  <2>2. CASE g # f /\ InWorker(g)
    BY <2>2, <1>3 DEF InWorker, f
  <2>3. CASE InSlot(g)
    <3>1. PICK r \in Slots : finished_tasks[r] = g
      BY <2>3 DEF InSlot
    <3>2. r # s
      BY <3>1, <1>2, Indices DEF Empty
    <3> QED
      BY <3>1, <3>2, <1>4 DEF InSlot
  <2> QED
    BY <2>1, <2>2, <2>3 DEF EncoderInv, InvPlaces
<1>12. InvThreads'
  <2>1. main # "freed"
    BY <1>1 DEF EncoderInv, InvThreads, NoWorkerAfterFree
  <2> QED
    BY <1>1, <1>3, <2>1 DEF EncoderInv, InvThreads, NoWorkerAfterFree, client
<1> QED
  BY <1>7, <1>8, <1>9, <1>10, <1>11, <1>12 DEF EncoderInv

LEMMA AddTaskInv ==
  ASSUME EncoderInv, AddTask PROVE EncoderInv'
<1>1. /\ main = "idle" /\ given < MaxFrames /\ given' = given + 1 /\ main' = "added"
      /\ encoded' = Append(encoded, "pending")
      /\ task_fifo' = Append(task_fifo, [index |-> task_index, frame |-> given + 1])
      /\ task_index' = Following(task_index)
      /\ UNCHANGED <<created, exit, finished_tasks, finished_task_index, wpc, task,
                     unreferenced, returned>>
  BY DEF AddTask
<1> DEFINE n == Len(task_fifo)
           New == [index |-> task_index, frame |-> given + 1]
           Task == [index : Slots, frame : 1 .. given']
<1>2. /\ given \in Nat /\ given' \in Nat /\ n \in Nat /\ Len(returned) \in Nat
      /\ Taken = given - n /\ task_index \in Slots
  BY <1>1, Indices DEF Taken, EncoderInv, TypeOK
<1>3. New \in Task /\ New = [index |-> SlotOf(given + 1), frame |-> given + 1]
  BY <1>1, <1>2, Indices
<1>4. task_fifo \in Seq(Task)
  <2>1. task_fifo \in Seq([index : Slots, frame : 1 .. given])
    BY DEF EncoderInv, TypeOK
  <2>2. [index : Slots, frame : 1 .. given] \subseteq Task
    BY <1>1, <1>2
  <2> QED
    BY <2>1, <2>2, SeqMonotonic
<1>5. /\ task_fifo' \in Seq(Task) /\ Len(task_fifo') = n + 1 /\ task_fifo'[n + 1] = New
      /\ \A k \in 1 .. n : task_fifo'[k] = task_fifo[k]
  BY <1>1, <1>3, <1>4, AppendProperties
<1> HIDE DEF New, Task
<1>6. Taken' = Taken
  BY <1>1, <1>2, <1>5 DEF Taken
<1>7. TypeOK'
  <2>1. /\ encoded' \in Seq({"pending", "packet", "none", "error"}) /\ Len(encoded') = given'
    BY <1>1, <1>2, AppendProperties DEF EncoderInv, TypeOK
  <2>2. returned' \in Seq(1 .. given')
    <3>1. returned \in Seq(1 .. given) /\ 1 .. given \subseteq 1 .. given'
      BY <1>1, <1>2 DEF EncoderInv, TypeOK
    <3> QED
      BY <1>1, <3>1, SeqMonotonic
  <2>3. task_index' \in Slots
    BY <1>1, <1>2, SlotType DEF Following, Slots
  <2>4. given' \in 0 .. MaxFrames
    BY <1>1, <1>2, FramesAssumption
  <2>5. asleep' \subseteq Workers \cup {Main}
    BY DEF AddTask, WakeWorker, EncoderInv, TypeOK
  <2>6. /\ finished_tasks' \in [Slots -> 0 .. given'] /\ unreferenced' \subseteq 1 .. given'
        /\ task' \in [Workers -> [index : Slots, frame : 0 .. given']]
    <3>1. 0 .. given \subseteq 0 .. given' /\ 1 .. given \subseteq 1 .. given'
      BY <1>1, <1>2
    <3>2. [index : Slots, frame : 0 .. given] \subseteq [index : Slots, frame : 0 .. given']
      BY <3>1
    <3> QED
      BY <1>1, <3>1, <3>2 DEF EncoderInv, TypeOK
  <2> QED
    BY <1>1, <1>5, <2>1, <2>2, <2>3, <2>4, <2>5, <2>6 DEF EncoderInv, TypeOK, Task
<1>8. InvClient'
  BY <1>1, <1>2, <1>6, Sizes DEF EncoderInv, InvClient, BoundedPipeline
<1>9. InvIndices'
  <2>1. task_index' = given' % BUFFER_SIZE
    BY <1>1, <1>2, FollowingIs DEF EncoderInv, InvIndices
  <2> QED
    BY <1>1, <2>1 DEF EncoderInv, InvIndices, ResultsInOrder
<1>10. InvFifo'
  <2> SUFFICES ASSUME NEW k \in 1 .. Len(task_fifo')
               PROVE  task_fifo'[k] = [index |-> SlotOf(Taken' + k), frame |-> Taken' + k]
    BY DEF InvFifo, SlotOf
  <2>1. CASE k \in 1 .. n
    BY <2>1, <1>5, <1>6 DEF EncoderInv, InvFifo
  <2>2. CASE k = n + 1
    <3>1. Taken' + k = given + 1
      BY <2>2, <1>2, <1>6
    <3> QED
      BY <2>2, <3>1, <1>3, <1>5
  <2> QED
    BY <2>1, <2>2, <1>2, <1>5
<1>11. InvWorkers'
  BY <1>1, <1>6 DEF EncoderInv, InvWorkers, SlotOf
<1>12. InvSlots' /\ InvPlaces'
  BY <1>1, <1>6 DEF EncoderInv, InvSlots, InvPlaces, SlotOf, InWorker, InSlot
<1>13. InvThreads'
  BY <1>1 DEF EncoderInv, InvThreads, NoWorkerAfterFree
<1> QED
  BY <1>7, <1>8, <1>9, <1>10, <1>11, <1>12, <1>13 DEF EncoderInv

\* The result in the slot is that of the oldest frame, so the order is kept.
LEMMA TakeResultInv ==
  ASSUME EncoderInv, TakeResult PROVE EncoderInv'
<1> DEFINE s == finished_task_index
           f == finished_tasks[s]
           n == Len(returned)
<1>1. /\ main = "take" /\ main' = "idle" /\ f # Empty
      /\ returned' = Append(returned, f)
      /\ finished_tasks' = [finished_tasks EXCEPT ![s] = Empty]
      /\ finished_task_index' = Following(s)
      /\ UNCHANGED <<created, exit, task_fifo, task_index, wpc, task, asleep,
                     given, unreferenced, encoded>>
  BY DEF TakeResult, ClearSlot
<1>2. s \in Slots /\ f = n + 1 /\ n \in Nat /\ given \in Nat
  BY <1>1, OldestSlot, Indices DEF EncoderInv, TypeOK
<1>3. f \in (n + 1) .. Taken /\ ~InWorker(f) /\ Taken \in Int /\ Taken <= given
  BY <1>1, <1>2, Indices DEF EncoderInv, InvSlots
<1>4. /\ returned' \in Seq(1 .. given) /\ Len(returned') = n + 1 /\ returned'[n + 1] = n + 1
      /\ \A k \in 1 .. n : returned'[k] = returned[k]
  <2>1. returned \in Seq(1 .. given) /\ f \in 1 .. given
    BY <1>2, <1>3 DEF EncoderInv, TypeOK
  <2> QED
    BY <1>1, <1>2, <2>1, AppendProperties
<1>5. Taken' = Taken
  BY <1>1 DEF Taken
<1>6. /\ finished_tasks'[s] = Empty
      /\ \A r \in Slots \ {s} : finished_tasks'[r] = finished_tasks[r]
  BY <1>1, <1>2 DEF EncoderInv, TypeOK
<1>7. TypeOK'
  <2>1. finished_tasks' \in [Slots -> 0 .. given]
    BY <1>1, <1>2 DEF EncoderInv, TypeOK, Empty
  <2>2. finished_task_index' \in Slots
    BY <1>1, <1>2, SlotType DEF Following, Slots
  <2> QED
    BY <1>1, <1>4, <2>1, <2>2 DEF EncoderInv, TypeOK
<1>8. InvClient'
  BY <1>1, <1>2, <1>3, <1>4, <1>5, Sizes DEF EncoderInv, InvClient, BoundedPipeline
<1>9. InvIndices'
  <2>1. finished_task_index' = Len(returned') % BUFFER_SIZE
    BY <1>1, <1>2, <1>4, FollowingIs DEF EncoderInv, InvIndices
  <2>2. ResultsInOrder'
    <3>1. /\ returned' = [k \in 1 .. Len(returned') |-> returned'[k]]
          /\ returned = [k \in 1 .. n |-> k]
      BY <1>4 DEF EncoderInv, InvIndices, ResultsInOrder
    <3>2. \A k \in 1 .. Len(returned') : returned'[k] = k
      BY <1>2, <1>4, <3>1
    <3> QED
      BY <3>1, <3>2 DEF ResultsInOrder
  <2> QED
    BY <1>1, <2>1, <2>2 DEF EncoderInv, InvIndices
<1>10. InvFifo'
  BY <1>1, <1>5 DEF EncoderInv, InvFifo, SlotOf
<1>11. InvWorkers'
  <2>1. ASSUME NEW v \in Workers, wpc[v] = "encode"
        PROVE  task[v].frame \in (n + 2) .. Taken
    <3>1. task[v].frame \in (n + 1) .. Taken /\ task[v].frame # f
      BY <2>1, <1>3 DEF EncoderInv, InvWorkers, InWorker
    <3> QED
      BY <3>1, <1>2, <1>3
  <2>2. Len(returned') + 1 = n + 2
    BY <1>2, <1>4
  <2> QED
    BY <1>1, <1>5, <2>1, <2>2 DEF EncoderInv, InvWorkers, SlotOf
<1>12. InvSlots'
  <2> SUFFICES ASSUME NEW r \in Slots, finished_tasks'[r] # Empty
               PROVE  /\ finished_tasks'[r] \in (n + 2) .. Taken
                      /\ r = SlotOf(finished_tasks'[r])
                      /\ \A v \in Workers : task[v].frame # finished_tasks'[r]
    <3>1. Len(returned') + 1 = n + 2
      BY <1>2, <1>4
    <3> QED
      BY <1>1, <1>5, <3>1 DEF InvSlots, SlotOf, InWorker
  <2>1. r # s /\ finished_tasks'[r] = finished_tasks[r]
    BY <1>6
  <2>2. /\ finished_tasks[r] \in (n + 1) .. Taken /\ r = SlotOf(finished_tasks[r])
        /\ ~InWorker(finished_tasks[r])
    BY <2>1 DEF EncoderInv, InvSlots
  <2>3. finished_tasks[r] # f
    BY <1>1, <1>2, <2>1, <2>2 DEF EncoderInv, InvSlots
  <2> QED
    BY <1>2, <1>3, <2>1, <2>2, <2>3 DEF InWorker
<1>13. InvPlaces'
  <2> SUFFICES ASSUME NEW g \in (n + 2) .. Taken
               PROVE  InWorker(g)' \/ InSlot(g)'
    <3>1. Len(returned') + 1 = n + 2
      BY <1>2, <1>4
    <3> QED
      BY <1>5, <3>1 DEF InvPlaces
  <2>1. g \in (n + 1) .. Taken /\ g # f
    BY <1>2, <1>3
  <2>2. CASE InWorker(g)
    BY <2>2, <1>1 DEF InWorker
  <2>3. CASE InSlot(g)
    BY <2>1, <2>3, <1>6 DEF InSlot
  <2> QED
    BY <2>1, <2>2, <2>3 DEF EncoderInv, InvPlaces
<1>14. InvThreads'
  BY <1>1 DEF EncoderInv, InvThreads, NoWorkerAfterFree
<1> QED
  BY <1>7, <1>8, <1>9, <1>10, <1>11, <1>12, <1>13, <1>14 DEF EncoderInv

-------------------------------------------------------------------------------
(***************************************************************************)
(* The theorems                                                            *)
(***************************************************************************)

\* The pool of encoders keeps its invariant: at most a frame more in flight than there
\* are threads, each in one place, and no thread left when the context is freed.
THEOREM EncoderInvariance == Spec => []EncoderInv
<1>1. EncoderInv /\ [Next]_vars => EncoderInv'
  <2> SUFFICES ASSUME EncoderInv, [Next]_vars PROVE EncoderInv'
    OBVIOUS
  <2>1. CASE CreateWorker
    BY <2>1, CreateWorkerInv
  <2>2. CASE AddTask
    BY <2>2, AddTaskInv
  <2>3. CASE TakeResult
    BY <2>3, TakeResultInv
  <2>4. ASSUME NEW w \in Workers, WorkerStep(w) PROVE EncoderInv'
    BY <2>4, GetTaskInv, FinishInv DEF WorkerStep
  <2>5. CASE \/ CreateFails \/ ReturnEarly \/ WaitForOldest \/ Drain \/ SleepForResult
             \/ Close \/ Free \/ Join \/ \E t \in Workers \cup {Main} : Spurious(t)
             \/ UNCHANGED vars
    BY <2>5, ClientInv
  <2> QED
    BY <2>1, <2>2, <2>3, <2>4, <2>5 DEF Next, EncodeStep, FreeStep
<1> QED
  BY InitInv, <1>1, PTL DEF Spec

\* The client is given the results in the order of its frames, each once, for any
\* number of threads and however often the ring goes round.
THEOREM ResultsAreInOrder == Spec => []ResultsInOrder
<1>1. EncoderInv => ResultsInOrder
  BY DEF EncoderInv, InvIndices
<1> QED
  BY <1>1, EncoderInvariance, PTL

\* No result is overwritten and no frame lost: each that was not returned is in the
\* FIFO, with a worker or in a slot, and in one of them only.
THEOREM NoFrameIsLost == Spec => []EveryFrameIsSomewhere
<1>1. EncoderInv => EveryFrameIsSomewhere
  <2> SUFFICES ASSUME EncoderInv, NEW f \in (Len(returned) + 1) .. given
               PROVE  /\ InFifo(f) \/ InWorker(f) \/ InSlot(f)
                      /\ ~(InFifo(f) /\ InWorker(f)) /\ ~(InWorker(f) /\ InSlot(f))
                      /\ ~(InFifo(f) /\ InSlot(f))
    BY DEF EveryFrameIsSomewhere
  <2>1. /\ f \in Int /\ f # 0 /\ Taken \in Int /\ Len(task_fifo) \in Nat
        /\ Taken = given - Len(task_fifo) /\ given \in Nat /\ Len(returned) \in Nat
    BY Indices DEF Taken
  <2>2. DOMAIN task_fifo = 1 .. Len(task_fifo)
    BY LenProperties DEF EncoderInv, TypeOK
  <2>3. ASSUME NEW k \in 1 .. Len(task_fifo) PROVE task_fifo[k].frame = Taken + k
    <3>1. task_fifo[k] = [index |-> SlotOf(Taken + k), frame |-> Taken + k]
      BY Zenon DEF EncoderInv, InvFifo
    <3> QED
      BY <3>1
  <2>4. InFifo(f) <=> f > Taken
    <3>1. CASE f > Taken
      <4>1. f - Taken \in 1 .. Len(task_fifo) /\ Taken + (f - Taken) = f
        BY <2>1, <3>1
      <4> QED
        BY <3>1, <4>1, <2>2, <2>3 DEF InFifo
    <3>2. CASE ~(f > Taken)
      <4>1. \A k \in 1 .. Len(task_fifo) : Taken + k # f
        BY <2>1, <3>2
      <4> QED
        BY <3>2, <4>1, <2>2, <2>3 DEF InFifo
    <3> QED
      BY <3>1, <3>2
  <2>5. InWorker(f) => f <= Taken
    BY <2>1 DEF InWorker, EncoderInv, InvWorkers, NoTask
  <2>6. InSlot(f) => f <= Taken /\ ~InWorker(f)
    BY <2>1 DEF InSlot, EncoderInv, InvSlots, Empty
  <2>7. f <= Taken => InWorker(f) \/ InSlot(f)
    BY <2>1 DEF EncoderInv, InvPlaces
  <2> QED
    BY <2>1, <2>4, <2>5, <2>6, <2>7
<1> QED
  BY <1>1, EncoderInvariance, PTL
===============================================================================
