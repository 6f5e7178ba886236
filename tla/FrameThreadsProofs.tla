--------------------------- MODULE FrameThreadsProofs ---------------------------
(***************************************************************************)
(* Proofs about FrameThreads, for any number of threads, any kinds of      *)
(* codecs, any number of packets, flushes and spurious wakeups: ThreadsInv *)
(* is inductive; the order of the frames, that none is held back and that  *)
(* the context is passed on follow from it.                                *)
(***************************************************************************)
EXTENDS FrameThreads, SequenceTheorems, TLAPS

-------------------------------------------------------------------------------
(***************************************************************************)
(* The ring                                                                *)
(***************************************************************************)
\* The number of threads; the first of them.
LEMMA NNat == N \in Nat /\ N >= 2 /\ 0 \in Workers /\ N \notin Workers
BY NAssumption DEF Workers

\* The thread after the last is the first.
LEMMA NextOf ==
  ASSUME NEW w \in Workers
  PROVE  (w + 1) % N = IF w + 1 = N THEN 0 ELSE w + 1
BY NAssumption DEF Workers

\* What a step of a worker leaves alone: all that is the client's.
ClientIsLeft ==
  UNCHANGED <<codec, main, avpkt, finished, i, why, created, fctx, pkt, out, drained, epoch, torn,
              Count>>

\* Then the ring stays as it is.
LEMMA RingStays ==
  ASSUME ClientIsLeft
  PROVE  /\ Newest' = Newest /\ Held' = Held /\ Taken' = Taken /\ Limit' = Limit
         /\ Handing' <=> Handing
         /\ Ending' <=> Ending
         /\ HasSubmitted' <=> HasSubmitted
         /\ \A w : Age(w)' = Age(w)
         /\ TypeClient => TypeClient'
         /\ InvRing => InvRing'
<1> USE DEF ClientIsLeft, fctx
<1>1. (Handing' <=> Handing) /\ (Ending' <=> Ending) /\ (HasSubmitted' <=> HasSubmitted)
  BY DEF Handing, Ending, HasSubmitted
<1>2. Newest' = Newest
  BY <1>1 DEF Newest
<1>3. Held' = Held
  BY <1>1, <1>2 DEF Held, Steps
<1>4. Taken' = Taken /\ Limit' = Limit
  BY <1>3 DEF Taken, Limit
<1>5. \A w : Age(w)' = Age(w)
  BY <1>2 DEF Age, Steps
<1>6. TypeClient => TypeClient'
  BY DEF TypeClient, Workers
<1>7. InvRing => InvRing'
  BY <1>1, <1>3, <1>5 DEF InvRing
<1> QED
  BY <1>1, <1>2, <1>3, <1>4, <1>5, <1>6, <1>7

\* The types of what follows.
LEMMA Types ==
  ASSUME ThreadsInv
  PROVE  /\ Count \in Nat /\ epoch \in 0 .. Count /\ next_finished \in Workers
         /\ Newest \in Workers /\ Held \in 0 .. N
         /\ \A w \in Workers : Age(w) \in 0 .. (N - 1) /\ pkt[w] \in 0 .. Count /\ frame[w] \in 0 .. Count
<1>1. Count \in Nat
  BY LenProperties DEF ThreadsInv, TypeOK, TypeWorkers, Count
<1>2. next_decoding \in 0 .. N /\ next_finished \in Workers
      /\ (Handing => next_decoding \in 0 .. (N - 1)) /\ (~HasSubmitted => next_decoding \in 0 .. (N - 1))
  BY NNat DEF ThreadsInv, TypeOK, TypeClient, InvRing, Handing
<1>3. Newest \in Workers
  BY <1>2, NNat DEF Newest, Workers
<1>4. Held \in 0 .. N
  BY <1>2, <1>3, NNat DEF Held, Steps, Workers
<1>5. \A w \in Workers : Age(w) \in 0 .. (N - 1)
  BY <1>3, NNat DEF Age, Steps, Workers
<1>6. \A w \in Workers : pkt[w] \in 0 .. Count /\ frame[w] \in 0 .. Count
  BY DEF ThreadsInv, TypeOK, TypeWorkers
<1>7. epoch \in 0 .. Count
  BY DEF ThreadsInv, InvRing
<1> QED
  BY <1>1, <1>2, <1>3, <1>4, <1>5, <1>6, <1>7

\* A thread that is busy has a packet of its own, one of those held.
LEMMA Busy ==
  ASSUME ThreadsInv, NEW w \in Workers, state[w] # "INPUT_READY"
  PROVE  /\ pkt[w] = Count - Age(w) /\ pkt[w] > epoch /\ pkt[w] > Taken /\ pkt[w] \in 1 .. Count
         /\ outcome[pkt[w]] = "pending" /\ ~drained
         /\ \A v \in Workers : v # w => pkt[v] # pkt[w]
<1>1. Age(w) < Held /\ outcome[pkt[w]] = "pending"
  BY DEF ThreadsInv, InvFrames
<1>2. /\ pkt[w] = Count - Age(w) /\ pkt[w] > epoch /\ pkt[w] > Taken /\ pkt[w] \in 1 .. Count
  BY <1>1, Types, NNat DEF ThreadsInv, InvRing, Taken
<1>3. ~drained
  BY <1>1, <1>2, Types DEF ThreadsInv, InvDrained
<1>4. ASSUME NEW v \in Workers, v # w PROVE pkt[v] # pkt[w]
  <2>1. Age(v) # Age(w)
    BY <1>4, Types, NNat DEF Age, Steps, Workers
  <2>2. pkt[v] = Count - Age(v) \/ pkt[v] <= epoch
    BY DEF ThreadsInv, InvRing
  <2> QED
    BY <1>2, <2>1, <2>2, Types
<1> QED
  BY <1>1, <1>2, <1>3, <1>4

-------------------------------------------------------------------------------
(***************************************************************************)
(* The steps of the workers                                                *)
(***************************************************************************)
\* What the client knows of the frames stays so while no outcome changes.
LEMMA OutStays ==
  ASSUME ThreadsInv, ClientIsLeft, UNCHANGED outcome
  PROVE  InvOut' /\ InvDrained'
<1>1. Taken' = Taken
  BY RingStays
<1>2. InvOut'
  BY <1>1 DEF ThreadsInv, InvOut, ClientIsLeft, Range
<1>3. InvDrained'
  BY DEF ThreadsInv, InvDrained, ClientIsLeft, Range
<1> QED
  BY <1>2, <1>3

\* Setups do not overlap, because only the newest packet is in its setup.
LEMMA OneSetup == ASSUME InvSetup' PROVE OneSetupAtATime'
BY DEF InvSetup, OneSetupAtATime

\* A busy worker goes from one place to another; one that is not, sleeps or ends.
Places == {"idle", "start", "parse", "format", "setup", "buffer", "buffered", "work", "report", "end"}

MayGo(w, q) ==
  /\ wpc[w] \notin {"none", "exit"}
  /\ IF state[w] = "INPUT_READY" THEN q = "idle" \/ (q = "exit" /\ die) ELSE q \in Places
  /\ state[w] \in {"GET_FORMAT", "GET_BUFFER"} => q \in {"format", "buffer"}
  /\ main = "prev" => w # next_decoding

LEMMA Moves ==
  ASSUME ThreadsInv, ClientIsLeft, UNCHANGED <<state, frame, outcome>>, TypeWorkers',
         NEW w \in Workers, NEW q, MayGo(w, q), wpc' = [wpc EXCEPT ![w] = q],
         \A v \in Workers : ctx'[v].last = ctx[v].last
  PROVE  ThreadsInv'
<1>1. \A v \in Workers : wpc'[v] = IF v = w THEN q ELSE wpc[v]
  BY DEF ThreadsInv, TypeOK, TypeWorkers
<1>2. wpc[w] # "none" /\ q # "none"
  BY DEF MayGo, Places
<1>3. InvThreads' /\ NoWorkerAfterFree'
  <2>1. \A v \in Workers : wpc'[v] = "none" <=> v >= created
    BY <1>1, <1>2 DEF ThreadsInv, InvThreads
  <2>2. \A v \in Workers : wpc[v] \in {"none", "exit"} => wpc'[v] \in {"none", "exit"}
    BY <1>1 DEF MayGo
  <2> QED
    BY <2>1, <2>2, RingStays DEF ThreadsInv, InvThreads, ClientIsLeft, fctx, Ending, NoWorkerAfterFree
<1>4. InvWorkers'
  <2>1. ASSUME NEW v \in Workers
        PROVE  /\ wpc'[v] = "exit" => die'
               /\ IF state'[v] = "INPUT_READY" THEN wpc'[v] \in {"none", "idle", "loop", "exit"}
                                              ELSE wpc'[v] \notin {"none", "loop", "exit"}
               /\ state'[v] \in {"GET_FORMAT", "GET_BUFFER"} => wpc'[v] \in {"format", "buffer"}
    BY <1>1 DEF ThreadsInv, InvWorkers, Places, MayGo, ClientIsLeft, fctx
  <2>2. main' = "prev" => wpc'[next_decoding'] = "idle"
    BY <1>1, NNat DEF ThreadsInv, InvWorkers, ClientIsLeft, fctx, TypeOK, TypeClient, Workers, MayGo
  <2> QED
    BY <2>1, <2>2 DEF InvWorkers
<1>5. InvFrames'
  BY RingStays DEF ThreadsInv, InvFrames, ClientIsLeft, fctx, Steps
<1>6. \A v : InSetup(v)' <=> InSetup(v)
  BY DEF InSetup
<1>7. InvSetup'
  BY <1>6, RingStays DEF ThreadsInv, InvSetup, ClientIsLeft, fctx
<1>8. InvContext'
  <2>1. ctx'[0].last = ctx[0].last
    BY NNat
  <2> QED
    BY <1>6, <2>1, RingStays DEF ThreadsInv, InvContext, ClientIsLeft, fctx
<1> QED
  BY <1>3, <1>4, <1>5, <1>7, <1>8, RingStays, OutStays, OneSetup DEF ThreadsInv, TypeOK

\* Where a thread sleeps does not matter to what is safe.
LEMMA OnlySleeps ==
  ASSUME ThreadsInv,
         UNCHANGED <<codec, call, fctx, state, pkt, frame, result, thread, ctx, buffer_mutex, frames,
                     outcome, history>>
  PROVE  ThreadsInv'
<1>1. ClientIsLeft /\ UNCHANGED <<state, frame, outcome>>
  BY DEF ClientIsLeft, call, fctx, history, Count
<1>2. TypeWorkers'
  BY DEF ThreadsInv, TypeOK, TypeWorkers, Count, frames, thread
<1>3. InvThreads' /\ InvWorkers' /\ NoWorkerAfterFree'
  BY RingStays, <1>1 DEF ThreadsInv, InvThreads, InvWorkers, NoWorkerAfterFree, ClientIsLeft, fctx, thread, Ending
<1>4. InvFrames'
  BY RingStays, <1>1 DEF ThreadsInv, InvFrames, ClientIsLeft, fctx, Steps
<1>5. \A v : InSetup(v)' <=> InSetup(v)
  BY DEF InSetup
<1>6. InvSetup'
  BY <1>1, <1>5, RingStays DEF ThreadsInv, InvSetup, ClientIsLeft, fctx
<1>7. InvContext'
  BY <1>1, <1>5, RingStays DEF ThreadsInv, InvContext, ClientIsLeft, fctx
<1> QED
  BY <1>1, <1>2, <1>3, <1>4, <1>6, <1>7, RingStays, OutStays, OneSetup DEF ThreadsInv, TypeOK

LEMMA FormatAnsweredKeeps ==
  ASSUME ThreadsInv, NEW w \in Workers, FormatAnswered(w)
  PROVE  ThreadsInv'
<1> USE DEF FormatAnswered
<1>1. ClientIsLeft /\ UNCHANGED <<state, frame, outcome>>
  BY DEF ClientIsLeft, call, fctx, history, Count
<1>3. TypeWorkers'
  BY DEF ThreadsInv, TypeOK, TypeWorkers, Count, frames, thread
<1>4. \A v \in Workers : ctx'[v].last = ctx[v].last
  OBVIOUS
<1>5. wpc' = [wpc EXCEPT ![w] = "setup"] /\ MayGo(w, "setup")
  BY DEF MayGo, Places, ThreadsInv, InvWorkers
<1> HIDE DEF FormatAnswered
<1> QED
  BY <1>1, <1>3, <1>4, <1>5, Moves

LEMMA NoFinishKeeps ==
  ASSUME ThreadsInv, NEW w \in Workers, NoFinish(w)
  PROVE  ThreadsInv'
<1> USE DEF NoFinish
<1>1. ClientIsLeft /\ UNCHANGED <<state, frame, outcome>>
  BY DEF ClientIsLeft, call, fctx, history, Count
<1>3. TypeWorkers'
  BY DEF ThreadsInv, TypeOK, TypeWorkers, Count, frames, thread
<1>4. \A v \in Workers : ctx'[v].last = ctx[v].last
  OBVIOUS
<1>5. PICK q : wpc' = [wpc EXCEPT ![w] = q] /\ MayGo(w, q)
  <2>1. \A q \in {"work", "end"} : MayGo(w, q)
    BY DEF MayGo, Places, ThreadsInv, InvWorkers
  <2> QED
    BY <2>1
<1> HIDE DEF NoFinish
<1> QED
  BY <1>1, <1>3, <1>4, <1>5, Moves

LEMMA AwaitProgressKeeps ==
  ASSUME ThreadsInv, NEW w \in Workers, AwaitProgress(w)
  PROVE  ThreadsInv'
<1> USE DEF AwaitProgress
<1>a. CASE UNCHANGED wpc
  BY <1>a, OnlySleeps DEF thread
<1>0. SUFFICES ASSUME wpc' = [wpc EXCEPT ![w] = "report"] PROVE ThreadsInv'
  BY <1>a
<1>1. ClientIsLeft /\ UNCHANGED <<state, frame, outcome>>
  BY DEF ClientIsLeft, call, fctx, history, Count
<1>3. TypeWorkers'
  BY <1>0 DEF ThreadsInv, TypeOK, TypeWorkers, Count, frames
<1>4. \A v \in Workers : ctx'[v].last = ctx[v].last
  OBVIOUS
<1>5. wpc' = [wpc EXCEPT ![w] = "report"] /\ MayGo(w, "report")
  BY <1>0 DEF MayGo, Places, ThreadsInv, InvWorkers
<1> HIDE DEF AwaitProgress
<1> QED
  BY <1>1, <1>3, <1>4, <1>5, Moves

LEMMA ReportProgressKeeps ==
  ASSUME ThreadsInv, NEW w \in Workers, ReportProgress(w)
  PROVE  ThreadsInv'
<1> USE DEF ReportProgress
<1>1. ClientIsLeft /\ UNCHANGED <<state, frame, outcome>>
  BY DEF ClientIsLeft, call, fctx, history, Count
<1>3. TypeWorkers'
  <2>1. pkt[w] \in 1 .. Count
    BY Busy DEF ThreadsInv, InvWorkers
  <2> QED
    BY <2>1 DEF ThreadsInv, TypeOK, TypeWorkers, Count
<1>4. \A v \in Workers : ctx'[v].last = ctx[v].last
  OBVIOUS
<1>5. wpc' = [wpc EXCEPT ![w] = "end"] /\ MayGo(w, "end")
  BY DEF MayGo, Places, ThreadsInv, InvWorkers
<1> HIDE DEF ReportProgress
<1> QED
  BY <1>1, <1>3, <1>4, <1>5, Moves

\* A frame is obtained, or not; it is the one the packets after refer to.
LEMMA Obtains ==
  ASSUME ThreadsInv, NEW w \in Workers, NEW ok \in BOOLEAN, Obtain(w, ok)
  PROVE  /\ obtained' \in [Workers -> BOOLEAN] /\ ref' \in [Workers -> 0 .. Count]
         /\ ctx' \in [Workers -> [last : 0 .. Count, ref : 0 .. Count]]
         /\ \A v \in Workers : ctx'[v].last = ctx[v].last
<1> USE DEF Obtain
<1>1. /\ obtained \in [Workers -> BOOLEAN] /\ ref \in [Workers -> 0 .. Count]
      /\ ctx \in [Workers -> [last : 0 .. Count, ref : 0 .. Count]] /\ pkt[w] \in 0 .. Count
      /\ Count \in Nat
  BY Types DEF ThreadsInv, TypeOK, TypeWorkers
<1>2. obtained' \in [Workers -> BOOLEAN]
  BY <1>1
<1>3. ref' \in [Workers -> 0 .. Count]
  <2>1. 0 \in 0 .. Count /\ ctx[w].ref \in 0 .. Count
    BY <1>1
  <2> QED
    BY <1>1, <2>1
<1>4. ctx' \in [Workers -> [last : 0 .. Count, ref : 0 .. Count]]
  BY <1>1
<1>5. \A v \in Workers : ctx'[v].last = ctx[v].last
  BY <1>1
<1> QED
  BY <1>2, <1>3, <1>4, <1>5

LEMMA BufferAnsweredKeeps ==
  ASSUME ThreadsInv, NEW w \in Workers, BufferAnswered(w)
  PROVE  ThreadsInv'
<1> USE DEF BufferAnswered
<1>0. PICK ok \in BOOLEAN : Obtain(w, ok)
  OBVIOUS
<1>a. /\ obtained' \in [Workers -> BOOLEAN] /\ ref' \in [Workers -> 0 .. Count]
      /\ ctx' \in [Workers -> [last : 0 .. Count, ref : 0 .. Count]]
      /\ \A v \in Workers : ctx'[v].last = ctx[v].last
  BY <1>0, Obtains
<1>1. ClientIsLeft /\ UNCHANGED <<state, frame, outcome>>
  BY DEF ClientIsLeft, call, fctx, history, Count
<1>3. TypeWorkers'
  BY <1>a DEF ThreadsInv, TypeOK, TypeWorkers, Count, frames
<1>4. \A v \in Workers : ctx'[v].last = ctx[v].last
  BY <1>a
<1>5. wpc' = [wpc EXCEPT ![w] = "buffered"] /\ MayGo(w, "buffered")
  BY DEF MayGo, Places, ThreadsInv, InvWorkers
<1> HIDE DEF BufferAnswered
<1> QED
  BY <1>1, <1>3, <1>4, <1>5, Moves

LEMMA GetBufferKeeps ==
  ASSUME ThreadsInv, NEW w \in Workers, GetBuffer(w)
  PROVE  ThreadsInv'
<1> USE DEF GetBuffer
<1>0. PICK ok \in BOOLEAN : Obtain(w, ok)
  OBVIOUS
<1>a. /\ obtained' \in [Workers -> BOOLEAN] /\ ref' \in [Workers -> 0 .. Count]
      /\ ctx' \in [Workers -> [last : 0 .. Count, ref : 0 .. Count]]
      /\ \A v \in Workers : ctx'[v].last = ctx[v].last
  BY <1>0, Obtains
<1>1. ClientIsLeft /\ UNCHANGED <<state, frame, outcome>>
  BY DEF ClientIsLeft, call, fctx, history, Count
<1>3. TypeWorkers'
  BY <1>a DEF ThreadsInv, TypeOK, TypeWorkers, Count, frames
<1>4. \A v \in Workers : ctx'[v].last = ctx[v].last
  BY <1>a
<1>5. wpc' = [wpc EXCEPT ![w] = "buffered"] /\ MayGo(w, "buffered")
  BY DEF MayGo, Places, ThreadsInv, InvWorkers
<1> HIDE DEF GetBuffer
<1> QED
  BY <1>1, <1>3, <1>4, <1>5, Moves

LEMMA WaitForInputKeeps ==
  ASSUME ThreadsInv, NEW w \in Workers, WaitForInput(w)
  PROVE  ThreadsInv'
<1> USE DEF WaitForInput
<1>1. ClientIsLeft /\ UNCHANGED <<state, outcome, ctx>>
  BY DEF ClientIsLeft, call, fctx, history, Count
<1>2. UNCHANGED frame
  <2>1. state[w] # "INPUT_READY" => frame[w] = 0
    BY DEF ThreadsInv, InvFrames
  <2> QED
    BY <2>1 DEF ThreadsInv, TypeOK, TypeWorkers
<1>3. PICK q : wpc' = [wpc EXCEPT ![w] = q] /\ MayGo(w, q)
  <2>1. state[w] = "INPUT_READY" => MayGo(w, "idle")
    BY DEF MayGo, MainHolds, ThreadsInv, InvWorkers
  <2>2. die => MayGo(w, "exit")
    BY DEF MayGo, MainHolds, ThreadsInv, InvThreads
  <2>3. \A q \in {"start", "parse"} : state[w] # "INPUT_READY" => MayGo(w, q)
    BY DEF MayGo, Places, MainHolds, ThreadsInv, InvWorkers
  <2> QED
    BY <2>1, <2>2, <2>3
<1>4. TypeWorkers'
  <2>1. q \in Places \cup {"exit"}
    BY <1>3 DEF MayGo, Places
  <2> QED
    BY <1>1, <1>2, <1>3, <2>1 DEF ThreadsInv, TypeOK, TypeWorkers, Count, frames, Places
<1> HIDE DEF WaitForInput
<1> QED
  BY <1>1, <1>2, <1>3, <1>4, Moves

LEMMA StillWaitingKeeps ==
  ASSUME ThreadsInv, NEW w \in Workers, StillWaiting(w)
  PROVE  ThreadsInv'
BY OnlySleeps DEF StillWaiting

\* A setup is finished: the context is that of the packet, and others may follow.
LEMMA SetupFinishes ==
  ASSUME ThreadsInv, ClientIsLeft, UNCHANGED <<frame, outcome>>, TypeWorkers',
         NEW w \in Workers, SetupFinished(w), state[w] # "INPUT_READY",
         NEW q \in Places, wpc' = [wpc EXCEPT ![w] = q], main = "prev" => w # next_decoding
  PROVE  ThreadsInv'
<1>1. \A v \in Workers : /\ wpc'[v] = IF v = w THEN q ELSE wpc[v]
                         /\ state'[v] = IF v = w THEN "SETUP_FINISHED" ELSE state[v]
                         /\ ctx'[v].last = IF v = w THEN pkt[w] ELSE ctx[v].last
  BY DEF ThreadsInv, TypeOK, TypeWorkers, SetupFinished
<1>2. created = N /\ ~die /\ main \notin {"join", "joining", "freed"} /\ wpc[w] \notin {"none", "exit"}
  BY NNat DEF ThreadsInv, TypeOK, TypeClient, InvThreads, InvWorkers
<1>3. InvThreads' /\ NoWorkerAfterFree'
  <2>1. \A v \in Workers : wpc'[v] = "none" <=> v >= created
    BY <1>1, <1>2 DEF ThreadsInv, InvThreads, Places
  <2>2. main = "park" => i <= Limit /\ \A v \in Workers : v < i => state'[v] = "INPUT_READY" /\ frame'[v] = 0
    BY <1>1 DEF ThreadsInv, InvThreads
  <2> QED
    BY <1>2, <2>1, <2>2, RingStays DEF ThreadsInv, InvThreads, ClientIsLeft, fctx, Ending, NoWorkerAfterFree
<1>4. InvWorkers'
  <2>1. ASSUME NEW v \in Workers
        PROVE  /\ wpc'[v] = "exit" => die'
               /\ IF state'[v] = "INPUT_READY" THEN wpc'[v] \in {"none", "idle", "loop", "exit"}
                                              ELSE wpc'[v] \notin {"none", "loop", "exit"}
               /\ state'[v] \in {"GET_FORMAT", "GET_BUFFER"} => wpc'[v] \in {"format", "buffer"}
    BY <1>1 DEF ThreadsInv, InvWorkers, Places, ClientIsLeft, fctx
  <2>2. main' = "prev" => wpc'[next_decoding'] = "idle"
    BY <1>1, NNat DEF ThreadsInv, InvWorkers, ClientIsLeft, fctx, TypeOK, TypeClient, Workers
  <2> QED
    BY <2>1, <2>2 DEF InvWorkers
<1>5. InvFrames'
  BY <1>1, RingStays DEF ThreadsInv, InvFrames, ClientIsLeft, fctx, Steps
<1>6. \A v \in Workers : InSetup(v)' <=> (InSetup(v) /\ v # w)
  BY <1>1 DEF InSetup
<1>7. InvSetup'
  BY <1>1, <1>6, RingStays DEF ThreadsInv, InvSetup, ClientIsLeft, fctx
<1>8. InvContext'
  <2>1. ASSUME NEW v \in Workers
        PROVE  /\ pkt'[v] > epoch' /\ ~InSetup(v)' => ctx'[v].last = pkt'[v]
               /\ codec'.update /\ ~torn' /\ InSetup(v)' => ctx'[v].last = pkt'[v] - 1
    BY <1>1, <1>6 DEF ThreadsInv, InvContext, ClientIsLeft
  <2>2. ~Handing => prev_thread # None
    BY Busy, Types DEF ThreadsInv, InvSetup
  <2> QED
    BY <2>1, <2>2, RingStays DEF InvContext, ClientIsLeft, fctx
<1> QED
  BY <1>3, <1>4, <1>5, <1>7, <1>8, RingStays, OutStays, OneSetup DEF ThreadsInv, TypeOK

\* The types of what ff_thread_finish_setup() changes.
LEMMA FinishTypes ==
  ASSUME ThreadsInv, NEW w \in Workers, SetupFinished(w)
  PROVE  /\ state' \in [Workers -> {"INPUT_READY", "SETTING_UP", "GET_BUFFER", "GET_FORMAT",
                                    "SETUP_FINISHED"}]
         /\ ctx' \in [Workers -> [last : 0 .. Count, ref : 0 .. Count]]
<1>1. pkt[w] \in 0 .. Count
  BY Types
<1>2. ctx \in [Workers -> [last : 0 .. Count, ref : 0 .. Count]]
  BY DEF ThreadsInv, TypeOK, TypeWorkers
<1>3. ctx' \in [Workers -> [last : 0 .. Count, ref : 0 .. Count]]
  BY <1>1, <1>2 DEF SetupFinished
<1> QED
  BY <1>3 DEF SetupFinished, ThreadsInv, TypeOK, TypeWorkers

LEMMA EarlyFinishKeeps ==
  ASSUME ThreadsInv, NEW w \in Workers, EarlyFinish(w)
  PROVE  ThreadsInv'
<1> USE DEF EarlyFinish
<1>1. /\ ClientIsLeft /\ UNCHANGED <<frame, outcome>> /\ SetupFinished(w)
      /\ state[w] # "INPUT_READY" /\ (main = "prev" => w # next_decoding)
  BY DEF ClientIsLeft, call, fctx, history, Count, ThreadsInv, InvWorkers
<1>2. PICK q \in {"parse"} : wpc' = [wpc EXCEPT ![w] = q]
  BY DEF ThreadsInv, TypeOK, TypeWorkers, thread
<1>3. TypeWorkers'
  BY <1>1, <1>2, FinishTypes DEF ThreadsInv, TypeOK, TypeWorkers, Count, frames, thread
<1> HIDE DEF EarlyFinish
<1> QED
  BY <1>1, <1>2, <1>3, SetupFinishes DEF Places

LEMMA FinishSetupKeeps ==
  ASSUME ThreadsInv, NEW w \in Workers, FinishSetup(w)
  PROVE  ThreadsInv'
<1> USE DEF FinishSetup
<1>1. /\ ClientIsLeft /\ UNCHANGED <<frame, outcome>> /\ SetupFinished(w)
      /\ state[w] # "INPUT_READY" /\ (main = "prev" => w # next_decoding)
  BY DEF ClientIsLeft, call, fctx, history, Count, ThreadsInv, InvWorkers
<1>2. PICK q \in {"work", "end"} : wpc' = [wpc EXCEPT ![w] = q]
  BY DEF ThreadsInv, TypeOK, TypeWorkers, thread
<1>3. TypeWorkers'
  BY <1>1, <1>2, FinishTypes DEF ThreadsInv, TypeOK, TypeWorkers, Count, frames, thread
<1> HIDE DEF FinishSetup
<1> QED
  BY <1>1, <1>2, <1>3, SetupFinishes DEF Places

LEMMA LateFinishKeeps ==
  ASSUME ThreadsInv, NEW w \in Workers, LateFinish(w)
  PROVE  ThreadsInv'
<1> USE DEF LateFinish
<1>1. /\ ClientIsLeft /\ UNCHANGED <<frame, outcome>> /\ SetupFinished(w)
      /\ state[w] # "INPUT_READY" /\ (main = "prev" => w # next_decoding)
  BY DEF ClientIsLeft, call, fctx, history, Count, ThreadsInv, InvWorkers
<1>2. PICK q \in {"end"} : wpc' = [wpc EXCEPT ![w] = q]
  BY DEF ThreadsInv, TypeOK, TypeWorkers, thread
<1>3. TypeWorkers'
  BY <1>1, <1>2, FinishTypes DEF ThreadsInv, TypeOK, TypeWorkers, Count, frames, thread
<1> HIDE DEF LateFinish
<1> QED
  BY <1>1, <1>2, <1>3, SetupFinishes DEF Places

\* The client is asked; it is the call that submitted this packet that answers.
LEMMA Requests ==
  ASSUME ThreadsInv, ClientIsLeft, UNCHANGED <<frame, outcome, ctx>>, TypeWorkers',
         NEW w \in Workers, NEW st \in {"GET_FORMAT", "GET_BUFFER"}, Request(w, st),
         NEW q \in {"format", "buffer"}, wpc' = [wpc EXCEPT ![w] = q], main = "prev" => w # next_decoding
  PROVE  ThreadsInv'
<1>1. \A v \in Workers : /\ wpc'[v] = IF v = w THEN q ELSE wpc[v]
                         /\ state'[v] = IF v = w THEN st ELSE state[v]
  BY DEF ThreadsInv, TypeOK, TypeWorkers, Request
<1>2. /\ created = N /\ ~die /\ main \notin {"join", "joining", "freed"} /\ wpc[w] \notin {"none", "exit"}
      /\ state[w] = "SETTING_UP" /\ codec.callbacks
  BY NNat DEF ThreadsInv, TypeOK, TypeClient, InvThreads, InvWorkers, Request
<1>3. InvThreads' /\ NoWorkerAfterFree'
  <2>1. \A v \in Workers : wpc'[v] = "none" <=> v >= created
    BY <1>1, <1>2 DEF ThreadsInv, InvThreads
  <2>2. main = "park" => i <= Limit /\ \A v \in Workers : v < i => state'[v] = "INPUT_READY" /\ frame'[v] = 0
    BY <1>1, <1>2 DEF ThreadsInv, InvThreads
  <2> QED
    BY <1>2, <2>1, <2>2, RingStays DEF ThreadsInv, InvThreads, ClientIsLeft, fctx, Ending, NoWorkerAfterFree
<1>4. InvWorkers'
  <2>1. ASSUME NEW v \in Workers
        PROVE  /\ wpc'[v] = "exit" => die'
               /\ IF state'[v] = "INPUT_READY" THEN wpc'[v] \in {"none", "idle", "loop", "exit"}
                                              ELSE wpc'[v] \notin {"none", "loop", "exit"}
               /\ state'[v] \in {"GET_FORMAT", "GET_BUFFER"} => wpc'[v] \in {"format", "buffer"}
    BY <1>1 DEF ThreadsInv, InvWorkers, ClientIsLeft, fctx
  <2>2. main' = "prev" => wpc'[next_decoding'] = "idle"
    BY <1>1, NNat DEF ThreadsInv, InvWorkers, ClientIsLeft, fctx, TypeOK, TypeClient, Workers
  <2> QED
    BY <2>1, <2>2 DEF InvWorkers
<1>5. InvFrames'
  BY <1>1, <1>2, RingStays DEF ThreadsInv, InvFrames, ClientIsLeft, fctx, Steps
<1>6. \A v \in Workers : InSetup(v)' <=> InSetup(v)
  BY <1>1, <1>2 DEF InSetup
<1>7. InvSetup'
  BY <1>1, <1>2, <1>6, RingStays DEF ThreadsInv, InvSetup, ClientIsLeft, fctx
<1>8. InvContext'
  BY <1>6, RingStays DEF ThreadsInv, InvContext, ClientIsLeft, fctx
<1> QED
  BY <1>3, <1>4, <1>5, <1>7, <1>8, RingStays, OutStays, OneSetup DEF ThreadsInv, TypeOK

LEMMA AskForFormatKeeps ==
  ASSUME ThreadsInv, NEW w \in Workers, AskForFormat(w)
  PROVE  ThreadsInv'
<1> USE DEF AskForFormat
<1>1. /\ ClientIsLeft /\ UNCHANGED <<frame, outcome, ctx>> /\ (main = "prev" => w # next_decoding)
      /\ Request(w, "GET_FORMAT") /\ wpc' = [wpc EXCEPT ![w] = "format"]
  BY DEF ClientIsLeft, call, fctx, history, Count, ThreadsInv, InvWorkers
<1>2. TypeWorkers'
  BY DEF Request, ThreadsInv, TypeOK, TypeWorkers, Count, frames
<1> HIDE DEF AskForFormat
<1> QED
  BY <1>1, <1>2, Requests

LEMMA AskForBufferKeeps ==
  ASSUME ThreadsInv, NEW w \in Workers, AskForBuffer(w)
  PROVE  ThreadsInv'
<1> USE DEF AskForBuffer
<1>1. /\ ClientIsLeft /\ UNCHANGED <<frame, outcome, ctx>> /\ (main = "prev" => w # next_decoding)
      /\ Request(w, "GET_BUFFER") /\ wpc' = [wpc EXCEPT ![w] = "buffer"]
  BY DEF ClientIsLeft, call, fctx, history, Count, ThreadsInv, InvWorkers
<1>2. TypeWorkers'
  BY DEF Request, ThreadsInv, TypeOK, TypeWorkers, Count, frames
<1> HIDE DEF AskForBuffer
<1> QED
  BY <1>1, <1>2, Requests

\* A packet is decoded: its outcome is known, and its frame waits to be taken.
LEMMA OutputReadyKeeps ==
  ASSUME ThreadsInv, NEW w \in Workers, OutputReady(w)
  PROVE  ThreadsInv'
<1> DEFINE n == pkt[w]
<1>1. PICK o \in {"frame", "none", "error"} :
        /\ outcome' = [outcome EXCEPT ![n] = o]
        /\ result' = [result EXCEPT ![w] = IF o = "error" THEN "error" ELSE "ok"]
        /\ frame' = [frame EXCEPT ![w] = IF o = "frame" THEN n ELSE 0]
  BY DEF OutputReady, Decoded
<1>2. /\ wpc[w] = "end" /\ state[w] # "SETTING_UP"
      /\ state' = [state EXCEPT ![w] = "INPUT_READY"] /\ wpc' = [wpc EXCEPT ![w] = "loop"]
      /\ ref' = [ref EXCEPT ![w] = 0] /\ obtained' = [obtained EXCEPT ![w] = FALSE]
      /\ UNCHANGED <<codec, call, fctx, pkt, ctx, buffer_mutex, frames, history>>
  BY DEF OutputReady
<1>3. state[w] # "INPUT_READY" /\ ~InSetup(w)
  BY <1>2 DEF ThreadsInv, InvWorkers, InSetup
<1>4. /\ n \in 1 .. Count /\ n > epoch /\ n > Taken /\ outcome[n] = "pending" /\ ~drained
      /\ Age(w) < Held /\ (\A v \in Workers : v # w => pkt[v] # n)
  BY <1>3, Busy DEF ThreadsInv, InvFrames
<1>5. outcome \in Seq({"pending", "frame", "none", "error"}) /\ Count \in Nat /\ DOMAIN outcome = 1 .. Count
  BY Types, LenProperties DEF ThreadsInv, TypeOK, TypeWorkers, Count
<1>6. /\ outcome' \in Seq({"pending", "frame", "none", "error"}) /\ Count' = Count
      /\ \A k \in 1 .. Count : outcome'[k] = IF k = n THEN o ELSE outcome[k]
  <2>1. outcome' \in Seq({"pending", "frame", "none", "error"}) /\ Len(outcome') = Len(outcome)
    BY <1>1, <1>4, <1>5, ExceptSeq DEF Count
  <2>2. \A k \in DOMAIN outcome : outcome'[k] = IF k = n THEN o ELSE outcome[k]
    BY <1>1
  <2> QED
    BY <1>5, <2>1, <2>2 DEF Count
<1> HIDE DEF n
<1>7. ClientIsLeft
  BY <1>2, <1>6 DEF ClientIsLeft, call, fctx, history
<1>8. \A v \in Workers : /\ wpc'[v] = IF v = w THEN "loop" ELSE wpc[v]
                         /\ state'[v] = IF v = w THEN "INPUT_READY" ELSE state[v]
                         /\ frame'[v] = IF v = w THEN (IF o = "frame" THEN n ELSE 0) ELSE frame[v]
  BY <1>1, <1>2 DEF ThreadsInv, TypeOK, TypeWorkers
<1>9. TypeWorkers'
  <2>1. frame' \in [Workers -> 0 .. Count]
    <3>1. frame \in [Workers -> 0 .. Count] /\ 0 \in 0 .. Count /\ n \in 0 .. Count
      BY <1>4, <1>5 DEF ThreadsInv, TypeOK, TypeWorkers
    <3> QED
      BY <1>1, <3>1
  <2>2. result' \in [Workers -> {"ok", "error"}]
    BY <1>1 DEF ThreadsInv, TypeOK, TypeWorkers
  <2>3. ref' \in [Workers -> 0 .. Count]
    <3>1. ref \in [Workers -> 0 .. Count] /\ 0 \in 0 .. Count
      BY <1>5 DEF ThreadsInv, TypeOK, TypeWorkers
    <3> QED
      BY <1>2, <3>1
  <2>4. obtained' \in [Workers -> BOOLEAN]
    BY <1>2 DEF ThreadsInv, TypeOK, TypeWorkers
  <2> QED
    BY <1>2, <1>6, <2>1, <2>2, <2>3, <2>4 DEF ThreadsInv, TypeOK, TypeWorkers, frames
<1>10. created = N /\ ~die /\ main \notin {"join", "joining", "freed"}
  BY <1>3, NNat DEF ThreadsInv, TypeOK, TypeClient, InvThreads
<1>11. InvThreads' /\ NoWorkerAfterFree'
  <2>1. \A v \in Workers : wpc'[v] = "none" <=> v >= created
    BY <1>2, <1>8 DEF ThreadsInv, InvThreads
  <2>2. main = "park" => i <= Limit /\ \A v \in Workers : v < i => state'[v] = "INPUT_READY" /\ frame'[v] = 0
    BY <1>3, <1>8 DEF ThreadsInv, InvThreads
  <2> QED
    BY <1>7, <1>10, <2>1, <2>2, NNat, RingStays DEF ThreadsInv, InvThreads, ClientIsLeft, fctx, Ending, NoWorkerAfterFree
<1>12. InvWorkers'
  <2>1. ASSUME NEW v \in Workers
        PROVE  /\ wpc'[v] = "exit" => die'
               /\ IF state'[v] = "INPUT_READY" THEN wpc'[v] \in {"none", "idle", "loop", "exit"}
                                              ELSE wpc'[v] \notin {"none", "loop", "exit"}
               /\ state'[v] \in {"GET_FORMAT", "GET_BUFFER"} => wpc'[v] \in {"format", "buffer"}
    BY <1>7, <1>8 DEF ThreadsInv, InvWorkers, ClientIsLeft, fctx
  <2>2. main' = "prev" => wpc'[next_decoding'] = "idle"
    BY <1>2, <1>7, <1>8, NNat DEF ThreadsInv, InvWorkers, ClientIsLeft, fctx, TypeOK, TypeClient, Workers
  <2> QED
    BY <2>1, <2>2 DEF InvWorkers
<1>13. InvFrames'
  <2> SUFFICES ASSUME NEW v \in Workers
               PROVE  /\ state'[v] # "INPUT_READY" =>
                           outcome'[pkt'[v]] = "pending" /\ frame'[v] = 0 /\ Age(v)' < Held'
                      /\ state'[v] = "INPUT_READY" /\ pkt'[v] > epoch' => outcome'[pkt'[v]] # "pending"
                      /\ frame'[v] # 0 => frame'[v] = pkt'[v] /\ outcome'[pkt'[v]] = "frame" /\ Age(v)' < Held'
                      /\ ~Ending' /\ state'[v] = "INPUT_READY" /\ Age(v)' < Held' /\ outcome'[pkt'[v]] = "frame" =>
                           frame'[v] = pkt'[v]
                      /\ main' = "output" /\ Steps(next_finished', v) < Steps(next_finished', finished') =>
                           state'[v] = "INPUT_READY" /\ frame'[v] = 0
    BY DEF InvFrames, Steps
  <2>1. pkt' = pkt /\ epoch' = epoch /\ main' = main /\ next_finished' = next_finished /\ finished' = finished
    BY <1>7 DEF ClientIsLeft, fctx
  <2>2. Age(v)' = Age(v) /\ Held' = Held /\ (Ending' <=> Ending)
    BY <1>7, RingStays
  <2>3. CASE v = w
    <3>1. state'[v] = "INPUT_READY" /\ pkt'[v] = n /\ outcome'[n] = o /\ frame'[v] = IF o = "frame" THEN n ELSE 0
      BY <1>4, <1>6, <1>8, <2>1, <2>3 DEF n
    <3>2. main = "output" /\ Steps(next_finished, v) < Steps(next_finished, finished) => FALSE
      BY <1>3, <2>3 DEF ThreadsInv, InvFrames
    <3> QED
      BY <1>4, <2>1, <2>2, <2>3, <3>1, <3>2
  <2>4. CASE v # w
    <3>1. state'[v] = state[v] /\ frame'[v] = frame[v] /\ pkt'[v] = pkt[v] /\ pkt[v] # n /\ pkt[v] \in 0 .. Count
      BY <1>4, <1>8, <2>1, <2>4, Types
    <3>2. pkt[v] > epoch => outcome'[pkt'[v]] = outcome[pkt[v]]
      BY <1>6, <3>1, Types
    <3>3. state[v] # "INPUT_READY" \/ frame[v] # 0 \/ Age(v) < Held => pkt[v] > epoch
      <4>1. Age(v) < Held => pkt[v] > epoch
        BY Types DEF ThreadsInv, InvRing
      <4> QED
        BY <4>1 DEF ThreadsInv, InvFrames
    <3> QED
      BY <2>1, <2>2, <3>1, <3>2, <3>3 DEF ThreadsInv, InvFrames
  <2> QED
    BY <2>3, <2>4
<1>14. InvOut' /\ InvDrained'
  <2>1. Taken' = Taken /\ Taken \in Int /\ Taken <= Count /\ epoch \in Nat
    BY <1>7, RingStays, Types, NNat DEF Taken
  <2>2. \A k \in (epoch + 1) .. Taken : outcome'[k] = outcome[k]
    BY <1>4, <1>5, <1>6, <2>1
  <2>3. UNCHANGED <<out, drained, epoch, main>>
    BY <1>7 DEF ClientIsLeft
  <2>4. InvOut'
    <3>1. {k \in (epoch' + 1) .. Taken' : outcome'[k] = "frame"} = {k \in (epoch + 1) .. Taken : outcome[k] = "frame"}
      BY <2>1, <2>2, <2>3
    <3>2. \A k \in (epoch' + 1) .. Taken' : outcome'[k] # "pending"
      BY <2>1, <2>2, <2>3 DEF ThreadsInv, InvOut
    <3> QED
      BY <2>3, <3>1, <3>2 DEF ThreadsInv, InvOut
  <2>5. InvDrained'
    BY <1>4, <2>3 DEF InvDrained
  <2> QED
    BY <2>4, <2>5
<1>15. \A v \in Workers : InSetup(v)' <=> InSetup(v)
  BY <1>3, <1>8 DEF InSetup
<1>16. InvSetup'
  BY <1>7, <1>8, <1>15, RingStays DEF ThreadsInv, InvSetup, ClientIsLeft, fctx
<1>17. InvContext'
  BY <1>2, <1>7, <1>15, RingStays DEF ThreadsInv, InvContext, ClientIsLeft, fctx
<1> QED
  BY <1>7, <1>9, <1>11, <1>12, <1>13, <1>14, <1>16, <1>17, RingStays, OneSetup DEF ThreadsInv, TypeOK


-------------------------------------------------------------------------------
(***************************************************************************)
(* The steps of the client that hand over no packet and take no frame      *)
(***************************************************************************)
LEMMA MainMoves ==
  ASSUME ThreadsInv, ~HasSubmitted, ~HasSubmitted',
         UNCHANGED <<codec, prev_thread, next_decoding, next_finished, delaying, state, pkt, frame,
                     ctx, outcome, out, epoch, torn>>,
         TypeClient', TypeWorkers', InvThreads', InvWorkers', NoWorkerAfterFree',
         Ending => Ending',
         drained' => drained /\ main' \in {"idle", "park", "join", "joining", "freed"},
         main' \in {"lock", "prev"} => avpkt' = "data" \/ codec.cap_delay,
         main' = "output" => avpkt' = "empty" /\ finished' = next_finished
  PROVE  ThreadsInv'
<1>1. ~Handing /\ ~Handing'
  BY DEF HasSubmitted
<1>2. Newest' = Newest /\ Held' = Held /\ Count' = Count
  BY <1>1 DEF Newest, Held, Steps, Count
<1>3. Taken' = Taken /\ \A w : Age(w)' = Age(w)
  BY <1>2 DEF Taken, Age, Steps
<1>4. InvRing'
  <2>1. main' \notin {"serve", "submitted"}
    BY <1>1 DEF Handing
  <2> QED
    BY <1>2, <1>3, <2>1 DEF ThreadsInv, InvRing
<1>5. InvFrames'
  <2>1. ASSUME NEW w \in Workers
        PROVE  ~(main' = "output" /\ Steps(next_finished', w) < Steps(next_finished', finished'))
    BY NNat, Types DEF Steps, Workers
  <2> QED
    BY <1>2, <1>3, <2>1 DEF ThreadsInv, InvFrames, Steps
<1>6. InvOut' /\ InvDrained'
  BY <1>2, <1>3 DEF ThreadsInv, InvOut, InvDrained, Range
<1>7. \A w : InSetup(w)' <=> InSetup(w)
  BY DEF InSetup
<1>8. InvSetup'
  <2>1. main # "serve" /\ main' # "serve"
    BY <1>1 DEF Handing
  <2> QED
    BY <1>1, <1>2, <1>7, <2>1 DEF ThreadsInv, InvSetup
<1>9. InvContext'
  BY <1>1, <1>2, <1>7 DEF ThreadsInv, InvContext
<1> QED
  BY <1>4, <1>5, <1>6, <1>8, <1>9, OneSetup DEF ThreadsInv, TypeOK

\* The workers are not touched.
LEMMA WorkersStay ==
  ASSUME TypeWorkers,
         UNCHANGED <<state, pkt, frame, result, ref, obtained, wpc, ctx, buffer_mutex, frames, outcome>>
  PROVE  TypeWorkers'
BY DEF TypeWorkers, frames, Count

LEMMA CreateWorkerKeeps ==
  ASSUME ThreadsInv, CreateWorker
  PROVE  ThreadsInv'
<1>1. /\ main = "creating" /\ created' = created + 1 /\ wpc' = [wpc EXCEPT ![created] = "idle"]
      /\ main' = IF created + 1 = N THEN "idle" ELSE "creating"
      /\ UNCHANGED <<codec, avpkt, finished, i, why, fctx, state, pkt, frame, result, ref,
                     obtained, ctx, buffer_mutex, frames, outcome, history>>
  BY DEF CreateWorker
<1>2. created \in Workers /\ created \in Nat /\ created < N /\ i = 0 /\ ~die
  BY <1>1, NNat DEF ThreadsInv, InvThreads, TypeOK, TypeClient, Workers
<1>3. \A w \in Workers : wpc'[w] = IF w = created THEN "idle" ELSE wpc[w]
  BY <1>1 DEF ThreadsInv, TypeOK, TypeWorkers
<1>4. TypeClient'
  BY <1>1, <1>2, NNat DEF ThreadsInv, TypeOK, TypeClient, fctx, Workers
<1>5. TypeWorkers'
  BY <1>1 DEF ThreadsInv, TypeOK, TypeWorkers, frames, Count
<1>6. InvThreads' /\ NoWorkerAfterFree'
  <2>1. \A w \in Workers : wpc'[w] = "none" <=> w >= created'
    BY <1>1, <1>2, <1>3 DEF ThreadsInv, InvThreads, Workers
  <2>2. /\ main' = "creating" => created' < N
        /\ created' < N => main' = "creating"
    BY <1>1, <1>2, NNat
  <2>3. \A w \in Workers : state'[w] = "INPUT_READY"
    BY <1>1, <1>2 DEF ThreadsInv, InvThreads
  <2>4. main' \in {"creating", "idle"} /\ i' = 0 /\ ~die'
    BY <1>1, <1>2 DEF fctx
  <2> QED
    BY <2>1, <2>2, <2>3, <2>4 DEF InvThreads, NoWorkerAfterFree
<1>7. InvWorkers'
  BY <1>1, <1>2, <1>3 DEF ThreadsInv, InvThreads, InvWorkers, fctx
<1>8. ~HasSubmitted /\ ~HasSubmitted' /\ ~Ending /\ main' \in {"creating", "idle"}
  BY <1>1 DEF HasSubmitted, Handing, Ending
<1>9. ~drained'
  BY <1>1 DEF ThreadsInv, InvDrained, history
<1> QED
  BY <1>1, <1>4, <1>5, <1>6, <1>7, <1>8, <1>9, MainMoves DEF fctx, history

LEMMA CreateFailsKeeps ==
  ASSUME ThreadsInv, CreateFails
  PROVE  ThreadsInv'
<1>1. /\ main = "creating" /\ main' = "park" /\ i' = 0 /\ why' = "free"
      /\ UNCHANGED <<codec, avpkt, finished, created, fctx, state, pkt, frame, result, thread,
                     ctx, buffer_mutex, frames, outcome, history>>
  BY DEF CreateFails
<1>2. created \in Nat /\ created < N /\ ~die
  BY <1>1, NNat DEF ThreadsInv, InvThreads, TypeOK, TypeClient
<1>3. TypeClient' /\ TypeWorkers'
  BY <1>1, WorkersStay DEF ThreadsInv, TypeOK, TypeClient, fctx, thread, Workers
<1>4. InvThreads' /\ NoWorkerAfterFree'
  <2>1. i' <= Limit' /\ ~\E w \in Workers : w < i'
    BY <1>1, <1>2 DEF Limit, Workers
  <2> QED
    BY <1>1, <1>2, <2>1 DEF ThreadsInv, InvThreads, Ending, NoWorkerAfterFree, thread, fctx
<1>5. InvWorkers'
  BY <1>1, <1>2 DEF ThreadsInv, InvWorkers, fctx, thread
<1>6. ~HasSubmitted /\ ~HasSubmitted' /\ Ending'
  BY <1>1 DEF HasSubmitted, Handing, Ending
<1> QED
  BY <1>1, <1>3, <1>4, <1>5, <1>6, MainMoves DEF fctx, history

LEMMA CallKeeps ==
  ASSUME ThreadsInv, NEW size \in {"data", "empty"}, Call(size)
  PROVE  ThreadsInv'
<1> DEFINE submit == size = "data" \/ codec.cap_delay
<1>1. /\ main = "idle" /\ avpkt' = size /\ drained' = FALSE
      /\ main' = IF submit THEN "lock" ELSE "output"
      /\ finished' = IF submit THEN finished ELSE next_finished
      /\ UNCHANGED <<codec, i, why, created, fctx, state, pkt, frame, result, thread, ctx,
                     buffer_mutex, frames, outcome, out, epoch, torn>>
  BY DEF Call
<1>2. created = N /\ i = 0 /\ ~die
  BY <1>1, NNat DEF ThreadsInv, InvThreads, TypeOK, TypeClient, Ending
<1>3. main' = "lock" \/ (main' = "output" /\ avpkt' = "empty" /\ ~codec.cap_delay)
  BY <1>1
<1>4. TypeClient'
  BY <1>1, <1>3, Types DEF ThreadsInv, TypeOK, TypeClient, fctx, Workers
<1>5. TypeWorkers'
  BY <1>1, WorkersStay DEF ThreadsInv, TypeOK, thread
<1>6. InvThreads' /\ NoWorkerAfterFree'
  BY <1>1, <1>2, <1>3, NNat DEF ThreadsInv, InvThreads, NoWorkerAfterFree, thread, fctx
<1>7. InvWorkers'
  BY <1>1, <1>3 DEF ThreadsInv, InvWorkers, fctx, thread
<1>8. ~HasSubmitted /\ ~HasSubmitted' /\ ~Ending
  BY <1>1, <1>3 DEF HasSubmitted, Handing, Ending
<1>9. main' \in {"lock", "prev"} => avpkt' = "data" \/ codec.cap_delay
  BY <1>1
<1>10. main' = "output" => avpkt' = "empty" /\ finished' = next_finished
  BY <1>1
<1> QED
  BY <1>1, <1>4, <1>5, <1>6, <1>7, <1>8, <1>9, <1>10, MainMoves DEF fctx

LEMMA LockThreadKeeps ==
  ASSUME ThreadsInv, LockThread
  PROVE  ThreadsInv'
<1>1. /\ main = "lock" /\ main' = "prev" /\ wpc[next_decoding] = "idle"
      /\ UNCHANGED <<codec, avpkt, finished, i, why, created, fctx, state, pkt, frame, result,
                     thread, ctx, buffer_mutex, frames, outcome, history>>
  BY DEF LockThread
<1>2. TypeClient' /\ TypeWorkers'
  BY <1>1, WorkersStay DEF ThreadsInv, TypeOK, TypeClient, fctx, thread, Workers
<1>3. InvThreads' /\ NoWorkerAfterFree'
  BY <1>1 DEF ThreadsInv, InvThreads, NoWorkerAfterFree, thread, fctx, Ending
<1>4. InvWorkers'
  BY <1>1 DEF ThreadsInv, InvWorkers, fctx, thread
<1>5. ~HasSubmitted /\ ~HasSubmitted' /\ ~Ending /\ ~drained /\ (avpkt = "data" \/ codec.cap_delay)
  BY <1>1 DEF HasSubmitted, Handing, Ending, ThreadsInv, InvDrained, InvRing
<1> QED
  BY <1>1, <1>2, <1>3, <1>4, <1>5, MainMoves DEF fctx, history

LEMMA SubmitFailsKeeps ==
  ASSUME ThreadsInv, SubmitFails
  PROVE  ThreadsInv'
<1>1. /\ main = "prev" /\ main' = "idle"
      /\ UNCHANGED <<codec, avpkt, finished, i, why, created, fctx, state, pkt, frame, result,
                     thread, ctx, buffer_mutex, frames, outcome, history>>
  BY DEF SubmitFails
<1>2. TypeClient' /\ TypeWorkers'
  BY <1>1, WorkersStay DEF ThreadsInv, TypeOK, TypeClient, fctx, thread, Workers
<1>3. InvThreads' /\ NoWorkerAfterFree'
  BY <1>1 DEF ThreadsInv, InvThreads, NoWorkerAfterFree, thread, fctx, Ending
<1>4. InvWorkers'
  BY <1>1 DEF ThreadsInv, InvWorkers, fctx, thread
<1>5. ~HasSubmitted /\ ~HasSubmitted' /\ ~Ending /\ ~drained
  BY <1>1 DEF HasSubmitted, Handing, Ending, ThreadsInv, InvDrained
<1> QED
  BY <1>1, <1>2, <1>3, <1>4, <1>5, MainMoves DEF fctx, history

\* ff_thread_flush() and ff_frame_thread_free() begin with parking the workers.
LEMMA StartKeeps ==
  ASSUME ThreadsInv, StartFlush \/ StartFree
  PROVE  ThreadsInv'
<1>1. /\ main = "idle" /\ main' = "park" /\ why' \in {"flush", "free"}
      /\ UNCHANGED <<codec, avpkt, finished, i, created, fctx, state, pkt, frame, result, thread,
                     ctx, buffer_mutex, frames, outcome, history>>
  BY DEF StartFlush, StartFree
<1>2. created = N /\ i = 0 /\ ~die
  BY <1>1, NNat DEF ThreadsInv, InvThreads, TypeOK, TypeClient, Ending
<1>3. TypeClient' /\ TypeWorkers'
  BY <1>1, WorkersStay DEF ThreadsInv, TypeOK, TypeClient, fctx, thread, Workers
<1>4. InvThreads' /\ NoWorkerAfterFree'
  <2>1. i' <= Limit' /\ ~\E w \in Workers : w < i'
    BY <1>1, <1>2, NNat DEF Limit, Workers
  <2> QED
    BY <1>1, <1>2, <2>1, NNat DEF ThreadsInv, InvThreads, NoWorkerAfterFree, thread, fctx
<1>5. InvWorkers'
  BY <1>1 DEF ThreadsInv, InvWorkers, fctx, thread
<1>6. ~HasSubmitted /\ ~HasSubmitted' /\ Ending'
  BY <1>1 DEF HasSubmitted, Handing, Ending
<1> QED
  BY <1>1, <1>3, <1>4, <1>5, <1>6, MainMoves DEF fctx, history

\* Every worker is parked, as i has passed them all.
LEMMA AllParked ==
  ASSUME ThreadsInv, main = "park", i = Limit
  PROVE  \A w \in Workers : state[w] = "INPUT_READY"
<1>1. CASE created < N
  BY <1>1 DEF ThreadsInv, InvThreads
<1>2. CASE ~(created < N)
  BY <1>2 DEF ThreadsInv, InvThreads, Limit, Workers
<1> QED
  BY <1>1, <1>2

LEMMA FreeKeeps ==
  ASSUME ThreadsInv, Free
  PROVE  ThreadsInv'
<1>1. /\ main = "park" /\ why = "free" /\ i = Limit /\ die' = TRUE /\ main' = "join" /\ i' = 0
      /\ UNCHANGED <<codec, avpkt, finished, why, created, prev_thread, next_decoding,
                     next_finished, delaying, state, pkt, frame, result, thread, ctx, buffer_mutex,
                     frames, outcome, history>>
  BY DEF Free
<1>2. created \in 0 .. N
  BY DEF ThreadsInv, TypeOK, TypeClient
<1>3. TypeClient' /\ TypeWorkers'
  BY <1>1, WorkersStay DEF ThreadsInv, TypeOK, TypeClient, thread, Workers
<1>4. InvThreads' /\ NoWorkerAfterFree'
  <2>1. i' < Limit' /\ ~\E w \in Workers : w < i'
    BY <1>1, <1>2, NNat DEF Limit, Workers
  <2> QED
    BY <1>1, <2>1, AllParked DEF ThreadsInv, InvThreads, NoWorkerAfterFree, thread, Ending
<1>5. InvWorkers'
  BY <1>1 DEF ThreadsInv, InvWorkers, thread
<1>6. ~HasSubmitted /\ ~HasSubmitted' /\ Ending'
  BY <1>1 DEF HasSubmitted, Handing, Ending
<1> QED
  BY <1>1, <1>3, <1>4, <1>5, <1>6, MainMoves DEF history

LEMMA SignalExitKeeps ==
  ASSUME ThreadsInv, SignalExit
  PROVE  ThreadsInv'
<1>1. /\ main = "join" /\ main' = "joining"
      /\ UNCHANGED <<codec, avpkt, finished, i, why, created, fctx, state, pkt, frame, result,
                     thread, ctx, buffer_mutex, frames, outcome, history>>
  BY DEF SignalExit
<1>2. TypeClient' /\ TypeWorkers'
  BY <1>1, WorkersStay DEF ThreadsInv, TypeOK, TypeClient, fctx, thread, Workers
<1>3. InvThreads' /\ NoWorkerAfterFree'
  BY <1>1 DEF ThreadsInv, InvThreads, NoWorkerAfterFree, thread, fctx, Ending, Limit
<1>4. InvWorkers'
  BY <1>1 DEF ThreadsInv, InvWorkers, fctx, thread
<1>5. ~HasSubmitted /\ ~HasSubmitted' /\ Ending'
  BY <1>1 DEF HasSubmitted, Handing, Ending
<1> QED
  BY <1>1, <1>2, <1>3, <1>4, <1>5, MainMoves DEF fctx, history

LEMMA JoinKeeps ==
  ASSUME ThreadsInv, Join
  PROVE  ThreadsInv'
<1>1. /\ main = "joining" /\ Joined(i) /\ i' = i + 1
      /\ main' = IF i + 1 = Limit THEN "freed" ELSE "join"
      /\ UNCHANGED <<codec, avpkt, finished, why, created, fctx, state, pkt, frame, result,
                     thread, ctx, buffer_mutex, frames, outcome, history>>
  BY DEF Join
<1>2. created \in 0 .. N /\ i \in Nat /\ i < Limit
  BY <1>1 DEF ThreadsInv, TypeOK, TypeClient, InvThreads
<1>3. TypeClient' /\ TypeWorkers'
  BY <1>1, <1>2, WorkersStay DEF ThreadsInv, TypeOK, TypeClient, fctx, thread, Workers
<1>4. \A w \in Workers : state[w] = "INPUT_READY" /\ (w < i' => wpc[w] \in {"none", "exit"})
  BY <1>1, <1>2 DEF ThreadsInv, InvThreads, Joined, Workers
<1>5. InvThreads'
  <2>1. main' = "join" => i' < Limit'
    BY <1>1, <1>2, NNat DEF Limit
  <2> QED
    BY <1>1, <1>4, <2>1 DEF ThreadsInv, InvThreads, thread, fctx, Ending
<1>6. NoWorkerAfterFree'
  <2>1. ASSUME main' = "freed", NEW w \in Workers PROVE wpc[w] \in {"none", "exit"}
    <3>1. w < i' \/ w >= created
      BY <1>1, <1>2, <2>1, NNat DEF Limit, Workers
    <3> QED
      BY <1>4, <3>1 DEF ThreadsInv, InvThreads
  <2> QED
    BY <1>1, <2>1 DEF NoWorkerAfterFree, thread
<1>7. InvWorkers'
  BY <1>1 DEF ThreadsInv, InvWorkers, fctx, thread
<1>8. ~HasSubmitted /\ ~HasSubmitted' /\ Ending' /\ main' \in {"join", "freed"}
  BY <1>1 DEF HasSubmitted, Handing, Ending
<1> QED
  BY <1>1, <1>3, <1>5, <1>6, <1>7, <1>8, MainMoves DEF fctx, history

-------------------------------------------------------------------------------
(***************************************************************************)
(* Requests answered, the packet before the next, parking and flushing     *)
(***************************************************************************)
\* The client's callback has run; the worker goes on with its setup.
LEMMA ServeKeeps ==
  ASSUME ThreadsInv, Serve
  PROVE  ThreadsInv'
<1> DEFINE p == next_decoding
<1>1. /\ main = "serve" /\ state[p] \in {"GET_BUFFER", "GET_FORMAT"}
      /\ state' = [state EXCEPT ![p] = "SETTING_UP"]
      /\ UNCHANGED <<codec, call, fctx, pkt, frame, thread, ctx, buffer_mutex, frames, outcome, history>>
  BY DEF Serve
<1>2. result' \in [Workers -> {"ok", "error"}]
  BY DEF Serve, ThreadsInv, TypeOK, TypeWorkers
<1>3. p \in Workers /\ Newest = p
  BY <1>1, NNat DEF ThreadsInv, TypeOK, TypeClient, Newest, Handing, Workers
<1>4. ClientIsLeft
  BY <1>1 DEF ClientIsLeft, call, fctx, history, Count
<1> HIDE DEF p
<1>5. \A v \in Workers : state'[v] = IF v = p THEN "SETTING_UP" ELSE state[v]
  BY <1>1 DEF ThreadsInv, TypeOK, TypeWorkers
<1>6. TypeWorkers'
  BY <1>1, <1>2 DEF ThreadsInv, TypeOK, TypeWorkers, Count, frames, thread
<1>7. created = N
  BY <1>1, <1>3, NNat DEF ThreadsInv, TypeOK, TypeClient, InvThreads, Ending
<1>8. InvThreads' /\ NoWorkerAfterFree'
  BY <1>1, <1>4, <1>7, NNat, RingStays DEF ThreadsInv, InvThreads, ClientIsLeft, fctx, thread, NoWorkerAfterFree
<1>9. InvWorkers'
  <2>1. ASSUME NEW v \in Workers
        PROVE  /\ wpc'[v] = "exit" => die'
               /\ IF state'[v] = "INPUT_READY" THEN wpc'[v] \in {"none", "idle", "loop", "exit"}
                                              ELSE wpc'[v] \notin {"none", "loop", "exit"}
               /\ state'[v] \in {"GET_FORMAT", "GET_BUFFER"} => wpc'[v] \in {"format", "buffer"}
    BY <1>1, <1>5 DEF ThreadsInv, InvWorkers, thread, fctx
  <2> QED
    BY <1>1, <1>4, <2>1 DEF InvWorkers, ClientIsLeft
<1>10. InvFrames'
  <2>1. main' # "output"
    BY <1>1, <1>4 DEF ClientIsLeft
  <2>2. state[p] # "INPUT_READY"
    BY <1>1
  <2> QED
    BY <1>1, <1>4, <1>5, <2>1, <2>2, RingStays DEF ThreadsInv, InvFrames, ClientIsLeft
<1>11. \A v \in Workers : InSetup(v)' <=> InSetup(v)
  BY <1>1, <1>5 DEF InSetup
<1>12. InvSetup'
  BY <1>1, <1>4, <1>5, <1>11, RingStays DEF ThreadsInv, InvSetup, ClientIsLeft, fctx
<1>13. InvContext'
  BY <1>1, <1>4, <1>11, RingStays DEF ThreadsInv, InvContext, ClientIsLeft, fctx
<1> QED
  BY <1>1, <1>4, <1>6, <1>8, <1>9, <1>10, <1>12, <1>13, RingStays, OutStays, OneSetup DEF ThreadsInv, TypeOK

\* The submitted packet's thread is now the one before the next.
LEMMA SubmittedKeeps ==
  ASSUME ThreadsInv, Submitted
  PROVE  ThreadsInv'
<1> DEFINE p == next_decoding
<1>1. /\ main = "submitted" \/ (main = "serve" /\ state[p] \in {"SETUP_FINISHED", "INPUT_READY"})
      /\ prev_thread' = p /\ next_decoding' = p + 1 /\ delaying' = StillDelaying(next_decoding')
      /\ main' = IF delaying' /\ avpkt = "data" THEN "idle" ELSE "output"
      /\ finished' = IF main' = "output" THEN next_finished ELSE 0
      /\ UNCHANGED <<codec, avpkt, i, why, created, next_finished, die, state, pkt, frame, result,
                     thread, ctx, buffer_mutex, frames, outcome, history>>
  BY DEF Submitted, Advanced
<1>2. p \in Workers /\ p \in 0 .. (N - 1) /\ Handing /\ Newest = p /\ HasSubmitted
  BY <1>1, NNat DEF ThreadsInv, TypeOK, TypeClient, Newest, Handing, HasSubmitted, Workers
<1>3. delaying' \in BOOLEAN /\ (delaying' => delaying /\ p + 1 <= N - 1)
  <2>1. delaying \in BOOLEAN
    BY DEF ThreadsInv, TypeOK, TypeClient
  <2>2. delaying' = (delaying /\ p + 1 <= N - 1 - (IF codec.ffv1 THEN 1 ELSE 0))
    BY <1>1 DEF StillDelaying
  <2>3. delaying' => delaying /\ p + 1 <= N - 1 - (IF codec.ffv1 THEN 1 ELSE 0)
    BY <2>2
  <2>4. p + 1 <= N - 1 - (IF codec.ffv1 THEN 1 ELSE 0) => p + 1 <= N - 1
    BY <1>2, NNat
  <2>5. delaying' \in BOOLEAN
    BY <2>1, <2>2
  <2> QED
    BY <2>3, <2>4, <2>5
<1>4. main' \in {"idle", "output"} /\ ~Handing' /\ (main' = "output" => HasSubmitted')
      /\ (main' = "idle" => delaying' /\ ~HasSubmitted')
  BY <1>1 DEF HasSubmitted, Handing, ThreadsInv, InvRing
<1> HIDE DEF p
<1>5. Newest' = Newest
  BY <1>1, <1>2, <1>4, NNat DEF Newest
<1>6. Held' = Held /\ Held >= 1
  <2>1. Held = Steps(next_finished, p) + 1 /\ next_finished \in 0 .. (N - 1) /\ Held >= 1
    BY <1>2, Types, NNat DEF Held, Steps, Workers
  <2>2. CASE main' = "output"
    BY <1>1, <1>2, <1>4, <1>5, <2>1, <2>2 DEF Held, Steps
  <2>3. CASE main' = "idle"
    <3>1. next_finished <= p
      BY <1>3, <1>4, <2>3 DEF ThreadsInv, InvRing, p
    <3>2. Held' = Steps(next_finished', next_decoding')
      BY <1>4, <2>3 DEF Held
    <3> QED
      BY <1>1, <1>2, <2>1, <3>1, <3>2, NNat DEF Steps
  <2> QED
    BY <1>4, <2>1, <2>2, <2>3
<1>7. Count' = Count /\ Taken' = Taken /\ \A w : Age(w)' = Age(w)
  BY <1>1, <1>5, <1>6 DEF Count, Taken, Age, Steps
<1>8. TypeClient' /\ TypeWorkers'
  <2>1. TypeWorkers'
    BY <1>1, WorkersStay DEF ThreadsInv, TypeOK, thread
  <2>2. p + 1 \in 0 .. N /\ (p + 1 = N => main' = "output")
    BY <1>1, <1>2, <1>3, NNat
  <2> QED
    BY <1>1, <1>2, <1>3, <2>1, <2>2, NNat, Types DEF ThreadsInv, TypeOK, TypeClient, Workers
<1>9. created = N /\ i = 0 /\ ~die /\ ~drained
  BY <1>1, NNat DEF ThreadsInv, TypeOK, TypeClient, InvThreads, InvDrained, Ending
<1>10. InvThreads' /\ NoWorkerAfterFree'
  BY <1>1, <1>4, <1>9, NNat DEF ThreadsInv, InvThreads, NoWorkerAfterFree, thread
<1>11. InvWorkers'
  BY <1>1, <1>4 DEF ThreadsInv, InvWorkers, thread
<1>12. InvRing'
  <2>1. epoch' \in 0 .. Count' /\ Held' <= Count' - epoch'
    BY <1>1, <1>6, <1>7 DEF ThreadsInv, InvRing, history
  <2>2. \A w \in Workers : IF Count' - Age(w)' > epoch' THEN pkt'[w] = Count' - Age(w)' ELSE pkt'[w] <= epoch'
    BY <1>1, <1>7 DEF ThreadsInv, InvRing, history
  <2>3. main' = "output" => next_decoding' >= 1
    BY <1>1, <1>2
  <2>4. next_decoding' = N => HasSubmitted'
    BY <1>1, <1>2, <1>3, <1>4, NNat
  <2>5. delaying' => next_finished' < next_decoding' /\ next_decoding' < N
    <3>1. delaying' => next_finished <= p
      BY <1>3 DEF ThreadsInv, InvRing, p
    <3> QED
      BY <1>1, <1>2, <1>3, <3>1, Types, NNat DEF Workers
  <2>6. main' = "output" /\ avpkt' = "data" => finished' = next_finished' /\ ~delaying'
    BY <1>1
  <2>7. main' \notin {"lock", "prev", "serve", "submitted"}
    BY <1>4
  <2>8. delaying' => next_finished' <= next_decoding' /\ next_decoding' < N
    BY <1>1, <1>2, <2>5, Types, NNat DEF Workers
  <2> QED
    BY <2>1, <2>2, <2>3, <2>4, <2>5, <2>6, <2>7, <2>8 DEF InvRing
<1>13. InvFrames'
  <2>1. ASSUME NEW w \in Workers
        PROVE  ~(main' = "output" /\ Steps(next_finished', w) < Steps(next_finished', finished'))
    BY <1>1, NNat, Types DEF Steps, Workers
  <2>2. ~Ending
    BY <1>1 DEF Ending
  <2> QED
    BY <1>1, <1>6, <1>7, <2>1, <2>2 DEF ThreadsInv, InvFrames, history, Steps
<1>14. InvOut' /\ InvDrained'
  BY <1>1, <1>7, <1>9 DEF ThreadsInv, InvOut, InvDrained, Range, history
<1>15. \A w \in Workers : InSetup(w)' <=> InSetup(w)
  BY <1>1 DEF InSetup
<1>16. InvSetup'
  <2>1. ASSUME NEW w \in Workers, codec.callbacks, InSetup(w) PROVE FALSE
    <3>1. w = p /\ main = "serve"
      BY <1>2, <2>1 DEF ThreadsInv, InvSetup
    <3> QED
      BY <1>1, <2>1, <3>1 DEF InSetup, p
  <2>2. prev_thread' # None /\ Count > epoch /\ prev_thread' = Newest'
    BY <1>1, <1>2, <1>5, <1>6, NNat, Types DEF None, ThreadsInv, InvRing, Workers
  <2>3. main' # "serve"
    BY <1>4
  <2> QED
    BY <1>1, <1>5, <1>7, <1>15, <2>1, <2>2, <2>3 DEF ThreadsInv, InvSetup, history
<1>17. InvContext'
  <2>1. prev_thread' # None
    BY <1>1, <1>2, NNat DEF None
  <2> QED
    BY <1>1, <1>15, <2>1 DEF ThreadsInv, InvContext, history
<1> QED
  BY <1>8, <1>10, <1>11, <1>12, <1>13, <1>14, <1>16, <1>17, OneSetup DEF ThreadsInv, TypeOK

\* A parked worker's frame is dropped.
LEMMA ParkKeeps ==
  ASSUME ThreadsInv, Park
  PROVE  ThreadsInv'
<1>a. CASE UNCHANGED <<i, frame>>
  BY <1>a, OnlySleeps DEF Park, call
<1>1. SUFFICES ASSUME /\ state[i] = "INPUT_READY" /\ frame' = [frame EXCEPT ![i] = 0] /\ i' = i + 1
               PROVE  ThreadsInv'
  BY <1>a DEF Park
<1>2. /\ main = "park" /\ i < Limit
      /\ UNCHANGED <<codec, main, avpkt, finished, why, created, fctx, state, pkt, result, thread,
                     ctx, buffer_mutex, frames, outcome, history>>
  BY DEF Park
<1>3. created \in 0 .. N /\ i \in Nat /\ i < N /\ i \in Workers
  BY <1>2, NNat DEF ThreadsInv, TypeOK, TypeClient, Limit, Workers
<1>4. \A w \in Workers : frame'[w] = IF w = i THEN 0 ELSE frame[w]
  BY <1>1 DEF ThreadsInv, TypeOK, TypeWorkers
<1>5. ~Handing /\ ~Handing' /\ ~HasSubmitted /\ ~HasSubmitted' /\ Ending'
  BY <1>2 DEF Handing, HasSubmitted, Ending
<1>6. Newest' = Newest /\ Held' = Held /\ Count' = Count
  BY <1>2, <1>5 DEF Newest, Held, Steps, Count, fctx
<1>7. Taken' = Taken /\ \A w : Age(w)' = Age(w)
  BY <1>6 DEF Taken, Age, Steps
<1>8. TypeClient' /\ TypeWorkers'
  <2>1. TypeClient'
    BY <1>1, <1>2, <1>3 DEF ThreadsInv, TypeOK, TypeClient, fctx, Workers
  <2>2. frame' \in [Workers -> 0 .. Count]
    <3>1. frame \in [Workers -> 0 .. Count] /\ 0 \in 0 .. Count
      BY Types DEF ThreadsInv, TypeOK, TypeWorkers
    <3> QED
      BY <1>1, <3>1
  <2> QED
    BY <1>2, <1>6, <2>1, <2>2 DEF ThreadsInv, TypeOK, TypeWorkers, thread, frames
<1>9. InvThreads' /\ NoWorkerAfterFree'
  <2>1. i' <= Limit' /\ \A w \in Workers : w < i' => state'[w] = "INPUT_READY" /\ frame'[w] = 0
    BY <1>1, <1>2, <1>3, <1>4, NNat DEF ThreadsInv, InvThreads, Limit, Workers
  <2> QED
    BY <1>1, <1>2, <2>1 DEF ThreadsInv, InvThreads, NoWorkerAfterFree, thread, fctx, Ending
<1>10. InvWorkers'
  BY <1>2 DEF ThreadsInv, InvWorkers, thread, fctx
<1>11. InvRing'
  BY <1>2, <1>5, <1>6, <1>7 DEF ThreadsInv, InvRing, fctx, history
<1>12. InvFrames'
  BY <1>2, <1>1, <1>4, <1>5, <1>6, <1>7 DEF ThreadsInv, InvFrames, history, fctx
<1>13. InvOut' /\ InvDrained'
  BY <1>2, <1>6, <1>7 DEF ThreadsInv, InvOut, InvDrained, Range, history
<1>14. \A w \in Workers : InSetup(w)' <=> InSetup(w)
  BY <1>2 DEF InSetup
<1>15. InvSetup'
  BY <1>2, <1>5, <1>6, <1>14 DEF ThreadsInv, InvSetup, history, fctx
<1>16. InvContext'
  BY <1>2, <1>5, <1>6, <1>14 DEF ThreadsInv, InvContext, history, fctx
<1> QED
  BY <1>8, <1>9, <1>10, <1>11, <1>12, <1>13, <1>15, <1>16, OneSetup DEF ThreadsInv, TypeOK

\* The last packet before the next one left its context with its thread.
LEMMA LastContext ==
  ASSUME ThreadsInv, ~Handing, prev_thread # None, ~InSetup(prev_thread)
  PROVE  prev_thread \in Workers /\ ctx[prev_thread].last = Count
<1>1. prev_thread = Newest /\ Count > epoch /\ prev_thread \in Workers
  BY Types DEF ThreadsInv, InvSetup
<1>2. Age(prev_thread) = 0
  BY <1>1, NNat DEF Age, Steps, Workers
<1>3. pkt[prev_thread] = Count
  BY <1>1, <1>2, Types DEF ThreadsInv, InvRing
<1> QED
  BY <1>1, <1>3 DEF ThreadsInv, InvContext

\* The ring starts again at thread 0, with the context of the last packet.
LEMMA FlushKeeps ==
  ASSUME ThreadsInv, Flush
  PROVE  ThreadsInv'
<1>1. /\ main = "park" /\ why = "flush" /\ i = N /\ RestartContext
      /\ next_decoding' = 0 /\ next_finished' = 0 /\ delaying' = TRUE /\ prev_thread' = None
      /\ main' = "idle" /\ i' = 0 /\ epoch' = Count /\ out' = <<>> /\ drained' = FALSE
      /\ UNCHANGED <<codec, avpkt, finished, why, created, die, state, pkt, frame, result, thread,
                     buffer_mutex, frames, outcome>>
  BY DEF Flush
<1>2. created = N /\ ~die
  BY <1>1, NNat DEF ThreadsInv, TypeOK, TypeClient, InvThreads
<1>3. \A w \in Workers : state[w] = "INPUT_READY" /\ frame[w] = 0 /\ ~InSetup(w)
  BY <1>1, NNat DEF ThreadsInv, InvThreads, Workers, InSetup
<1>4. Count' = Count /\ Count \in Nat
  BY <1>1, Types DEF Count
<1>5. ~Handing /\ ~Handing' /\ ~HasSubmitted'
  BY <1>1 DEF Handing, HasSubmitted
<1>6. Newest' = N - 1 /\ Held' = 0 /\ Taken' = Count
  BY <1>1, <1>4, <1>5, NNat DEF Newest, Held, Steps, Taken
<1>7. \A w \in Workers : Age(w)' \in 0 .. (N - 1)
  BY <1>6, NNat DEF Age, Steps, Workers
<1>8. /\ ctx' \in [Workers -> [last : 0 .. Count, ref : 0 .. Count]]
      /\ codec.update /\ ~torn' => ctx'[0].last = Count
  <2>1. ctx \in [Workers -> [last : 0 .. Count, ref : 0 .. Count]] /\ 0 \in Workers
    BY NNat DEF ThreadsInv, TypeOK, TypeWorkers
  <2>2. prev_thread # None => prev_thread \in Workers /\ ctx[prev_thread].last = Count
    <3>1. prev_thread # None => prev_thread \in Workers
      BY DEF ThreadsInv, TypeOK, TypeClient
    <3> QED
      BY <1>3, <1>5, <3>1, LastContext
  <2>3. CASE prev_thread # None /\ ctx' = [ctx EXCEPT ![0] = ctx[prev_thread]]
    BY <2>1, <2>2, <2>3
  <2>4. CASE torn' = (torn \/ prev_thread \notin {None, 0}) /\ UNCHANGED ctx
    <3>1. codec.update /\ ~torn' => ~torn /\ (prev_thread = None \/ prev_thread = 0)
      BY <2>4
    <3>2. codec.update /\ ~torn /\ prev_thread = None => ctx[0].last = Count
      BY <1>5 DEF ThreadsInv, InvContext
    <3>3. prev_thread = 0 => prev_thread # None
      BY NNat DEF None
    <3> QED
      BY <2>1, <2>2, <2>4, <3>1, <3>2, <3>3
  <2> QED
    BY <1>1, <2>3, <2>4 DEF RestartContext
<1>9. TypeClient' /\ TypeWorkers'
  <2>1. TypeClient'
    BY <1>1, NNat DEF ThreadsInv, TypeOK, TypeClient, None, Workers
  <2> QED
    BY <1>1, <1>4, <1>8, <2>1 DEF ThreadsInv, TypeOK, TypeWorkers, thread, frames
<1>10. InvThreads' /\ NoWorkerAfterFree'
  BY <1>1, <1>2, NNat DEF ThreadsInv, InvThreads, NoWorkerAfterFree, thread
<1>11. InvWorkers'
  BY <1>1 DEF ThreadsInv, InvWorkers, thread
<1>12. InvRing'
  <2>1. \A w \in Workers : pkt'[w] <= epoch' /\ ~(Count' - Age(w)' > epoch')
    BY <1>1, <1>4, <1>7, Types
  <2>2. epoch' \in 0 .. Count' /\ Held' <= Count' - epoch'
    BY <1>1, <1>4, <1>6
  <2> QED
    BY <1>1, <2>1, <2>2, NNat DEF InvRing
<1>13. InvFrames'
  <2>1. ASSUME NEW w \in Workers
        PROVE  state'[w] = "INPUT_READY" /\ frame'[w] = 0 /\ ~(pkt'[w] > epoch') /\ ~(Age(w)' < Held')
    BY <1>1, <1>3, <1>6, <1>7, Types
  <2> QED
    BY <1>1, <2>1 DEF InvFrames
<1>14. InvOut' /\ InvDrained'
  <2>1. (epoch' + 1) .. Taken' = {}
    BY <1>1, <1>4, <1>6
  <2>2. out' \in Seq(Nat) /\ DOMAIN out' = {} /\ Range(out') = {}
    BY <1>1 DEF Range
  <2> QED
    BY <1>1, <2>1, <2>2 DEF InvOut, InvDrained
<1>15. \A w \in Workers : ~InSetup(w)' /\ state'[w] = "INPUT_READY"
  BY <1>1, <1>3 DEF InSetup
<1>16. InvSetup'
  BY <1>1, <1>4, <1>15 DEF InvSetup
<1>17. InvContext'
  <2>1. \A w \in Workers : ~(pkt'[w] > epoch')
    BY <1>1, Types
  <2> QED
    BY <1>1, <1>4, <1>8, <1>15, <2>1 DEF InvContext
<1> QED
  BY <1>9, <1>10, <1>11, <1>12, <1>13, <1>14, <1>16, <1>17, OneSetup DEF ThreadsInv, TypeOK

-------------------------------------------------------------------------------
(***************************************************************************)
(* A packet is handed over                                                 *)
(***************************************************************************)
\* The next thread has no packet, and its frame is taken: it is never given a
\* packet too early.
LEMMA NextIsFree ==
  ASSUME ThreadsInv, ~HasSubmitted, next_decoding < N
  PROVE  /\ next_decoding \in Workers /\ Age(next_decoding) = N - 1 /\ Held <= N - 1
         /\ state[next_decoding] = "INPUT_READY" /\ frame[next_decoding] = 0
<1>1. next_decoding \in Workers /\ next_finished \in Workers /\ ~Handing
  BY NNat DEF ThreadsInv, TypeOK, TypeClient, Workers, HasSubmitted
<1>2. Age(next_decoding) = N - 1
  BY <1>1, NNat DEF Newest, Age, Steps, Workers
<1>3. Held <= N - 1
  BY <1>1, NNat DEF Held, Steps, Workers
<1>4. ~(Age(next_decoding) < Held)
  BY <1>2, <1>3, Types, NNat
<1> QED
  BY <1>1, <1>2, <1>3, <1>4 DEF ThreadsInv, InvFrames

\* No setup is under way that the next packet would have to wait for.
LEMMA NobodyInSetup ==
  ASSUME ThreadsInv, main = "prev", PrevIsSetUp, codec.update \/ codec.callbacks, NEW w \in Workers
  PROVE  ~InSetup(w)
<1> SUFFICES ASSUME InSetup(w) PROVE FALSE
  OBVIOUS
<1>1. ~codec.callbacks /\ w = Newest /\ ~Handing
  BY DEF ThreadsInv, InvSetup, Handing
<1>2. state[w] = "SETTING_UP"
  BY <1>1 DEF InSetup, ThreadsInv, InvSetup
<1>3. Count > epoch
  BY <1>2, Busy, Types
<1>4. prev_thread = w
  BY <1>1, <1>3, Types DEF ThreadsInv, InvSetup
<1>5. w # None
  BY NNat DEF None
<1> QED
  BY <1>2, <1>4, <1>5 DEF PrevIsSetUp

LEMMA SubmitKeeps ==
  ASSUME ThreadsInv, Submit
  PROVE  ThreadsInv'
<1> DEFINE p == next_decoding
           n == Count + 1
<1>1. /\ main = "prev" /\ PrevIsSetUp
      /\ ctx' = IF prev_thread = None THEN ctx ELSE [ctx EXCEPT ![p] = ctx[prev_thread]]
      /\ pkt' = [pkt EXCEPT ![p] = n] /\ owner' = Append(owner, p)
      /\ state' = [state EXCEPT ![p] = "SETTING_UP"]
      /\ outcome' = Append(outcome, "pending")
      /\ main' = IF codec.callbacks THEN "serve" ELSE "submitted"
      /\ UNCHANGED <<codec, avpkt, finished, i, why, created, fctx, frame, result, thread,
                     buffer_mutex, complete, history>>
  BY DEF Submit
<1>2. ~Handing /\ ~HasSubmitted /\ Handing' /\ HasSubmitted' /\ p < N
  BY <1>1, NNat DEF Handing, HasSubmitted, ThreadsInv, TypeOK, TypeClient
<1>3. /\ p \in Workers /\ Age(p) = N - 1 /\ Held <= N - 1 /\ state[p] = "INPUT_READY" /\ frame[p] = 0
  BY <1>2, NextIsFree
<1>4. Newest' = p /\ Held = Steps(next_finished, p) /\ Held' = Held + 1
  BY <1>1, <1>2 DEF Newest, Held, Steps, fctx
<1>5. /\ Count \in Nat /\ Count' = n
      /\ outcome' \in Seq({"pending", "frame", "none", "error"}) /\ outcome'[n] = "pending"
      /\ \A k \in 1 .. Count : outcome'[k] = outcome[k]
  BY <1>1, Types DEF Count, ThreadsInv, TypeOK, TypeWorkers
<1>6. Taken' = Taken
  <2>1. Held \in 0 .. N
    BY Types
  <2> QED
    BY <1>4, <1>5, <2>1, NNat DEF Taken
<1>7. /\ \A w \in Workers : w = p => Age(w)' = 0
      /\ \A w \in Workers : w # p => Age(w)' = Age(w) + 1 /\ Age(w)' < N
  <2>1. \A w \in Workers : w = p => Age(w)' = 0
    BY <1>3, <1>4, NNat DEF Age, Steps, Workers
  <2>2. ASSUME NEW w \in Workers, w # p PROVE Age(w)' = Age(w) + 1 /\ Age(w)' < N
    <3>1. Newest = IF p = 0 THEN N - 1 ELSE p - 1
      BY <1>2 DEF Newest
    <3> QED
      BY <1>3, <1>4, <2>2, <3>1, NNat DEF Age, Steps, Workers
  <2> QED
    BY <2>1, <2>2
<1>8. prev_thread # None => prev_thread \in Workers /\ (codec.update => ctx[prev_thread].last = Count)
  <2>1. prev_thread # None => prev_thread \in Workers
    BY DEF ThreadsInv, TypeOK, TypeClient
  <2> QED
    BY <1>1, <1>2, <2>1, NobodyInSetup, LastContext
<1>9. prev_thread = None => p = 0 /\ Count = epoch
  BY <1>2 DEF ThreadsInv, InvSetup
<1>10. ~drained /\ created = N /\ ~die /\ i = 0 /\ wpc[p] = "idle" /\ (avpkt = "data" \/ codec.cap_delay)
  BY <1>1, NNat DEF ThreadsInv, TypeOK, TypeClient, InvThreads, InvWorkers, InvDrained, InvRing, Ending
<1> HIDE DEF p, n
<1>11. \A w \in Workers : /\ state'[w] = IF w = p THEN "SETTING_UP" ELSE state[w]
                          /\ pkt'[w] = IF w = p THEN n ELSE pkt[w]
  BY <1>1 DEF ThreadsInv, TypeOK, TypeWorkers
<1>12. /\ ctx' \in [Workers -> [last : 0 .. Count, ref : 0 .. Count]]
       /\ \A w \in Workers : w # p => ctx'[w] = ctx[w]
       /\ codec.update /\ ~torn => ctx'[p].last = Count
  <2>1. ctx \in [Workers -> [last : 0 .. Count, ref : 0 .. Count]]
    BY DEF ThreadsInv, TypeOK, TypeWorkers
  <2>2. CASE prev_thread = None
    <3>1. codec.update /\ ~torn => ctx[0].last = Count
      BY <1>2, <2>2 DEF ThreadsInv, InvContext
    <3> QED
      BY <1>1, <1>9, <2>1, <2>2, <3>1
  <2>3. CASE prev_thread # None
    BY <1>1, <1>3, <1>8, <2>1, <2>3
  <2> QED
    BY <2>2, <2>3
<1>13. TypeClient'
  BY <1>1, <1>2, NNat DEF ThreadsInv, TypeOK, TypeClient, fctx, Workers
<1>14. TypeWorkers'
  <2>1. 0 .. Count \subseteq 0 .. n /\ 1 .. Count \subseteq 1 .. n /\ n \in 0 .. n
    BY <1>5 DEF n
  <2>2. pkt' \in [Workers -> 0 .. n]
    BY <1>1, <2>1 DEF ThreadsInv, TypeOK, TypeWorkers
  <2>3. frame' \in [Workers -> 0 .. n] /\ ref' \in [Workers -> 0 .. n] /\ complete' \subseteq 1 .. n
    BY <1>1, <2>1 DEF ThreadsInv, TypeOK, TypeWorkers, thread
  <2>4. ctx' \in [Workers -> [last : 0 .. n, ref : 0 .. n]]
    BY <1>12, <2>1
  <2>5. owner' \in Seq(Workers) /\ Len(owner') = n
    BY <1>1, <1>3, <1>5 DEF ThreadsInv, TypeOK, TypeWorkers, n
  <2>6. state' \in [Workers -> {"INPUT_READY", "SETTING_UP", "GET_BUFFER", "GET_FORMAT", "SETUP_FINISHED"}]
    BY <1>1 DEF ThreadsInv, TypeOK, TypeWorkers
  <2> QED
    BY <1>1, <1>5, <2>2, <2>3, <2>4, <2>5, <2>6 DEF ThreadsInv, TypeOK, TypeWorkers, thread
<1>15. InvThreads' /\ NoWorkerAfterFree'
  BY <1>1, <1>10, NNat DEF ThreadsInv, InvThreads, NoWorkerAfterFree, thread, fctx
<1>16. InvWorkers'
  <2>1. ASSUME NEW v \in Workers
        PROVE  /\ wpc'[v] = "exit" => die'
               /\ IF state'[v] = "INPUT_READY" THEN wpc'[v] \in {"none", "idle", "loop", "exit"}
                                              ELSE wpc'[v] \notin {"none", "loop", "exit"}
               /\ state'[v] \in {"GET_FORMAT", "GET_BUFFER"} => wpc'[v] \in {"format", "buffer"}
    BY <1>1, <1>10, <1>11 DEF ThreadsInv, InvWorkers, thread, fctx
  <2> QED
    BY <1>1, <2>1 DEF InvWorkers
<1>17. InvRing'
  <2>1. epoch' = epoch /\ epoch' \in 0 .. Count' /\ Held' <= Count' - epoch'
    <3>1. epoch' = epoch
      BY <1>1 DEF history
    <3>2. Held \in 0 .. N /\ epoch \in 0 .. Count
      BY Types
    <3>3. Held <= Count - epoch
      BY DEF ThreadsInv, InvRing
    <3> QED
      BY <1>4, <1>5, <3>1, <3>2, <3>3, NNat DEF n
  <2>2. ASSUME NEW w \in Workers
        PROVE  IF Count' - Age(w)' > epoch' THEN pkt'[w] = Count' - Age(w)' ELSE pkt'[w] <= epoch'
    <3>1. CASE w = p
      BY <1>5, <1>7, <1>11, <2>1, <3>1, Types DEF n
    <3>2. CASE w # p
      <4>0. Age(w) \in 0 .. (N - 1)
        BY Types
      <4>1. Count' - Age(w)' = Count - Age(w)
        BY <1>5, <1>7, <3>2, <4>0, NNat DEF n
      <4> QED
        BY <1>11, <2>1, <3>2, <4>1 DEF ThreadsInv, InvRing
    <3> QED
      BY <3>1, <3>2
  <2>3. main' \in {"serve", "submitted"}
    BY <1>1
  <2> QED
    BY <1>1, <1>2, <1>10, <2>1, <2>2, <2>3 DEF ThreadsInv, InvRing, fctx, p
<1>18. InvFrames'
  <2> SUFFICES ASSUME NEW v \in Workers
               PROVE  /\ state'[v] # "INPUT_READY" =>
                           outcome'[pkt'[v]] = "pending" /\ frame'[v] = 0 /\ Age(v)' < Held'
                      /\ state'[v] = "INPUT_READY" /\ pkt'[v] > epoch' => outcome'[pkt'[v]] # "pending"
                      /\ frame'[v] # 0 => frame'[v] = pkt'[v] /\ outcome'[pkt'[v]] = "frame" /\ Age(v)' < Held'
                      /\ ~Ending' /\ state'[v] = "INPUT_READY" /\ Age(v)' < Held' /\ outcome'[pkt'[v]] = "frame" =>
                           frame'[v] = pkt'[v]
    BY <1>1 DEF InvFrames
  <2>1. epoch' = epoch /\ frame' = frame /\ ~Ending
    BY <1>1 DEF history, Ending
  <2>2. CASE v = p
    <3>1. state'[v] = "SETTING_UP" /\ pkt'[v] = n /\ frame'[v] = 0 /\ Age(v)' < Held'
      BY <1>3, <1>4, <1>7, <1>11, <2>1, <2>2, Types
    <3> QED
      BY <1>5, <3>1
  <2>3. CASE v # p
    <3>1. state'[v] = state[v] /\ frame'[v] = frame[v] /\ pkt'[v] = pkt[v] /\ pkt[v] \in 0 .. Count
      BY <1>11, <2>1, <2>3, Types
    <3>2. pkt[v] > epoch => outcome'[pkt'[v]] = outcome[pkt[v]]
      BY <1>5, <3>1, Types
    <3>3. Age(v)' < Held' <=> Age(v) < Held
      BY <1>4, <1>7, <2>3, Types
    <3>4. state[v] # "INPUT_READY" \/ frame[v] # 0 \/ Age(v) < Held => pkt[v] > epoch
      <4>1. Age(v) < Held => pkt[v] > epoch
        BY Types DEF ThreadsInv, InvRing
      <4> QED
        BY <4>1 DEF ThreadsInv, InvFrames
    <3> QED
      BY <2>1, <3>1, <3>2, <3>3, <3>4 DEF ThreadsInv, InvFrames
  <2> QED
    BY <2>2, <2>3
<1>19. InvOut' /\ InvDrained'
  <2>1. UNCHANGED <<out, drained, epoch>> /\ Taken \in Int /\ Taken <= Count /\ epoch \in Nat
    BY <1>1, Types, NNat DEF history, Taken
  <2>2. \A k \in (epoch + 1) .. Taken : outcome'[k] = outcome[k]
    BY <1>5, <2>1
  <2>3. {k \in (epoch' + 1) .. Taken' : outcome'[k] = "frame"} = {k \in (epoch + 1) .. Taken : outcome[k] = "frame"}
    BY <1>6, <2>1, <2>2
  <2>4. \A k \in (epoch' + 1) .. Taken' : outcome'[k] # "pending"
    BY <1>6, <2>1, <2>2 DEF ThreadsInv, InvOut
  <2> QED
    BY <1>10, <2>1, <2>3, <2>4 DEF ThreadsInv, InvOut, InvDrained
<1>20. \A w \in Workers : InSetup(w)' <=> (w = p \/ InSetup(w))
  BY <1>11 DEF InSetup
<1>21. InvSetup'
  <2>1. \A w \in Workers : state'[w] \in {"GET_FORMAT", "GET_BUFFER"} => codec.callbacks
    BY <1>11 DEF ThreadsInv, InvSetup
  <2>2. \A w \in Workers : InSetup(w)' /\ (codec.update \/ codec.callbacks) => w = p
    BY <1>1, <1>20, NobodyInSetup
  <2> QED
    BY <1>1, <1>2, <1>4, <2>1, <2>2 DEF InvSetup
<1>22. InvContext'
  <2>1. ASSUME NEW w \in Workers
        PROVE  /\ pkt'[w] > epoch' /\ ~InSetup(w)' => ctx'[w].last = pkt'[w]
               /\ codec'.update /\ ~torn' /\ InSetup(w)' => ctx'[w].last = pkt'[w] - 1
    <3>1. CASE w = p
      <4>1. InSetup(w)' /\ pkt'[w] = n /\ n - 1 = Count
        BY <1>5, <1>11, <1>20, <3>1 DEF n
      <4> QED
        BY <1>1, <1>12, <3>1, <4>1 DEF history
    <3>2. CASE w # p
      BY <1>1, <1>11, <1>12, <1>20, <3>2 DEF ThreadsInv, InvContext, history
    <3> QED
      BY <3>1, <3>2
  <2> QED
    BY <1>2, <2>1 DEF InvContext
<1> QED
  BY <1>13, <1>14, <1>15, <1>16, <1>17, <1>18, <1>19, <1>21, <1>22, OneSetup DEF ThreadsInv, TypeOK

-------------------------------------------------------------------------------
(***************************************************************************)
(* A frame is taken, or there is none                                      *)
(***************************************************************************)
\* Each packet whose frame is still to be taken is the last of one thread.
LEMMA HeldPackets ==
  ASSUME ThreadsInv, NEW k \in (Taken + 1) .. Count
  PROVE  \E w \in Workers : Age(w) = Count - k /\ Age(w) < Held /\ pkt[w] = k /\ k > epoch
<1>1. Count - k \in 0 .. (N - 1) /\ Count - k < Held /\ k > epoch /\ k \in Int
  BY Types, NNat DEF Taken, ThreadsInv, InvRing
<1>2. \E w \in Workers : Age(w) = Count - k
  <2> DEFINE j == Count - k
             v == IF j <= Newest THEN Newest - j ELSE Newest - j + N
  <2>1. v \in Workers /\ Steps(v, Newest) = j
    <3>1. j \in 0 .. (N - 1) /\ Newest \in 0 .. (N - 1)
      BY <1>1, Types DEF Workers
    <3> HIDE DEF j
    <3> QED
      BY <3>1, NNat DEF Steps, Workers
  <2> QED
    BY <2>1 DEF Age
<1> QED
  BY <1>1, <1>2, Types DEF ThreadsInv, InvRing

\* The call ends, and of the packets before the last h all are now taken: the
\* threads passed over were ready, and only that of packet Count - h had a frame.
Passes(h) ==
  /\ h \in 0 .. Held
  /\ \A w \in Workers :
       h <= Age(w) /\ Age(w) < Held => state[w] = "INPUT_READY" /\ (frame[w] # 0 => w = finished /\ Age(w) = h)
  /\ frame[finished] # 0 => h <= Age(finished)

LEMMA Passed ==
  ASSUME ThreadsInv, main = "output", NEW h, Passes(h), NEW k \in (Taken + 1) .. (Count - h)
  PROVE  outcome[k] # "pending" /\ (outcome[k] = "frame" => k = frame[finished])
<1>1. k \in (Taken + 1) .. Count /\ Count - k >= h /\ k \in Int
  BY Types, NNat DEF Passes, Taken
<1>2. PICK w \in Workers : Age(w) = Count - k /\ Age(w) < Held /\ pkt[w] = k /\ k > epoch
  BY <1>1, HeldPackets
<1>3. state[w] = "INPUT_READY" /\ (frame[w] # 0 => w = finished)
  BY <1>1, <1>2 DEF Passes
<1>4. outcome[k] # "pending"
  BY <1>2, <1>3 DEF ThreadsInv, InvFrames
<1>5. outcome[k] = "frame" => frame[w] = k
  BY <1>2, <1>3 DEF ThreadsInv, InvFrames, Ending
<1>6. k # 0
  BY <1>2, Types
<1> QED
  BY <1>3, <1>4, <1>5, <1>6

LEMMA FrameFound ==
  ASSUME ThreadsInv, main = "output", NEW h, Passes(h), frame[finished] # 0
  PROVE  LET got == frame[finished]
         IN  got = Count - h /\ got > Taken /\ got > epoch /\ outcome[got] = "frame" /\ got \in Nat
<1>1. finished \in Workers /\ frame[finished] = pkt[finished] /\ outcome[pkt[finished]] = "frame"
      /\ Age(finished) < Held
  BY DEF ThreadsInv, InvFrames, TypeOK, TypeClient
<1>2. Age(finished) = h
  BY <1>1 DEF Passes
<1>3. pkt[finished] = Count - Age(finished) /\ Count - Age(finished) > epoch
  BY <1>1, Types DEF ThreadsInv, InvRing
<1> QED
  BY <1>1, <1>2, <1>3, Types, NNat DEF Taken

LEMMA OutGrows ==
  ASSUME ThreadsInv, main = "output", NEW h, Passes(h),
         out' = IF frame[finished] = 0 THEN out ELSE Append(out, frame[finished]),
         Taken' = Count - h, UNCHANGED <<outcome, epoch>>
  PROVE  InvOut'
<1> DEFINE got == frame[finished]
<1>1. /\ out \in Seq(Nat) /\ Range(out) = {k \in (epoch + 1) .. Taken : outcome[k] = "frame"}
      /\ \A m, n \in DOMAIN out : m < n => out[m] < out[n]
      /\ \A k \in (epoch + 1) .. Taken : outcome[k] # "pending"
      /\ Taken \in Int /\ epoch \in Nat /\ Taken >= epoch /\ Taken' \in Int /\ Taken' >= Taken
  <2>1. /\ out \in Seq(Nat) /\ Range(out) = {k \in (epoch + 1) .. Taken : outcome[k] = "frame"}
        /\ \A m, n \in DOMAIN out : m < n => out[m] < out[n]
        /\ \A k \in (epoch + 1) .. Taken : outcome[k] # "pending"
    BY DEF ThreadsInv, InvOut
  <2>2. Count \in Nat /\ epoch \in Nat /\ Held \in 0 .. N
    BY Types
  <2>3. Held <= Count - epoch /\ h \in Nat /\ h <= Held
    BY DEF ThreadsInv, InvRing, Passes
  <2>4. Taken \in Int /\ Taken >= epoch /\ Taken' \in Int /\ Taken' >= Taken
    BY <2>2, <2>3, NNat DEF Taken
  <2> QED
    BY <2>1, <2>2, <2>4
<1>2. \A k \in (Taken + 1) .. Taken' : outcome[k] # "pending" /\ (outcome[k] = "frame" => k = got)
  BY Passed
<1>3. got # 0 => got = Taken' /\ got > Taken /\ outcome[got] = "frame" /\ got \in Nat
  BY FrameFound
<1> HIDE DEF got
<1>4. \A k \in (epoch' + 1) .. Taken' : outcome'[k] # "pending"
  <2>1. \A k \in (epoch + 1) .. Taken' : k \in (epoch + 1) .. Taken \/ k \in (Taken + 1) .. Taken'
    BY <1>1
  <2> QED
    BY <1>1, <1>2, <2>1
<1>5. {k \in (epoch' + 1) .. Taken' : outcome'[k] = "frame"} =
        Range(out) \cup (IF got = 0 THEN {} ELSE {got})
  <2>1. ASSUME NEW k \in (epoch + 1) .. Taken', outcome[k] = "frame"
        PROVE  k \in Range(out) \cup (IF got = 0 THEN {} ELSE {got})
    <3>1. k \in (epoch + 1) .. Taken \/ k \in (Taken + 1) .. Taken'
      BY <1>1
    <3>2. k # 0
      BY <1>1
    <3> QED
      BY <1>1, <1>2, <2>1, <3>1, <3>2
  <2>2. ASSUME NEW k \in Range(out) \cup (IF got = 0 THEN {} ELSE {got})
        PROVE  k \in (epoch + 1) .. Taken' /\ outcome[k] = "frame"
    <3>1. CASE k \in Range(out)
      <4>1. k \in (epoch + 1) .. Taken /\ outcome[k] = "frame"
        BY <1>1, <3>1
      <4> QED
        BY <1>1, <4>1
    <3>2. CASE got # 0 /\ k = got
      BY <1>1, <1>3, <3>2
    <3> QED
      BY <2>2, <3>1, <3>2
  <2>3. epoch' = epoch /\ outcome' = outcome
    OBVIOUS
  <2> QED
    BY <2>1, <2>2, <2>3
<1>6. CASE got = 0
  <2>1. out' = out
    BY <1>6 DEF got
  <2> QED
    BY <1>1, <1>4, <1>5, <1>6, <2>1 DEF InvOut
<1>7. CASE got # 0
  <2>1. out' = Append(out, got)
    BY <1>7 DEF got
  <2>2. /\ out' \in Seq(Nat) /\ Len(out') = Len(out) + 1 /\ Len(out) \in Nat
        /\ DOMAIN out = 1 .. Len(out) /\ DOMAIN out' = 1 .. (Len(out) + 1)
        /\ \A m \in 1 .. Len(out) : out'[m] = out[m] /\ out[m] \in Nat /\ out[m] <= Taken
        /\ out'[Len(out) + 1] = got
    <3>1. \A m \in DOMAIN out : out[m] \in Range(out)
      BY DEF Range
    <3>2. \A m \in DOMAIN out : out[m] <= Taken
      BY <1>1, <3>1
    <3> QED
      BY <1>1, <1>3, <1>7, <2>1, <3>2, AppendProperties, LenProperties, ElementOfSeq
  <2>3. \A m, n \in DOMAIN out' : m < n => out'[m] < out'[n]
    <3>1. SUFFICES ASSUME NEW m \in 1 .. (Len(out) + 1), NEW n \in 1 .. (Len(out) + 1), m < n
                   PROVE  out'[m] < out'[n]
      BY <2>2
    <3>2. m \in 1 .. Len(out) /\ m \in DOMAIN out
      BY <2>2, <3>1
    <3>3. CASE n = Len(out) + 1
      BY <1>1, <1>3, <1>7, <2>2, <3>2, <3>3
    <3>4. CASE n # Len(out) + 1
      <4>1. n \in 1 .. Len(out) /\ n \in DOMAIN out
        BY <2>2, <3>4
      <4> QED
        BY <1>1, <2>2, <3>1, <3>2, <4>1
    <3> QED
      BY <3>3, <3>4
  <2>4. Range(out') = Range(out) \cup {got}
    <3>1. Range(out) = {out[m] : m \in 1 .. Len(out)} /\ Range(out') = {out'[m] : m \in 1 .. (Len(out) + 1)}
      BY <2>2 DEF Range
    <3>2. ASSUME NEW x \in Range(out') PROVE x \in Range(out) \cup {got}
      <4>1. PICK m \in 1 .. (Len(out) + 1) : x = out'[m]
        BY <3>1
      <4>2. m \in 1 .. Len(out) \/ m = Len(out) + 1
        BY <2>2
      <4> QED
        BY <2>2, <3>1, <4>1, <4>2
    <3>3. ASSUME NEW x \in Range(out) \cup {got} PROVE x \in Range(out')
      <4>1. CASE x = got
        <5>1. Len(out) + 1 \in 1 .. (Len(out) + 1)
          BY <2>2
        <5> QED
          BY <2>2, <3>1, <4>1, <5>1
      <4>2. CASE x \in Range(out)
        <5>1. PICK m \in 1 .. Len(out) : x = out[m]
          BY <3>1, <4>2
        <5>2. m \in 1 .. (Len(out) + 1) /\ x = out'[m]
          BY <2>2, <5>1
        <5> QED
          BY <3>1, <5>2
      <4> QED
        BY <4>1, <4>2
    <3> QED
      BY <3>2, <3>3
  <2> QED
    BY <1>4, <1>5, <1>7, <2>2, <2>3, <2>4 DEF InvOut
<1> QED
  BY <1>6, <1>7

\* Counted from the oldest packet whose frame is to be taken, round the ring.
LEMMA RingPlace ==
  ASSUME ThreadsInv, NEW w \in Workers
  PROVE  /\ Age(w) < Held => Steps(next_finished, w) = Held - 1 - Age(w)
         /\ Steps(next_finished, w) < Held => Age(w) = Held - 1 - Steps(next_finished, w)
<1>1. next_finished \in Workers /\ next_decoding \in 0 .. N /\ (~HasSubmitted => next_decoding \in Workers)
  BY NNat DEF ThreadsInv, TypeOK, TypeClient, InvRing, Workers
<1>2. CASE HasSubmitted
  BY <1>1, <1>2, Types, NNat DEF Held, Age, Steps, Workers
<1>3. CASE ~HasSubmitted
  <2>1. Newest = IF next_decoding = 0 THEN N - 1 ELSE next_decoding - 1
    BY <1>3 DEF Newest, HasSubmitted
  <2> QED
    BY <1>1, <1>3, <2>1, NNat DEF Held, Age, Steps, Workers
<1> QED
  BY <1>2, <1>3

\* The thread that the client looks at next.
LEMMA NextThread ==
  ASSUME ThreadsInv
  PROVE  /\ finished \in Workers /\ next_finished \in Workers
         /\ (finished + 1) % N \in Workers
         /\ (finished + 1) % N = IF finished + 1 = N THEN 0 ELSE finished + 1
<1>1. finished \in Workers /\ next_finished \in Workers
  BY DEF ThreadsInv, TypeOK, TypeClient
<1> QED
  BY <1>1, NextOf, NNat DEF Workers

LEMMA RingTurns ==
  ASSUME ThreadsInv, main = "output", state[finished] = "INPUT_READY",
         NEW next, next = (finished + 1) % N, ~LookFurther(next),
         main' = "idle", next_decoding' = Wrapped, next_finished' = next
  PROVE  /\ ~Handing' /\ ~HasSubmitted' /\ Newest' = Newest /\ Passes(Held')
         /\ next_decoding' \in Workers /\ next_finished' \in Workers
         /\ delaying => next_finished' <= next_decoding'
         /\ (avpkt = "empty" /\ frame[finished] = 0 => Passes(0))
<1> DEFINE d == Steps(next_finished, finished)
<1>1. /\ finished \in Workers /\ next_finished \in Workers /\ next \in Workers
      /\ next = IF finished + 1 = N THEN 0 ELSE finished + 1
  BY NextThread
<1>2. ~Handing /\ ~Handing' /\ ~HasSubmitted'
  BY DEF Handing, HasSubmitted
<1>3. /\ next_decoding \in 0 .. N /\ next_decoding' \in Workers
      /\ next_decoding' = IF next_decoding = N THEN 0 ELSE next_decoding
      /\ (HasSubmitted => next_decoding >= 1) /\ (~HasSubmitted => next_decoding < N)
  BY NNat DEF ThreadsInv, TypeOK, TypeClient, InvRing, Wrapped, Workers
<1>4. Newest' = Newest /\ Newest = IF next_decoding = 0 THEN N - 1 ELSE next_decoding - 1
  BY <1>2, <1>3, NNat DEF Newest
<1>5. Held' = Steps(next, next_decoding')
  BY <1>2 DEF Held, Steps
<1>6. Held = IF HasSubmitted THEN Steps(next_finished, next_decoding - 1) + 1
                             ELSE Steps(next_finished, next_decoding)
  BY <1>3, <1>4, NNat DEF Held
<1>7. delaying => /\ next_finished <= next_decoding /\ next_decoding < N
                  /\ (HasSubmitted => next_finished < next_decoding)
  BY DEF ThreadsInv, InvRing
<1>8. d \in 0 .. (N - 1) /\ \A w \in Workers : w # finished => Steps(next_finished, w) # d
  BY <1>1, NNat DEF Steps, Workers
<1>9. \A w \in Workers : Steps(next_finished, w) < d => state[w] = "INPUT_READY" /\ frame[w] = 0
  BY DEF ThreadsInv, InvFrames
<1>10. CASE avpkt = "empty" /\ frame[finished] = 0
  <2>1. next = next_finished
    BY <1>10 DEF LookFurther
  <2>2. d = N - 1
    BY <1>1, <2>1, NNat DEF Steps, Workers
  <2>3. \A w \in Workers : state[w] = "INPUT_READY" /\ frame[w] = 0
    <3>1. ASSUME NEW w \in Workers, w # finished PROVE Steps(next_finished, w) < d
      BY <1>1, <1>8, <2>2, <3>1, NNat DEF Steps, Workers
    <3> QED
      BY <1>9, <1>10, <3>1
  <2>4. Held' \in 0 .. Held
    BY <1>1, <1>3, <1>5, <1>6, <2>1, NNat DEF Steps, Workers
  <2>5. Passes(Held') /\ Passes(0)
    BY <1>10, <2>3, <2>4, Types DEF Passes
  <2>6. delaying => next_finished' <= next_decoding'
    BY <1>1, <1>3, <1>7, <2>1, NNat DEF Workers
  <2> QED
    BY <1>1, <1>2, <1>3, <1>4, <2>5, <2>6
<1>11. CASE ~(avpkt = "empty" /\ frame[finished] = 0)
  <2>1. avpkt \in {"data", "empty"}
    BY DEF ThreadsInv, TypeOK, TypeClient
  <2>2. avpkt = "data" => HasSubmitted /\ finished = next_finished /\ ~delaying
    BY DEF HasSubmitted, ThreadsInv, InvRing
  <2>3. d < Held
    <3>1. CASE frame[finished] # 0
      <4>1. Age(finished) < Held
        BY <1>1, <3>1 DEF ThreadsInv, InvFrames
      <4> QED
        BY <1>1, <4>1, RingPlace, Types
    <3>2. CASE avpkt = "data"
      BY <1>1, <1>3, <1>6, <2>2, <3>2, NNat DEF Steps, Workers
    <3> QED
      BY <1>11, <2>1, <3>1, <3>2
  <2>4. Age(finished) = Held - 1 - d
    BY <1>1, <2>3, RingPlace
  <2>5. Held' = Held - 1 - d
    <3>1. CASE HasSubmitted
      BY <1>1, <1>3, <1>5, <1>6, <2>3, <3>1, NNat DEF Steps, Workers
    <3>2. CASE ~HasSubmitted
      BY <1>1, <1>3, <1>5, <1>6, <2>3, <3>2, NNat DEF Steps, Workers
    <3> QED
      BY <3>1, <3>2
  <2>6. ASSUME NEW w \in Workers, Held' <= Age(w), Age(w) < Held
        PROVE  state[w] = "INPUT_READY" /\ (frame[w] # 0 => w = finished /\ Age(w) = Held')
    <3>1. Steps(next_finished, w) = Held - 1 - Age(w)
      BY <2>6, RingPlace
    <3>2. CASE w = finished
      BY <2>4, <2>5, <3>2
    <3>3. CASE w # finished
      <4>1. Steps(next_finished, w) < d
        BY <1>8, <2>5, <2>6, <3>1, <3>3, Types
      <4> QED
        BY <1>9, <4>1
    <3> QED
      BY <3>2, <3>3
  <2>7. Passes(Held')
    <3>1. Held' \in 0 .. Held
      BY <1>8, <2>3, <2>5, Types
    <3>2. Held' <= Age(finished)
      BY <2>4, <2>5, <3>1
    <3> QED
      BY <2>6, <3>1, <3>2 DEF Passes
  <2>8. delaying => next_finished' <= next_decoding'
    <3>1. delaying => avpkt = "empty"
      BY <2>1, <2>2
    <3>2. CASE HasSubmitted
      BY <1>1, <1>3, <1>6, <1>7, <2>3, <3>2, NNat DEF Steps, Workers
    <3>3. CASE ~HasSubmitted
      BY <1>1, <1>3, <1>6, <1>7, <2>3, <3>3, NNat DEF Steps, Workers
    <3> QED
      BY <3>2, <3>3
  <2> QED
    BY <1>1, <1>2, <1>3, <1>4, <1>11, <2>7, <2>8
<1> QED
  BY <1>10, <1>11

\* A draining call goes on to the next thread, since this one has no frame.
LEMMA LookOnKeeps ==
  ASSUME ThreadsInv, Output, LookFurther((finished + 1) % N)
  PROVE  ThreadsInv'
<1> DEFINE next == (finished + 1) % N
           err == IF result[finished] = "error" THEN pkt[finished] ELSE i
<1>1. /\ main = "output" /\ state[finished] = "INPUT_READY" /\ frame[finished] = 0 /\ next # next_finished
      /\ avpkt = "empty" /\ frame' = [frame EXCEPT ![finished] = 0] /\ out' = out
      /\ finished' = next /\ i' = err
      /\ UNCHANGED <<main, next_decoding, next_finished, drained>>
      /\ UNCHANGED <<codec, avpkt, why, created, prev_thread, delaying, die, state, pkt, result,
                     thread, ctx, buffer_mutex, frames, outcome, epoch, torn>>
  BY DEF Output, LookFurther, TakeFrame
<1>2. /\ finished \in Workers /\ next_finished \in Workers /\ next \in Workers
      /\ next = IF finished + 1 = N THEN 0 ELSE finished + 1
  BY NextThread
<1>3. err \in Nat
  BY <1>2, Types DEF ThreadsInv, TypeOK, TypeClient
<1> HIDE DEF next, err
<1>4. frame' = frame
  BY <1>1, <1>2 DEF ThreadsInv, TypeOK, TypeWorkers
<1>5. (Handing' <=> Handing) /\ (HasSubmitted' <=> HasSubmitted) /\ (Ending' <=> Ending) /\ ~Handing /\ ~Ending
  BY <1>1 DEF Handing, HasSubmitted, Ending
<1>6. Newest' = Newest /\ Held' = Held /\ Count' = Count
  BY <1>1, <1>5 DEF Newest, Held, Steps, Count
<1>7. Taken' = Taken /\ \A w : Age(w)' = Age(w)
  BY <1>6 DEF Taken, Age, Steps
<1>8. TypeClient' /\ TypeWorkers'
  BY <1>1, <1>2, <1>3, <1>4, WorkersStay DEF ThreadsInv, TypeOK, TypeClient, thread, Workers
<1>9. created = N /\ ~die
  BY <1>1, <1>5, NNat DEF ThreadsInv, TypeOK, TypeClient, InvThreads
<1>10. InvThreads' /\ NoWorkerAfterFree'
  BY <1>1, <1>9, NNat DEF ThreadsInv, InvThreads, NoWorkerAfterFree, thread
<1>11. InvWorkers'
  BY <1>1 DEF ThreadsInv, InvWorkers, thread
<1>12. InvRing'
  BY <1>1, <1>5, <1>6, <1>7 DEF ThreadsInv, InvRing
<1>13. InvFrames'
  <2>1. ASSUME NEW w \in Workers, Steps(next_finished', w) < Steps(next_finished', finished')
        PROVE  state'[w] = "INPUT_READY" /\ frame'[w] = 0
    <3>1. w = finished \/ Steps(next_finished, w) < Steps(next_finished, finished)
      BY <1>1, <1>2, <2>1, NNat DEF Steps, Workers
    <3> QED
      BY <1>1, <1>4, <3>1 DEF ThreadsInv, InvFrames
  <2> QED
    BY <1>1, <1>4, <1>5, <1>6, <1>7, <2>1 DEF ThreadsInv, InvFrames
<1>14. InvOut' /\ InvDrained'
  BY <1>1, <1>6, <1>7 DEF ThreadsInv, InvOut, InvDrained, Range
<1>15. \A w \in Workers : InSetup(w)' <=> InSetup(w)
  BY <1>1 DEF InSetup
<1>16. InvSetup'
  BY <1>1, <1>5, <1>6, <1>15 DEF ThreadsInv, InvSetup
<1>17. InvContext'
  BY <1>1, <1>5, <1>6, <1>15 DEF ThreadsInv, InvContext
<1> QED
  BY <1>8, <1>10, <1>11, <1>12, <1>13, <1>14, <1>16, <1>17, OneSetup DEF ThreadsInv, TypeOK

\* The call ends, with this thread's frame or with none.
LEMMA ReturnKeeps ==
  ASSUME ThreadsInv, Output, ~LookFurther((finished + 1) % N)
  PROVE  ThreadsInv'
<1> DEFINE next == (finished + 1) % N
           got == frame[finished]
<1>1. /\ main = "output" /\ state[finished] = "INPUT_READY"
      /\ frame' = [frame EXCEPT ![finished] = 0] /\ out' = IF got = 0 THEN out ELSE Append(out, got)
      /\ finished' = 0 /\ i' = 0 /\ main' = "idle" /\ next_decoding' = Wrapped /\ next_finished' = next
      /\ drained' = (avpkt = "empty" /\ got = 0)
      /\ UNCHANGED <<codec, avpkt, why, created, prev_thread, delaying, die, state, pkt, result,
                     thread, ctx, buffer_mutex, frames, outcome, epoch, torn>>
  BY DEF Output, TakeFrame
<1>2. finished \in Workers /\ next_finished \in Workers
  BY NextThread
<1>3. /\ ~Handing' /\ ~HasSubmitted' /\ Newest' = Newest /\ Passes(Held')
      /\ next_decoding' \in Workers /\ next_finished' \in Workers
      /\ delaying => next_finished' <= next_decoding'
      /\ (avpkt = "empty" /\ got = 0 => Passes(0))
  BY <1>1, RingTurns
<1> HIDE DEF next, got
<1>4. Count' = Count /\ Taken' = Count - Held' /\ (\A w : Age(w)' = Age(w)) /\ Held' \in 0 .. Held
  BY <1>1, <1>3 DEF Count, Taken, Age, Steps, Passes
<1>5. ~Handing /\ ~Ending /\ ~Ending'
  BY <1>1 DEF Handing, Ending
<1>6. \A w \in Workers : frame'[w] = IF w = finished THEN 0 ELSE frame[w]
  BY <1>1 DEF ThreadsInv, TypeOK, TypeWorkers
<1>7. TypeClient' /\ TypeWorkers'
  <2>1. TypeClient'
    BY <1>1, <1>3, NNat DEF ThreadsInv, TypeOK, TypeClient, Workers
  <2>2. frame' \in [Workers -> 0 .. Count]
    <3>1. frame \in [Workers -> 0 .. Count] /\ 0 \in 0 .. Count
      BY Types DEF ThreadsInv, TypeOK, TypeWorkers
    <3> QED
      BY <1>1, <3>1
  <2> QED
    BY <1>1, <1>4, <2>1, <2>2 DEF ThreadsInv, TypeOK, TypeWorkers, thread, frames
<1>8. created = N /\ ~die
  BY <1>1, <1>5, NNat DEF ThreadsInv, TypeOK, TypeClient, InvThreads
<1>9. InvThreads' /\ NoWorkerAfterFree'
  BY <1>1, <1>8, NNat DEF ThreadsInv, InvThreads, NoWorkerAfterFree, thread
<1>10. InvWorkers'
  BY <1>1 DEF ThreadsInv, InvWorkers, thread
<1>11. InvRing'
  <2>1. epoch' \in 0 .. Count' /\ Held' <= Count' - epoch'
    BY <1>1, <1>4, Types DEF ThreadsInv, InvRing
  <2>2. \A w \in Workers : IF Count' - Age(w)' > epoch' THEN pkt'[w] = Count' - Age(w)' ELSE pkt'[w] <= epoch'
    BY <1>1, <1>4 DEF ThreadsInv, InvRing
  <2>3. next_decoding' < N /\ next_decoding' # N
    BY <1>3, NNat DEF Workers
  <2> QED
    BY <1>1, <1>3, <2>1, <2>2, <2>3 DEF InvRing
<1>12. InvFrames'
  <2> SUFFICES ASSUME NEW v \in Workers
               PROVE  /\ state'[v] # "INPUT_READY" =>
                           outcome'[pkt'[v]] = "pending" /\ frame'[v] = 0 /\ Age(v)' < Held'
                      /\ state'[v] = "INPUT_READY" /\ pkt'[v] > epoch' => outcome'[pkt'[v]] # "pending"
                      /\ frame'[v] # 0 => frame'[v] = pkt'[v] /\ outcome'[pkt'[v]] = "frame" /\ Age(v)' < Held'
                      /\ ~Ending' /\ state'[v] = "INPUT_READY" /\ Age(v)' < Held' /\ outcome'[pkt'[v]] = "frame" =>
                           frame'[v] = pkt'[v]
    BY <1>1 DEF InvFrames
  <2>1. Age(v)' = Age(v) /\ Age(v) \in Int /\ Held' \in Int /\ Held' <= Held /\ Held \in Int
    BY <1>4, Types
  <2>2. CASE v = finished
    <3>1. state[v] = "INPUT_READY" /\ frame'[v] = 0
      BY <1>1, <1>6, <2>2
    <3>2. Age(v) < Held' => frame[v] = 0
      BY <1>3, <2>1, <2>2 DEF Passes
    <3>3. Age(v) < Held' /\ outcome[pkt[v]] = "frame" => frame[v] = pkt[v]
      BY <1>5, <2>1, <3>1 DEF ThreadsInv, InvFrames
    <3> QED
      BY <1>1, <2>1, <3>1, <3>2, <3>3 DEF ThreadsInv, InvFrames
  <2>3. CASE v # finished
    <3>1. frame'[v] = frame[v]
      BY <1>6, <2>3
    <3>2. state[v] # "INPUT_READY" \/ frame[v] # 0 => Age(v) < Held'
      <4>1. state[v] # "INPUT_READY" \/ frame[v] # 0 => Age(v) < Held
        BY DEF ThreadsInv, InvFrames
      <4> QED
        BY <1>3, <2>1, <2>3, <4>1 DEF Passes
    <3>3. Age(v) < Held' => Age(v) < Held
      BY <2>1
    <3> QED
      BY <1>1, <1>5, <2>1, <3>1, <3>2, <3>3 DEF ThreadsInv, InvFrames
  <2> QED
    BY <2>2, <2>3
<1>13. InvOut'
  BY <1>1, <1>3, <1>4, OutGrows DEF got
<1>14. InvDrained'
  <2>1. ASSUME drained', NEW k \in (epoch + 1) .. Count
        PROVE  outcome[k] # "pending" /\ (outcome[k] = "frame" => k \in Range(out'))
    <3>1. got = 0 /\ Passes(0) /\ out' = out
      BY <1>1, <1>3, <2>1
    <3>2. k \in (epoch + 1) .. Taken \/ k \in (Taken + 1) .. (Count - 0)
      BY Types, NNat DEF Taken
    <3>3. CASE k \in (epoch + 1) .. Taken
      BY <3>1, <3>3 DEF ThreadsInv, InvOut
    <3>4. CASE k \in (Taken + 1) .. (Count - 0)
      <4>1. outcome[k] # "pending" /\ (outcome[k] = "frame" => k = frame[finished])
        BY <1>1, <3>1, <3>4, Passed
      <4>2. k # 0
        BY Types
      <4> QED
        BY <3>1, <4>1, <4>2 DEF got
    <3> QED
      BY <3>2, <3>3, <3>4
  <2> QED
    BY <1>1, <1>4, <2>1 DEF InvDrained
<1>15. \A w \in Workers : InSetup(w)' <=> InSetup(w)
  BY <1>1 DEF InSetup
<1>16. InvSetup'
  <2>1. next_decoding = 0 => next_decoding' = 0
    BY <1>1, NNat DEF Wrapped
  <2> QED
    BY <1>1, <1>3, <1>4, <1>5, <1>15, <2>1 DEF ThreadsInv, InvSetup
<1>17. InvContext'
  BY <1>1, <1>3, <1>4, <1>5, <1>15 DEF ThreadsInv, InvContext
<1> QED
  BY <1>7, <1>9, <1>10, <1>11, <1>12, <1>13, <1>14, <1>16, <1>17, OneSetup DEF ThreadsInv, TypeOK

-------------------------------------------------------------------------------
(***************************************************************************)
(* The theorems                                                            *)
(***************************************************************************)
LEMMA InitHolds == Init => ThreadsInv
<1> SUFFICES ASSUME Init PROVE ThreadsInv
  OBVIOUS
<1>1. Count = 0 /\ Newest = N - 1 /\ Held = 0 /\ Taken = 0
  BY NNat DEF Init, Count, Newest, Handing, HasSubmitted, Held, Steps, Taken
<1>2. \A w \in Workers : Age(w) \in 0 .. (N - 1)
  BY <1>1, NNat DEF Age, Steps, Workers
<1>3. TypeClient /\ TypeWorkers
  <2>1. TypeClient
    <3>1. delaying \in BOOLEAN /\ die \in BOOLEAN
      BY DEF Init
    <3>2. next_decoding \in 0 .. N /\ next_decoding # N /\ i \in Nat /\ created \in 0 .. N
      BY NNat DEF Init
    <3>3. finished \in Workers /\ next_finished \in Workers /\ prev_thread \in Workers \cup {None}
      BY NNat DEF Init
    <3> QED
      BY <3>1, <3>2, <3>3 DEF Init, TypeClient
  <2>2. 0 \in 0 .. Count
    BY <1>1
  <2>3. owner \in Seq(Workers) /\ Len(owner) = Count /\ outcome \in Seq({"pending", "frame", "none", "error"})
    BY <1>1 DEF Init
  <2> QED
    BY <2>1, <2>2, <2>3 DEF Init, TypeWorkers, Initially, None
<1>4. \A w \in Workers : /\ state[w] = "INPUT_READY" /\ frame[w] = 0 /\ pkt[w] = 0 /\ wpc[w] = "none"
                         /\ ctx[w].last = 0 /\ ~InSetup(w)
  BY DEF Init, Initially, InSetup
<1>5. InvThreads /\ NoWorkerAfterFree
  BY <1>4, NNat DEF Init, InvThreads, NoWorkerAfterFree, Workers
<1>6. InvWorkers
  BY <1>4 DEF Init, InvWorkers
<1>7. InvRing
  BY <1>1, <1>2, <1>4, NNat DEF Init, InvRing
<1>8. InvFrames
  <2>1. \A w \in Workers : ~(Age(w) < Held) /\ ~(pkt[w] > epoch)
    BY <1>1, <1>2, <1>4 DEF Init
  <2> QED
    BY <1>4, <2>1 DEF Init, InvFrames
<1>9. InvOut /\ InvDrained
  <2>1. (epoch + 1) .. Taken = {}
    BY <1>1 DEF Init
  <2>2. out \in Seq(Nat) /\ DOMAIN out = {} /\ Range(out) = {}
    BY DEF Init, Range
  <2> QED
    BY <2>1, <2>2 DEF Init, InvOut, InvDrained
<1>10. InvSetup /\ OneSetupAtATime
  BY <1>1, <1>4 DEF Init, InvSetup, OneSetupAtATime
<1>11. InvContext
  <2>1. \A w \in Workers : ~(pkt[w] > epoch)
    BY <1>4 DEF Init
  <2> QED
    BY <1>1, <1>4, <2>1, NNat DEF InvContext
<1> QED
  BY <1>3, <1>5, <1>6, <1>7, <1>8, <1>9, <1>10, <1>11 DEF ThreadsInv, TypeOK

LEMMA WorkerKeeps ==
  ASSUME ThreadsInv, NEW w \in Workers, WorkerStep(w)
  PROVE  ThreadsInv'
BY WaitForInputKeeps, EarlyFinishKeeps, AskForFormatKeeps, AskForBufferKeeps, StillWaitingKeeps,
   FormatAnsweredKeeps, BufferAnsweredKeeps, GetBufferKeeps, FinishSetupKeeps, NoFinishKeeps,
   AwaitProgressKeeps, ReportProgressKeeps, LateFinishKeeps, OutputReadyKeeps
   DEF WorkerStep

LEMMA DecodeKeeps ==
  ASSUME ThreadsInv, DecodeStep
  PROVE  ThreadsInv'
<1>1. CASE AwaitPrev \/ AwaitRequest \/ AwaitOutput
  BY <1>1, OnlySleeps DEF AwaitPrev, AwaitRequest, AwaitOutput
<1>2. CASE Output
  BY <1>2, LookOnKeeps, ReturnKeeps
<1> QED
  BY <1>1, <1>2, LockThreadKeeps, SubmitKeeps, SubmitFailsKeeps, ServeKeeps, SubmittedKeeps
     DEF DecodeStep

LEMMA NextKeeps == ThreadsInv /\ [Next]_vars => ThreadsInv'
<1> SUFFICES ASSUME ThreadsInv, [Next]_vars PROVE ThreadsInv'
  OBVIOUS
<1>1. CASE UNCHANGED vars
  BY <1>1, OnlySleeps DEF vars
<1>2. CASE \E w \in Workers : WorkerStep(w)
  BY <1>2, WorkerKeeps
<1>3. CASE \E size \in {"data", "empty"} : Call(size)
  BY <1>3, CallKeeps
<1>4. CASE FreeStep
  BY <1>4, ParkKeeps, FlushKeeps, FreeKeeps, SignalExitKeeps, JoinKeeps DEF FreeStep
<1>5. CASE \E t \in 0 .. N : Spurious(t)
  BY <1>5, OnlySleeps DEF Spurious
<1> QED
  BY <1>1, <1>2, <1>3, <1>4, <1>5, CreateWorkerKeeps, CreateFailsKeeps, DecodeKeeps, StartKeeps
     DEF Next

\* The threads, the ring and the setups are as the client and the workers expect
\* of each other, whoever runs when.
THEOREM Invariance == Spec => []ThreadsInv
<1>1. Init => ThreadsInv
  BY InitHolds
<1>2. ThreadsInv /\ [Next]_vars => ThreadsInv'
  BY NextKeeps
<1> QED
  BY <1>1, <1>2, PTL DEF Spec

\* The client gets the frames of the packets in their order, and none is missing
\* before the last one it got.
THEOREM FramesComeInOrder == Spec => []FramesInOrder
<1>1. ThreadsInv => FramesInOrder
  <2> SUFFICES ASSUME ThreadsInv PROVE FramesInOrder
    OBVIOUS
  <2> DEFINE last == IF out = <<>> THEN epoch ELSE out[Len(out)]
  <2>1. /\ out \in Seq(Nat) /\ Range(out) = {k \in (epoch + 1) .. Taken : outcome[k] = "frame"}
        /\ \A m, n \in DOMAIN out : m < n => out[m] < out[n]
        /\ epoch \in Nat /\ Taken \in Int
    BY Types DEF ThreadsInv, InvOut, Taken
  <2>2. CASE out = <<>>
    <3>1. Range(out) = {}
      BY <2>2 DEF Range
    <3>2. (epoch + 1) .. last = {}
      BY <2>1, <2>2
    <3> QED
      BY <2>1, <2>2, <3>1, <3>2 DEF FramesInOrder
  <2>3. CASE out # <<>>
    <3>1. /\ Len(out) \in Nat /\ Len(out) \in DOMAIN out /\ DOMAIN out = 1 .. Len(out)
      BY <2>1, <2>3, LenProperties, EmptySeq
    <3>2. last \in Range(out) /\ last = out[Len(out)]
      BY <2>3, <3>1 DEF Range
    <3>3. \A k \in Range(out) : k <= last
      <4>1. SUFFICES ASSUME NEW m \in DOMAIN out PROVE out[m] <= out[Len(out)]
        BY <3>2 DEF Range
      <4>2. out[m] \in Nat /\ out[Len(out)] \in Nat
        BY <2>1, <3>1, ElementOfSeq
      <4>3. m = Len(out) \/ m < Len(out)
        BY <3>1
      <4> QED
        BY <2>1, <3>1, <4>2, <4>3
    <3>4. last \in (epoch + 1) .. Taken
      BY <2>1, <3>2
    <3> HIDE DEF last
    <3>5. Range(out) = {k \in (epoch + 1) .. last : outcome[k] = "frame"}
      BY <2>1, <3>3, <3>4
    <3> QED
      BY <2>1, <2>3, <3>5 DEF FramesInOrder, last
  <2> QED
    BY <2>2, <2>3
<1> QED
  BY <1>1, Invariance, PTL

\* No frame is held back that the client could have had.
THEOREM NothingHeldBack == Spec => []NothingIsHeldBack
<1>1. ThreadsInv => NothingIsHeldBack
  <2> SUFFICES ASSUME ThreadsInv PROVE NothingIsHeldBack
    OBVIOUS
  <2>1. \A k \in Range(out) : \E n \in DOMAIN out : out[n] = k
    BY DEF Range
  <2>2. DrainedMeansEmpty
    BY <2>1 DEF ThreadsInv, InvDrained, DrainedMeansEmpty
  <2>3. AtMostNMinusOneBehind
    <3>1. SUFFICES ASSUME main = "idle", NEW k \in (epoch + 1) .. Count, outcome[k] = "frame", Count - k >= N - 1
                   PROVE  k \in Range(out)
      BY <2>1 DEF AtMostNMinusOneBehind
    <3>2. ~HasSubmitted /\ next_decoding < N
      BY <3>1, NNat DEF HasSubmitted, Handing, ThreadsInv, TypeOK, TypeClient
    <3>3. Held <= N - 1
      BY <3>2, NextIsFree
    <3>4. k \in (epoch + 1) .. Taken
      BY <3>1, <3>3, Types, NNat DEF Taken
    <3> QED
      BY <3>1, <3>4 DEF ThreadsInv, InvOut
  <2> QED
    BY <2>2, <2>3 DEF NothingIsHeldBack
<1> QED
  BY <1>1, Invariance, PTL

\* Each packet is parsed with the context of the one before it.
THEOREM ContextPassed == Spec => []ContextIsPassedOn
<1>1. ThreadsInv => ContextIsPassedOn
  BY DEF ThreadsInv, InvContext, ContextIsPassedOn
<1> QED
  BY <1>1, Invariance, PTL
===============================================================================
