-------------------------- MODULE SliceThreadsProofs --------------------------
(***************************************************************************)
(* Proofs about SliceThreads, for every number of threads, every set of    *)
(* job counts and every number of calls: the types, the barrier, the       *)
(* absence of lost wakeups and of uses after free, and the refinement of   *)
(* ParallelFor.                                                            *)
(*                                                                         *)
(* Then about WppRows, which runs rows on the pool, for every width of a   *)
(* row and any set of corrupt rows: under the rows the pool behaves as     *)
(* SliceThreads says, no CTB is decoded before those above it, and each    *)
(* row starts from the right contexts.                                     *)
(***************************************************************************)
EXTENDS WppRows, FiniteSetTheorems, TLAPS

\* The facts about the constants that every step needs.
LEMMA Constants ==
  /\ N \in Nat /\ N >= 2
  /\ \A n \in JobCounts : n \in Nat /\ n > 0 /\ 0 .. (n - 1) \subseteq AllJobs
  /\ Workers \subseteq Nat /\ IsFiniteSet(Workers) /\ Cardinality(Workers) = N
<1>1. N \in Nat /\ N >= 2
  BY NAssumption
<1>2. ASSUME NEW n \in JobCounts
      PROVE  n \in Nat /\ n > 0 /\ 0 .. (n - 1) \subseteq AllJobs
  <2>1. n \in Nat /\ n > 0
    BY JobsAssumption
  <2>2. 0 .. (n - 1) \subseteq AllJobs
    BY DEF AllJobs
  <2>3. QED
    BY <2>1, <2>2
<1>3. Workers \subseteq Nat /\ IsFiniteSet(Workers) /\ Cardinality(Workers) = N
  <2>1. IsFiniteSet(0 .. (N - 1)) /\ Cardinality(0 .. (N - 1)) = N
    BY <1>1, FS_Interval
  <2>2. QED
    BY <1>1, <2>1 DEF Workers
<1>4. QED
  BY <1>1, <1>2, <1>3

-------------------------------------------------------------------------------
(***************************************************************************)
(* Type correctness                                                        *)
(***************************************************************************)

\* A job being run is one of the current call, so its slot of rets exists.
LEMMA RunningJobIsAJob ==
  ASSUME IInv, NEW w \in Busy
  PROVE  our_job[w] \in Jobs /\ our_job[w] \in AllJobs
<1>1. current_execute # 0 /\ our_job[w] < job_count /\ job_count \in JobCounts
  BY DEF IInv, InvLoop, InvThreads
<1>2. our_job[w] \in Nat /\ job_count \in Nat
  BY DEF IInv, TypeOK, Busy
<1>3. QED
  BY <1>1, <1>2, Constants DEF Jobs

LEMMA InitTypeOK == Init => TypeOK
<1> SUFFICES ASSUME Init PROVE TypeOK
  OBVIOUS
<1>1. 0 \in 0 .. N /\ N \in 0 .. N
  BY NAssumption
<1>2. /\ rets \in [AllJobs -> Nat] /\ our_job \in [Workers -> Nat]
      /\ last_execute \in [Workers -> Nat] /\ self_id \in [Workers -> Nat]
      /\ tcount \in [Workers -> Nat]
  BY DEF Init
<1>3. QED
  BY <1>1, <1>2 DEF Init, TypeOK

\* Every step keeps the types.
LEMMA NextTypeOK == IInv /\ [Next]_vars => TypeOK'
<1> SUFFICES ASSUME IInv, [Next]_vars PROVE TypeOK'
  OBVIOUS
<1> USE DEF shared, locals, vars
<1>0. TypeOK /\ Workers \subseteq Nat /\ N \in Nat /\ N >= 2
  BY Constants DEF IInv
<1>1. ASSUME NEW w \in Workers, WorkerEnter(w) PROVE TypeOK'
  BY <1>0, <1>1 DEF TypeOK, WorkerEnter
<1>2. ASSUME NEW w \in Workers, WorkerRegister(w) PROVE TypeOK'
  BY <1>0, <1>2 DEF TypeOK, WorkerRegister, LoopHead, Settle, SignalMain
<1>3. ASSUME NEW w \in Workers, RunJob(w) PROVE TypeOK'
  <2>1. our_job[w] \in AllJobs
    BY <1>3, RunningJobIsAJob DEF RunJob, Busy
  <2>2. QED
    BY <1>0, <1>3, <2>1 DEF TypeOK, RunJob
<1>4. ASSUME NEW w \in Workers, CountJob(w) PROVE TypeOK'
  BY <1>0, <1>4 DEF TypeOK, CountJob, LoopHead, Settle, SignalMain
<1>5. ASSUME NEW w \in Workers, Recheck(w) PROVE TypeOK'
  BY <1>0, <1>5 DEF TypeOK, Recheck, Settle, SignalMain
<1>6. ASSUME NEW w \in Workers, SpuriousWorker(w) PROVE TypeOK'
  BY <1>0, <1>6 DEF TypeOK, SpuriousWorker
<1>7. ASSUME CreateWorker PROVE TypeOK'
  <2>1. created + 1 \in 0 .. N
    BY <1>0, <1>7 DEF TypeOK, CreateWorker
  <2>2. QED
    BY <1>0, <1>7, <2>1 DEF TypeOK, CreateWorker
<1>8. ASSUME CreateFails PROVE TypeOK'
  BY <1>0, <1>8 DEF TypeOK, CreateFails
<1>9. ASSUME InitPark \/ MainWoken \/ SpuriousMain \/ Joined PROVE TypeOK'
  BY <1>0, <1>9 DEF TypeOK, InitPark, MainWoken, SpuriousMain, Joined, Park
<1>10. ASSUME NEW n \in JobCounts, Execute(n) PROVE TypeOK'
  BY <1>0, <1>10, Constants DEF TypeOK, Execute, Park, WakeAll
<1>11. ASSUME Free PROVE TypeOK'
  BY <1>0, <1>11 DEF TypeOK, Free, WakeAll
<1>12. ASSUME UNCHANGED vars PROVE TypeOK'
  BY <1>0, <1>12 DEF TypeOK
<1>13. QED
  BY <1>1, <1>2, <1>3, <1>4, <1>5, <1>6, <1>7, <1>8, <1>9, <1>10, <1>11, <1>12
     DEF Next, Worker, Main, Terminated

-------------------------------------------------------------------------------
(***************************************************************************)
(* Start-up, shutdown and who is registered                                *)
(***************************************************************************)

LEMMA InitInv == Init => InvThreads /\ InvIds /\ InvLoop /\ InvCount
<1> SUFFICES ASSUME Init PROVE InvThreads /\ InvIds /\ InvLoop /\ InvCount
  OBVIOUS
<1>1. Registered = {} /\ Busy = {} /\ Jobs = {}
  BY DEF Init, Registered, Busy, Jobs
<1>2. InvThreads
  BY <1>1, Constants DEF Init, InvThreads, Open
<1>3. InvIds
  BY <1>1, Constants, FS_EmptySet DEF Init, InvIds
<1>4. InvLoop
  BY <1>1, Constants DEF Init, InvLoop
<1>5. InvCount
  BY <1>1, Constants DEF Init, InvCount
<1>6. QED
  BY <1>2, <1>3, <1>4, <1>5

\* When the counter shows N before the first call, every thread took its id.
LEMMA AllRegistered ==
  ASSUME IInv, current_job = N + job_count, Open
  PROVE  Registered = Workers
<1>1. CASE current_execute # 0
  BY <1>1 DEF IInv, InvThreads
<1>2. CASE current_execute = 0
  <2>1. Cardinality(Registered) = Cardinality(Workers)
    BY <1>2, Constants DEF IInv, InvThreads, InvIds
  <2>2. Registered \in SUBSET Workers
    BY DEF Registered
  <2>3. QED
    BY <2>1, <2>2, Constants, FS_Subset
<1>3. QED
  BY <1>1, <1>2

\* Every step keeps InvThreads.
LEMMA NextInvThreads == IInv /\ [Next]_vars => InvThreads'
<1> SUFFICES ASSUME IInv, [Next]_vars PROVE InvThreads'
  OBVIOUS
<1> USE DEF shared, locals, vars, InvThreads, Open
<1>0. TypeOK /\ InvThreads /\ Workers \subseteq Nat /\ N \in Nat /\ N >= 2
  BY Constants DEF IInv
<1>1. ASSUME NEW w \in Workers, WorkerEnter(w) PROVE InvThreads'
  BY <1>0, <1>1 DEF TypeOK, WorkerEnter, Registered
<1>2. ASSUME NEW w \in Workers, WorkerRegister(w) PROVE InvThreads'
  BY <1>0, <1>2 DEF TypeOK, WorkerRegister, LoopHead, Settle, SignalMain, Registered, LockFree
<1>3. ASSUME NEW w \in Workers, RunJob(w) PROVE InvThreads'
  BY <1>0, <1>3 DEF TypeOK, RunJob, Registered
<1>4. ASSUME NEW w \in Workers, CountJob(w) PROVE InvThreads'
  BY <1>0, <1>4 DEF TypeOK, CountJob, LoopHead, Settle, SignalMain, Registered, LockFree
<1>5. ASSUME NEW w \in Workers, Recheck(w) PROVE InvThreads'
  BY <1>0, <1>5 DEF TypeOK, Recheck, Settle, SignalMain, Registered, LockFree
<1>6. ASSUME NEW w \in Workers, SpuriousWorker(w) PROVE InvThreads'
  BY <1>0, <1>6 DEF TypeOK, SpuriousWorker, Registered
<1>7. ASSUME CreateWorker PROVE InvThreads'
  BY <1>0, <1>7 DEF TypeOK, CreateWorker, Registered
<1>8. ASSUME CreateFails PROVE InvThreads'
  BY <1>0, <1>8 DEF TypeOK, CreateFails, Registered
<1>9. ASSUME InitPark \/ MainWoken PROVE InvThreads'
  <2>1. Registered' = Registered
    BY <1>9 DEF InitPark, MainWoken, Registered
  <2>2. main' = "idle" => Registered = Workers
    BY <1>0, <1>9, AllRegistered DEF TypeOK, InitPark, MainWoken, Park
  <2>3. QED
    BY <1>0, <1>9, <2>1, <2>2 DEF TypeOK, InitPark, MainWoken, Park
<1>14. ASSUME SpuriousMain PROVE InvThreads'
  BY <1>0, <1>14 DEF TypeOK, SpuriousMain, Registered
<1>15. ASSUME Joined PROVE InvThreads'
  <2>1. \A w \in Workers : pc[w] \in {"none", "exit"}
    BY <1>0, <1>15 DEF TypeOK, Joined, Workers
  <2>2. QED
    BY <1>0, <1>15, <2>1 DEF TypeOK, Joined, Registered
<1>10. ASSUME NEW n \in JobCounts, Execute(n) PROVE InvThreads'
  BY <1>0, <1>10, Constants DEF TypeOK, Execute, Park, WakeAll, Registered
<1>11. ASSUME Free PROVE InvThreads'
  BY <1>0, <1>11 DEF TypeOK, Free, WakeAll, Registered
<1>12. ASSUME UNCHANGED vars PROVE InvThreads'
  BY <1>0, <1>12 DEF TypeOK, Registered
<1>13. QED
  BY <1>1, <1>2, <1>3, <1>4, <1>5, <1>6, <1>7, <1>8, <1>9, <1>10, <1>11, <1>12,
     <1>14, <1>15
     DEF Next, Worker, Main, Terminated

-------------------------------------------------------------------------------
(***************************************************************************)
(* The ids handed out by current_job++                                     *)
(***************************************************************************)

\* A thread that has not taken its id exists only before the first call.
LEMMA LateThread ==
  ASSUME IInv, NEW w \in Workers, pc[w] \in {"none", "new", "enter"}
  PROVE  /\ current_execute = 0 /\ job_count = 0
         /\ w \notin Registered
         /\ current_job = Cardinality(Registered)
         /\ current_job \in Nat /\ current_job < N
<1>1. w \notin Registered
  BY DEF Registered
<1>2. current_execute = 0 /\ job_count = 0
  BY <1>1 DEF IInv, InvThreads
<1>3. current_job = Cardinality(Registered)
  BY <1>2 DEF IInv, InvIds
<1>4. Registered \in SUBSET Workers
  BY DEF Registered
<1>5. Cardinality(Registered) <= N /\ Cardinality(Registered) # N
  BY <1>1, <1>4, Constants, FS_Subset
<1>6. QED
  BY <1>1, <1>2, <1>3, <1>5, Constants DEF IInv, TypeOK

\* Before a call starts all threads have their ids and the counter is at least N.
LEMMA IdleCounter ==
  ASSUME IInv, main = "idle"
  PROVE  /\ Registered = Workers /\ current_job >= N
         /\ \A k \in Workers : \E w \in Workers : self_id[w] = k
<1>1. Registered = Workers
  BY DEF IInv, InvThreads
<1>2. current_job >= N
  <2>1. CASE current_execute # 0
    BY <2>1 DEF IInv, InvIds
  <2>2. CASE current_execute = 0
    BY <2>2, <1>1, Constants DEF IInv, InvIds
  <2>3. QED
    BY <2>1, <2>2
<1>3. \A k \in Workers : k \in Nat /\ k < N
  BY Constants DEF Workers
<1>4. \A k \in Workers : k < current_job
  BY <1>2, <1>3, Constants DEF IInv, TypeOK
<1>5. \A k \in Workers : \E w \in Workers : self_id[w] = k
  BY <1>1, <1>4 DEF IInv, InvIds
<1>6. QED
  BY <1>1, <1>2, <1>5

\* Every step keeps InvIds.
LEMMA NextInvIds == IInv /\ [Next]_vars => InvIds'
<1> SUFFICES ASSUME IInv, [Next]_vars PROVE InvIds'
  OBVIOUS
<1> USE DEF shared, locals, vars
<1>0. TypeOK /\ InvThreads /\ InvIds /\ N \in Nat /\ N >= 2 /\ Workers \subseteq Nat
  BY Constants DEF IInv
<1>1. ASSUME NEW w \in Workers, WorkerEnter(w) PROVE InvIds'
  <2>1. Registered' = Registered
    BY <1>0, <1>1 DEF TypeOK, WorkerEnter, Registered
  <2>2. job_count = 0
    BY <1>1, LateThread DEF WorkerEnter
  <2>3. QED
    BY <1>0, <1>1, <2>1, <2>2 DEF TypeOK, WorkerEnter, InvIds, InvThreads, Open, Registered
<1>2. ASSUME NEW w \in Workers, WorkerRegister(w) PROVE InvIds'
  <2>1. /\ current_execute = 0 /\ job_count = 0 /\ w \notin Registered
        /\ current_job = Cardinality(Registered) /\ current_job \in Nat /\ current_job < N
    BY <1>2, LateThread DEF WorkerRegister
  <2>2. pc'[w] \notin {"none", "new", "enter"} /\ \A v \in Workers \ {w} : pc'[v] = pc[v]
    BY <1>0, <1>2 DEF TypeOK, WorkerRegister, LoopHead, Settle
  <2>3. Registered' = Registered \cup {w}
    BY <2>2 DEF Registered
  <2>4. Cardinality(Registered') = current_job'
    <3>1. IsFiniteSet(Registered)
      BY Constants, FS_Subset DEF Registered
    <3>2. QED
      BY <1>2, <2>1, <2>3, <3>1, FS_AddElement DEF WorkerRegister
  <2>5. /\ self_id' = [self_id EXCEPT ![w] = current_job]
        /\ current_job' = current_job + 1
        /\ UNCHANGED <<tcount, current_execute>>
        /\ Open' => Open
    BY <1>2 DEF WorkerRegister, LoopHead, Settle, SignalMain, Open
  <2>6. \A k \in Workers : k < current_job' => \E v \in Registered' : self_id'[v] = k
    <3> TAKE k \in Workers
    <3> HAVE k < current_job'
    <3>1. CASE k = current_job
      BY <1>0, <2>3, <2>5, <3>1 DEF TypeOK
    <3>2. CASE k < current_job
      BY <1>0, <2>1, <2>3, <2>5, <3>2 DEF TypeOK, InvIds, Registered
    <3>3. QED
      BY <1>0, <2>1, <2>5, <3>1, <3>2
  <2>7. \A v \in Registered' : self_id'[v] < current_job' /\ self_id'[v] < N
    BY <1>0, <2>1, <2>3, <2>5 DEF TypeOK, InvIds, Registered
  <2>8. \A u, v \in Registered' : self_id'[u] = self_id'[v] => u = v
    BY <1>0, <2>1, <2>3, <2>5 DEF TypeOK, InvIds, Registered
  <2>9. \A v \in Workers : pc'[v] = "enter" => our_job'[v] = 0
    BY <1>0, <1>2, <2>2 DEF TypeOK, WorkerRegister, LoopHead, Settle, InvIds
  <2>10. Open' => \A v \in Workers : pc'[v] \notin {"none", "new"} => tcount'[v] = N
    BY <1>0, <1>2, <2>2, <2>5 DEF InvIds, WorkerRegister
  <2>11. QED
    BY <2>1, <2>4, <2>5, <2>6, <2>7, <2>8, <2>9, <2>10 DEF InvIds
<1>3. ASSUME NEW w \in Workers, RunJob(w) PROVE InvIds'
  <2>1. Registered' = Registered
    BY <1>0, <1>3 DEF TypeOK, RunJob, Registered
  <2>2. QED
    BY <1>0, <1>3, <2>1 DEF TypeOK, RunJob, InvIds, Open
<1>4. ASSUME NEW w \in Workers, CountJob(w) PROVE InvIds'
  <2>1. current_execute # 0
    BY <1>4 DEF CountJob, Busy, IInv, InvLoop
  <2>2. Registered' = Registered
    BY <1>0, <1>4 DEF TypeOK, CountJob, LoopHead, Settle, Registered
  <2>3. /\ UNCHANGED <<self_id, tcount, current_execute>>
        /\ current_job' = current_job + 1
        /\ Open' => Open
        /\ \A v \in Workers : pc'[v] = "enter" => pc[v] = "enter" /\ our_job'[v] = our_job[v]
        /\ \A v \in Workers : pc'[v] \notin {"none", "new"} => pc[v] \notin {"none", "new"}
    BY <1>0, <1>4 DEF TypeOK, CountJob, LoopHead, Settle, SignalMain, Open
  <2>4. current_job \in Nat /\ current_job >= N
    BY <1>0, <2>1 DEF TypeOK, InvIds
  <2>5. \A k \in Workers : k < current_job
    BY <1>0, <2>4 DEF Workers
  <2>6. \A k \in Workers : \E v \in Registered : self_id[v] = k
    BY <1>0, <2>5 DEF InvIds
  <2>7. \A v \in Registered : self_id[v] < current_job' /\ self_id[v] < N
    BY <1>0, <2>3, <2>4 DEF TypeOK, InvIds, Registered
  <2>8. QED
    BY <1>0, <2>1, <2>2, <2>3, <2>4, <2>6, <2>7 DEF InvIds
<1>5. ASSUME NEW w \in Workers, Recheck(w) PROVE InvIds'
  <2>1. Registered' = Registered
    BY <1>0, <1>5 DEF TypeOK, Recheck, Settle, Registered
  <2>2. QED
    BY <1>0, <1>5, <2>1 DEF TypeOK, Recheck, Settle, SignalMain, InvIds, Open
<1>6. ASSUME NEW w \in Workers, SpuriousWorker(w) PROVE InvIds'
  <2>1. Registered' = Registered
    BY <1>0, <1>6 DEF TypeOK, SpuriousWorker, Registered
  <2>2. QED
    BY <1>0, <1>6, <2>1 DEF TypeOK, SpuriousWorker, InvIds, Open
<1>7. ASSUME CreateWorker PROVE InvIds'
  <2>1. Registered' = Registered
    BY <1>0, <1>7 DEF TypeOK, CreateWorker, Registered, InvThreads
  <2>2. QED
    BY <1>0, <1>7, <2>1 DEF TypeOK, CreateWorker, InvIds, Open
<1>8. ASSUME CreateFails PROVE InvIds'
  <2>1. Registered' = Registered
    BY <1>8 DEF CreateFails, Registered
  <2>2. QED
    BY <1>0, <1>8, <2>1 DEF CreateFails, InvIds, Open
<1>9. ASSUME InitPark \/ MainWoken \/ SpuriousMain \/ Joined PROVE InvIds'
  <2>1. Registered' = Registered
    BY <1>9 DEF InitPark, MainWoken, SpuriousMain, Joined, Registered
  <2>2. Open' => Open
    BY <1>9 DEF InitPark, MainWoken, SpuriousMain, Joined, Park, Open
  <2>3. QED
    BY <1>0, <1>9, <2>1, <2>2 DEF InitPark, MainWoken, SpuriousMain, Joined, InvIds
<1>10. ASSUME NEW n \in JobCounts, Execute(n) PROVE InvIds'
  <2>1. Registered' = Registered
    BY <1>0, <1>10 DEF TypeOK, Execute, WakeAll, Registered
  <2>2. /\ current_job' = N /\ current_execute' # 0
        /\ UNCHANGED <<self_id, our_job, tcount>>
        /\ \A v \in Workers : pc'[v] = "enter" => pc[v] = "enter"
        /\ \A v \in Workers : pc'[v] \notin {"none", "new"} => pc[v] \notin {"none", "new"}
        /\ Open
    BY <1>0, <1>10 DEF TypeOK, Execute, WakeAll, InvThreads, Open
  <2>3. /\ Registered = Workers
        /\ \A k \in Workers : \E v \in Workers : self_id[v] = k
    BY <1>10, IdleCounter DEF Execute
  <2>4. QED
    BY <1>0, <2>1, <2>2, <2>3 DEF InvIds, Registered
<1>11. ASSUME Free PROVE InvIds'
  <2>1. Registered' = Registered
    BY <1>0, <1>11 DEF TypeOK, Free, WakeAll, Registered
  <2>2. QED
    BY <1>0, <1>11, <2>1 DEF TypeOK, Free, WakeAll, InvIds, Open
<1>12. ASSUME UNCHANGED vars PROVE InvIds'
  BY <1>0, <1>12 DEF InvIds, Open, Registered
<1>13. QED
  BY <1>1, <1>2, <1>3, <1>4, <1>5, <1>6, <1>7, <1>8, <1>9, <1>10, <1>11, <1>12
     DEF Next, Worker, Main, Terminated

-------------------------------------------------------------------------------
(***************************************************************************)
(* The jobs that are handed out                                            *)
(***************************************************************************)

LEMMA OutstandingAreJobs == IInv => Outstanding \subseteq Jobs /\ IsFiniteSet(Outstanding)
<1> SUFFICES ASSUME IInv PROVE Outstanding \subseteq Jobs /\ IsFiniteSet(Outstanding)
  OBVIOUS
<1>1. job_count \in Nat
  BY DEF IInv, TypeOK
<1>2. Todo \subseteq Jobs
  BY <1>1 DEF Todo, Jobs, IInv, TypeOK
<1>3. {our_job[w] : w \in Busy} \subseteq Jobs
  BY RunningJobIsAJob
<1>4. IsFiniteSet(Jobs)
  BY <1>1, FS_Interval DEF Jobs
<1>5. QED
  BY <1>2, <1>3, <1>4, FS_Subset DEF Outstanding

\* Outside a call no job is outstanding and no thread is inside one.
LEMMA NothingOutstanding ==
  ASSUME IInv, current_job = N + job_count \/ main \notin {"parked", "woken"}
  PROVE  current_execute # 0 => Outstanding = {} /\ Todo = {} /\ Busy = {}
<1> SUFFICES ASSUME current_execute # 0 PROVE Outstanding = {} /\ Todo = {} /\ Busy = {}
  OBVIOUS
<1>1. current_job = N + job_count /\ current_job \in Nat /\ job_count \in Nat
  BY DEF IInv, InvCount, TypeOK
<1>2. Cardinality(Outstanding) = 0
  BY <1>1, Constants DEF IInv, InvCount
<1>3. Outstanding = {}
  BY <1>2, OutstandingAreJobs, FS_EmptySet
<1>4. QED
  BY <1>3 DEF Outstanding

LEMMA NotBusy ==
  ASSUME IInv, main \notin {"parked", "woken"}
  PROVE  Busy = {}
<1>1. CASE current_execute # 0
  BY <1>1, NothingOutstanding
<1>2. CASE current_execute = 0
  BY <1>2 DEF IInv, InvLoop
<1>3. QED
  BY <1>1, <1>2

\* Every step keeps InvLoop.
LEMMA NextInvLoop == IInv /\ [Next]_vars => InvLoop'
<1> SUFFICES ASSUME IInv, [Next]_vars PROVE InvLoop'
  OBVIOUS
<1> USE DEF shared, locals, vars
<1>0. TypeOK /\ InvThreads /\ InvIds /\ InvLoop /\ N \in Nat /\ N >= 2
  BY Constants DEF IInv
<1>1. ASSUME NEW w \in Workers, WorkerEnter(w) PROVE InvLoop'
  BY <1>0, <1>1 DEF TypeOK, WorkerEnter, InvLoop, Busy
<1>2. ASSUME NEW w \in Workers, WorkerRegister(w) PROVE InvLoop'
  <2>1. current_execute = 0 /\ job_count = 0
    BY <1>2, LateThread DEF WorkerRegister
  <2>2. last_execute[w] = current_execute
    BY <1>0, <2>1 DEF TypeOK, InvLoop
  <2>3. /\ pc'[w] \in {"wait", "exit"} /\ (pc'[w] = "wait" => ~done)
        /\ \A v \in Workers \ {w} : pc'[v] = pc[v]
        /\ \A v \in Workers : last_execute'[v] <= current_execute
        /\ last_execute'[w] = current_execute
        /\ UNCHANGED <<current_execute, done>>
        /\ \A v \in Workers \ {w} : last_execute'[v] = last_execute[v]
    BY <1>0, <1>2, <2>1, <2>2 DEF TypeOK, WorkerRegister, LoopHead, Settle, InvLoop
  <2>4. Busy = {} /\ Busy' = {}
    BY <1>0, <1>2, <2>1, <2>3 DEF Busy, InvLoop, WorkerRegister
  <2>5. QED
    BY <1>0, <2>3, <2>4 DEF InvLoop
<1>3. ASSUME NEW w \in Workers, RunJob(w) PROVE InvLoop'
  BY <1>0, <1>3 DEF TypeOK, RunJob, InvLoop, Busy
<1>4. ASSUME NEW w \in Workers, CountJob(w) PROVE InvLoop'
  <2>1. /\ w \in Busy /\ current_execute # 0 /\ last_execute[w] = current_execute
        /\ current_job \in Nat /\ current_job >= N
    BY <1>0, <1>4 DEF CountJob, Busy, InvLoop, InvIds, TypeOK
  <2>2. ~done
    BY <1>0, <2>1, NotBusy DEF InvThreads
  <2>3. CASE current_job < job_count
    <3>1. Busy' = Busy
      BY <1>0, <1>4, <2>3 DEF TypeOK, CountJob, LoopHead, Busy
    <3>2. /\ our_job' = [our_job EXCEPT ![w] = current_job]
          /\ current_job' = current_job + 1
          /\ UNCHANGED <<last_execute, self_id, current_execute, job_count, done>>
          /\ pc' = [pc EXCEPT ![w] = "run"]
      BY <1>0, <1>4, <2>3 DEF TypeOK, CountJob, LoopHead
    <3>3. \A v \in Busy : our_job[v] < current_job
      BY <1>0, <2>1 DEF InvLoop, InvIds, InvThreads, TypeOK, Busy, Registered
    <3>4. \A v \in Busy : /\ our_job'[v] < job_count'
                          /\ our_job'[v] = self_id'[v] \/ our_job'[v] \in N .. (current_job' - 1)
      BY <1>0, <2>1, <2>3, <3>2 DEF InvLoop, TypeOK, Busy
    <3>5. \A u, v \in Busy : our_job'[u] = our_job'[v] => u = v
      BY <1>0, <2>1, <3>2, <3>3 DEF InvLoop, TypeOK, Busy
    <3>6. \A v \in Workers : pc'[v] = "wait" => pc[v] = "wait"
      BY <1>0, <3>2 DEF TypeOK
    <3>7. QED
      BY <1>0, <3>1, <3>2, <3>4, <3>5, <3>6 DEF InvLoop
  <2>4. CASE ~(current_job < job_count)
    <3>1. /\ pc' = [pc EXCEPT ![w] = "wait"]
          /\ current_job' = current_job + 1
          /\ UNCHANGED <<our_job, last_execute, self_id, current_execute, job_count, done>>
      BY <1>0, <1>4, <2>1, <2>2, <2>4 DEF TypeOK, CountJob, LoopHead, Settle
    <3>2. Busy' = Busy \ {w}
      BY <1>0, <3>1 DEF TypeOK, Busy
    <3>3. QED
      BY <1>0, <2>1, <2>2, <3>1, <3>2 DEF InvLoop, TypeOK, Busy
  <2>5. QED
    BY <2>3, <2>4
<1>5. ASSUME NEW w \in Workers, Recheck(w) PROVE InvLoop'
  <2>1. /\ UNCHANGED <<current_execute, job_count, current_job, done, self_id>>
        /\ pc[w] = "woken" /\ w \in Registered /\ w \notin Busy
    BY <1>5 DEF Recheck, Registered, Busy
  <2>2. CASE pc'[w] = "run"
    <3>1. /\ last_execute[w] # current_execute
          /\ last_execute' = [last_execute EXCEPT ![w] = current_execute]
          /\ our_job' = [our_job EXCEPT ![w] = self_id[w]]
          /\ pc' = [pc EXCEPT ![w] = "run"]
          /\ self_id[w] < job_count
      BY <1>0, <1>5, <2>2 DEF TypeOK, Recheck, Settle
    <3>2. Busy' = Busy \cup {w} /\ current_execute # 0
      BY <1>0, <3>1 DEF TypeOK, Busy, InvLoop
    <3>3. \A v \in Busy : our_job[v] # self_id[w]
      BY <1>0, <2>1 DEF InvLoop, InvIds, TypeOK, Busy, Registered
    <3>4. \A u, v \in Busy' : our_job'[u] = our_job'[v] => u = v
      BY <1>0, <3>1, <3>2, <3>3 DEF InvLoop, TypeOK, Busy
    <3>5. \A v \in Busy' :
            /\ last_execute'[v] = current_execute
            /\ our_job'[v] < job_count
            /\ our_job'[v] = self_id[v] \/ our_job'[v] \in N .. (current_job - 1)
      BY <1>0, <3>1, <3>2 DEF InvLoop, TypeOK, Busy
    <3>6. \A v \in Workers : /\ last_execute'[v] <= current_execute
                             /\ pc'[v] = "wait" => ~done /\ last_execute'[v] = current_execute
      BY <1>0, <3>1 DEF InvLoop, TypeOK
    <3>7. QED
      BY <2>1, <3>2, <3>4, <3>5, <3>6 DEF InvLoop
  <2>3. CASE pc'[w] # "run"
    <3>1. Busy' = Busy
      BY <1>0, <1>5, <2>1, <2>3 DEF TypeOK, Recheck, Settle, Busy
    <3>2. \A v \in Busy : our_job'[v] = our_job[v] /\ last_execute'[v] = last_execute[v]
      BY <1>0, <1>5, <2>1 DEF TypeOK, Recheck, Settle, Busy
    <3>3. \A v \in Workers : /\ last_execute'[v] <= current_execute
                             /\ pc'[v] = "wait" => ~done /\ last_execute'[v] = current_execute
      <4>1. \A v \in Workers \ {w} : pc'[v] = pc[v] /\ last_execute'[v] = last_execute[v]
        BY <1>0, <1>5 DEF TypeOK, Recheck, Settle
      <4>2. pc'[w] = "wait" => ~done /\ last_execute'[w] = current_execute
        BY <1>0, <1>5 DEF TypeOK, Recheck, Settle
      <4>3. last_execute'[w] \in {last_execute[w], current_execute}
        BY <1>0, <1>5 DEF TypeOK, Recheck, Settle
      <4>4. QED
        BY <1>0, <4>1, <4>2, <4>3 DEF InvLoop, TypeOK
    <3>4. QED
      BY <1>0, <2>1, <3>1, <3>2, <3>3 DEF InvLoop
  <2>4. QED
    BY <2>2, <2>3
<1>6. ASSUME NEW w \in Workers, SpuriousWorker(w) PROVE InvLoop'
  BY <1>0, <1>6 DEF TypeOK, SpuriousWorker, InvLoop, Busy
<1>7. ASSUME CreateWorker PROVE InvLoop'
  BY <1>0, <1>7 DEF TypeOK, CreateWorker, InvLoop, Busy, InvThreads
<1>8. ASSUME CreateFails PROVE InvLoop'
  BY <1>0, <1>8 DEF CreateFails, InvLoop, Busy
<1>9. ASSUME InitPark \/ MainWoken \/ SpuriousMain \/ Joined PROVE InvLoop'
  BY <1>0, <1>9 DEF InitPark, MainWoken, SpuriousMain, Joined, InvLoop, Busy
<1>10. ASSUME NEW n \in JobCounts, Execute(n) PROVE InvLoop'
  <2>1. Busy = {}
    BY <1>10, NotBusy DEF Execute
  <2>2. Busy' = {} /\ \A v \in Workers : pc'[v] # "wait"
    BY <1>0, <1>10, <2>1 DEF TypeOK, Execute, WakeAll, Busy
  <2>3. \A v \in Workers : last_execute'[v] <= current_execute'
    BY <1>0, <1>10 DEF TypeOK, Execute, InvLoop
  <2>4. QED
    BY <2>2, <2>3 DEF InvLoop
<1>11. ASSUME Free PROVE InvLoop'
  <2>1. Busy = {}
    BY <1>11, NotBusy DEF Free
  <2>2. Busy' = {} /\ \A v \in Workers : pc'[v] # "wait"
    BY <1>0, <1>11, <2>1 DEF TypeOK, Free, WakeAll, Busy
  <2>3. QED
    BY <1>0, <1>11, <2>2 DEF Free, InvLoop
<1>12. ASSUME UNCHANGED vars PROVE InvLoop'
  BY <1>0, <1>12 DEF InvLoop, Busy
<1>13. QED
  BY <1>1, <1>2, <1>3, <1>4, <1>5, <1>6, <1>7, <1>8, <1>9, <1>10, <1>11, <1>12
     DEF Next, Worker, Main, Terminated

-------------------------------------------------------------------------------
(***************************************************************************)
(* The counter and the jobs it stands for                                  *)
(***************************************************************************)

\* A step that leaves alone what Outstanding is made of leaves it alone.
LEMMA SameOutstanding ==
  ASSUME UNCHANGED <<job_count, current_job, current_execute, self_id, last_execute>>,
         Busy' = Busy, \A w \in Busy : our_job'[w] = our_job[w]
  PROVE  Jobs' = Jobs /\ Todo' = Todo /\ Outstanding' = Outstanding
BY DEF Jobs, Todo, Outstanding

\* A worker that counts its job takes exactly that job off Outstanding; the
\* worker either takes over the next unassigned job or goes to sleep.
LEMMA CountJobEffect ==
  ASSUME IInv, NEW w \in Workers, CountJob(w)
  PROVE  /\ Jobs' = Jobs
         /\ our_job[w] \in Outstanding
         /\ Outstanding' = Outstanding \ {our_job[w]}
         /\ current_job' = current_job + 1
         /\ \/ /\ current_job < job_count
               /\ pc' = [pc EXCEPT ![w] = "run"]
               /\ our_job' = [our_job EXCEPT ![w] = current_job]
               /\ Todo' = Todo \ {current_job}
               /\ current_job \in Todo
               /\ UNCHANGED main
            \/ /\ current_job >= job_count
               /\ pc' = [pc EXCEPT ![w] = "wait"]
               /\ UNCHANGED our_job
               /\ Todo' = Todo
               /\ SignalMain(current_job + 1 = N + job_count)
<1> USE DEF shared, locals
<1>0. TypeOK /\ InvThreads /\ InvIds /\ InvLoop /\ N \in Nat /\ N >= 2
  BY Constants DEF IInv
<1>1. /\ w \in Busy /\ current_execute # 0 /\ last_execute[w] = current_execute
      /\ current_job \in Nat /\ current_job >= N /\ job_count \in Nat
  BY <1>0 DEF CountJob, Busy, InvLoop, InvIds, TypeOK
<1>2. ~done /\ main \in {"parked", "woken"} /\ tcount[w] = N
  BY <1>0, <1>1, NotBusy DEF InvThreads, InvIds, Open, Busy
<1>3. UNCHANGED <<self_id, job_count, current_execute>> /\ current_job' = current_job + 1
  BY DEF CountJob
<1>4. Jobs' = Jobs /\ our_job[w] \in Outstanding
  BY <1>1, <1>3 DEF Jobs, Outstanding
<1>5. \A v \in Busy : our_job[v] \in Nat /\ our_job[v] < job_count /\ (our_job[v] = our_job[w] => v = w)
  BY <1>0, <1>1 DEF InvLoop, TypeOK, Busy
<1>6. \A v \in Workers : self_id[v] \in Nat /\ self_id[v] < N
  BY <1>0, <1>1 DEF InvThreads, InvIds, TypeOK
<1>7. \A v \in Workers : last_execute[v] # current_execute => self_id[v] # our_job[w]
  BY <1>0, <1>1 DEF InvThreads, InvIds, InvLoop, TypeOK
<1>8. our_job[w] < current_job
  BY <1>0, <1>1, <1>6 DEF InvLoop, TypeOK, Busy
<1>9. our_job[w] \notin Todo
  BY <1>1, <1>5, <1>7, <1>8 DEF Todo, Jobs
<1>10. CASE current_job < job_count
  <2>1. /\ pc' = [pc EXCEPT ![w] = "run"]
        /\ our_job' = [our_job EXCEPT ![w] = current_job]
        /\ UNCHANGED <<main, last_execute>>
    BY <1>0, <1>10 DEF TypeOK, CountJob, LoopHead
  <2>2. Busy' = Busy
    BY <1>0, <1>1, <2>1 DEF TypeOK, Busy
  <2>3. current_job \in Todo
    BY <1>1, <1>10 DEF Todo, Jobs
  <2>4. Todo' = Todo \ {current_job}
    <3> DEFINE Late == {v \in Workers : last_execute[v] # current_execute /\ self_id[v] < job_count}
    <3>1. Late' = Late /\ \A v \in Late : self_id'[v] = self_id[v] /\ self_id[v] # current_job
      BY <1>1, <1>3, <1>6, <2>1, <1>0
    <3>2. \A j \in Jobs : j \in Int
      BY <1>1 DEF Jobs
    <3>3. {j \in Jobs : j >= current_job + 1} = {j \in Jobs : j >= current_job} \ {current_job}
      BY <1>1, <3>2
    <3>4. Todo = {self_id[v] : v \in Late} \cup {j \in Jobs : j >= current_job}
      BY DEF Todo
    <3>5. Todo' = {self_id'[v] : v \in Late'} \cup {j \in Jobs : j >= current_job + 1}
      BY <1>3, <1>4 DEF Todo
    <3> HIDE DEF Late
    <3>6. QED
      BY <3>1, <3>3, <3>4, <3>5
  <2>5. {our_job'[v] : v \in Busy'} = ({our_job[v] : v \in Busy} \ {our_job[w]}) \cup {current_job}
    BY <1>0, <1>1, <1>5, <2>1, <2>2 DEF TypeOK, Busy
  <2>6. Outstanding' = Outstanding \ {our_job[w]}
    BY <1>1, <1>8, <1>9, <2>3, <2>4, <2>5 DEF Outstanding
  <2>7. QED
    BY <1>3, <1>4, <1>10, <2>1, <2>3, <2>4, <2>6
<1>11. CASE ~(current_job < job_count)
  <2>1. /\ pc' = [pc EXCEPT ![w] = "wait"]
        /\ UNCHANGED <<our_job, last_execute>>
        /\ SignalMain(current_job + 1 = N + job_count)
    BY <1>0, <1>1, <1>2, <1>11 DEF TypeOK, CountJob, LoopHead, Settle, AllCounted
  <2>2. Busy' = Busy \ {w}
    BY <1>0, <1>1, <2>1 DEF TypeOK, Busy
  <2>3. Todo' = Todo
    BY <1>1, <1>3, <1>11, <2>1 DEF Todo, Jobs
  <2>4. {our_job'[v] : v \in Busy'} = {our_job[v] : v \in Busy} \ {our_job[w]}
    BY <1>1, <1>5, <2>1, <2>2
  <2>5. Outstanding' = Outstanding \ {our_job[w]}
    BY <1>9, <2>3, <2>4 DEF Outstanding
  <2>6. QED
    BY <1>1, <1>3, <1>4, <1>11, <2>1, <2>3, <2>5
<1>12. QED
  BY <1>10, <1>11

\* A worker that wakes up leaves Outstanding alone: at most it starts the job of
\* its id, which waited for it.
LEMMA RecheckEffect ==
  ASSUME IInv, NEW w \in Workers, Recheck(w)
  PROVE  /\ UNCHANGED <<created, shared, self_id, tcount>>
         /\ Jobs' = Jobs
         /\ Outstanding' = Outstanding
         /\ pc[w] = "woken"
         /\ main' = main \/ (main = "parked" /\ main' = "woken")
         /\ \/ /\ pc' = [pc EXCEPT ![w] = "run"]
               /\ our_job' = [our_job EXCEPT ![w] = self_id[w]]
               /\ self_id[w] \in Todo
               /\ Todo' = Todo \ {self_id[w]}
               /\ current_execute # 0 /\ ~done
            \/ /\ pc'[w] \in {"wait", "exit"}
               /\ \A v \in Workers \ {w} : pc'[v] = pc[v] /\ our_job'[v] = our_job[v]
               /\ Busy' = Busy
               /\ Todo' = Todo
<1> USE DEF shared, locals
<1>0. TypeOK /\ InvThreads /\ InvIds /\ InvLoop /\ N \in Nat /\ N >= 2 /\ job_count \in Nat
  BY Constants DEF IInv, TypeOK
<1>1. /\ UNCHANGED <<created, shared, self_id, tcount>>
      /\ pc[w] = "woken" /\ w \in Registered /\ w \notin Busy
      /\ main' = main \/ (main = "parked" /\ main' = "woken")
  BY DEF Recheck, Settle, SignalMain, Registered, Busy
<1>2. Jobs' = Jobs
  BY <1>1 DEF Jobs
<1>3. \A v \in Workers : self_id[v] < job_count => current_execute # 0
  BY <1>0 DEF InvThreads, TypeOK
<1>4. CASE pc'[w] = "run"
  <2>1. /\ last_execute[w] # current_execute
        /\ last_execute' = [last_execute EXCEPT ![w] = current_execute]
        /\ our_job' = [our_job EXCEPT ![w] = self_id[w]]
        /\ pc' = [pc EXCEPT ![w] = "run"]
        /\ self_id[w] < job_count
        /\ ~done
    BY <1>0, <1>4 DEF TypeOK, Recheck, Settle
  <2>2. current_execute # 0 /\ Registered = Workers /\ current_job >= N /\ current_job \in Nat
    BY <1>0, <1>3, <2>1 DEF InvThreads, InvIds, TypeOK
  <2>3. self_id[w] \in Todo /\ self_id[w] \in Jobs /\ self_id[w] < current_job
    BY <1>0, <2>1, <2>2 DEF Todo, Jobs, InvIds, TypeOK
  <2>4. \A v \in Workers : self_id[v] = self_id[w] => v = w
    BY <1>0, <2>2 DEF InvIds
  <2>5. {v \in Workers : last_execute'[v] # current_execute' /\ self_id'[v] < job_count'}
          = {v \in Workers : last_execute[v] # current_execute /\ self_id[v] < job_count} \ {w}
    BY <1>0, <1>1, <2>1 DEF TypeOK
  <2>6. Todo' = Todo \ {self_id[w]}
    <3> DEFINE Late == {v \in Workers : last_execute[v] # current_execute /\ self_id[v] < job_count}
               Above == {j \in Jobs : j >= current_job}
    <3>1. Late' = Late \ {w} /\ w \in Late /\ Late \subseteq Workers
      BY <2>1, <2>5
    <3>2. Above' = Above /\ self_id[w] \notin Above
      BY <1>0, <1>1, <1>2, <2>2, <2>3 DEF TypeOK
    <3>3. Todo = {self_id[v] : v \in Late} \cup Above /\ self_id' = self_id
      BY <1>1 DEF Todo
    <3>4. Todo' = {self_id'[v] : v \in Late'} \cup Above'
      BY DEF Todo
    <3> HIDE DEF Late, Above
    <3>5. QED
      BY <2>4, <3>1, <3>2, <3>3, <3>4
  <2>7. Busy' = Busy \cup {w}
    BY <1>0, <2>1 DEF TypeOK, Busy
  <2>8. {our_job'[v] : v \in Busy'} = {our_job[v] : v \in Busy} \cup {self_id[w]}
    BY <1>0, <1>1, <2>1, <2>7 DEF TypeOK, Busy
  <2>9. Outstanding' = Outstanding
    BY <2>3, <2>6, <2>8 DEF Outstanding
  <2>10. QED
    BY <1>1, <1>2, <2>1, <2>2, <2>3, <2>6, <2>9
<1>5. CASE pc'[w] # "run"
  <2>1. /\ pc'[w] \in {"wait", "exit"}
        /\ \A v \in Workers \ {w} : /\ pc'[v] = pc[v] /\ our_job'[v] = our_job[v]
                                    /\ last_execute'[v] = last_execute[v]
    BY <1>0, <1>5 DEF TypeOK, Recheck, Settle
  <2>2. Busy' = Busy
    BY <1>0, <1>1, <2>1 DEF TypeOK, Busy
  <2>3. last_execute'[w] # last_execute[w] => ~(self_id[w] < job_count)
    <3>1. CASE done
      <4>1. current_execute # 0 => Todo = {}
        BY <1>0, <3>1, NothingOutstanding DEF InvThreads
      <4>2. last_execute'[w] # last_execute[w] => last_execute[w] # current_execute
        BY <1>0, <3>1 DEF TypeOK, Recheck, Settle
      <4>3. last_execute[w] # current_execute => ~(self_id[w] < job_count)
        BY <1>3, <4>1 DEF Todo
      <4>4. QED
        BY <4>2, <4>3
    <3>2. CASE ~done
      BY <1>0, <1>5, <3>2 DEF TypeOK, Recheck, Settle
    <3>3. QED
      BY <3>1, <3>2
  <2>4. {v \in Workers : last_execute'[v] # current_execute' /\ self_id'[v] < job_count'}
          = {v \in Workers : last_execute[v] # current_execute /\ self_id[v] < job_count}
    BY <1>1, <2>1, <2>3
  <2>5. Todo' = Todo
    BY <1>1, <1>2, <2>4 DEF Todo
  <2>6. {our_job'[v] : v \in Busy'} = {our_job[v] : v \in Busy}
    BY <1>1, <2>1, <2>2 DEF Busy
  <2>7. Outstanding' = Outstanding
    BY <2>5, <2>6 DEF Outstanding
  <2>8. QED
    BY <1>1, <1>2, <2>1, <2>2, <2>5, <2>7
<1>6. QED
  BY <1>4, <1>5

\* A call that starts has all its jobs outstanding and none handed out.
LEMMA ExecuteEffect ==
  ASSUME IInv, NEW n \in JobCounts, Execute(n)
  PROVE  /\ Jobs' = 0 .. (n - 1)
         /\ Todo' = 0 .. (n - 1)
         /\ Outstanding' = 0 .. (n - 1)
         /\ Busy = {} /\ Busy' = {}
         /\ current_job' = N /\ job_count' = n /\ main' = "parked"
         /\ current_execute' = current_execute + 1
<1>0. TypeOK /\ InvThreads /\ InvIds /\ InvLoop /\ N \in Nat /\ N >= 2 /\ n \in Nat /\ n > 0
  BY Constants DEF IInv
<1>1. Busy = {}
  BY NotBusy DEF Execute
<1>2. Busy' = {}
  BY <1>0, <1>1 DEF TypeOK, Execute, WakeAll, Busy
<1>3. /\ current_job' = N /\ job_count' = n /\ main' = "parked"
      /\ current_execute' = current_execute + 1
      /\ UNCHANGED <<self_id, last_execute>>
  BY <1>0 DEF Execute, Park, InvThreads, Open, locals
<1>4. \A v \in Workers : last_execute'[v] # current_execute'
  BY <1>0, <1>3 DEF InvLoop, TypeOK
<1>5. /\ \A k \in Workers : \E v \in Workers : self_id[v] = k
      /\ \A v \in Workers : self_id[v] \in Nat
  BY <1>0, IdleCounter DEF Execute, TypeOK
<1>6. Jobs' = 0 .. (n - 1)
  BY <1>3 DEF Jobs
<1>7. Todo' = {self_id[v] : v \in {u \in Workers : self_id[u] < n}} \cup {j \in 0 .. (n - 1) : j >= N}
  BY <1>3, <1>4, <1>6 DEF Todo
<1>8. \A j \in 0 .. (n - 1) : j < N => j \in Workers
  BY <1>0 DEF Workers
<1>9. Todo' = 0 .. (n - 1)
  BY <1>0, <1>5, <1>7, <1>8
<1>10. Outstanding' = 0 .. (n - 1)
  BY <1>2, <1>9 DEF Outstanding
<1>11. QED
  BY <1>1, <1>2, <1>3, <1>6, <1>9, <1>10

\* Every step keeps InvCount.
LEMMA NextInvCount == IInv /\ [Next]_vars => InvCount'
<1> SUFFICES ASSUME IInv, [Next]_vars PROVE InvCount'
  OBVIOUS
<1> USE DEF shared, locals, vars
<1>0. /\ TypeOK /\ InvThreads /\ InvIds /\ InvLoop /\ InvCount
      /\ N \in Nat /\ N >= 2 /\ job_count \in Nat /\ current_job \in Nat
  BY Constants DEF IInv, TypeOK
<1>1. ASSUME NEW w \in Workers, WorkerEnter(w) PROVE InvCount'
  <2>1. Busy' = Busy /\ \A v \in Busy : our_job'[v] = our_job[v]
    BY <1>0, <1>1 DEF TypeOK, WorkerEnter, Busy
  <2>2. Jobs' = Jobs /\ Outstanding' = Outstanding
    BY <1>1, <2>1, SameOutstanding DEF WorkerEnter
  <2>3. \A v \in Workers : pc'[v] = "count" => pc[v] = "count" /\ our_job'[v] = our_job[v]
    BY <1>0, <1>1 DEF TypeOK, WorkerEnter
  <2>4. QED
    BY <1>0, <1>1, <2>2, <2>3 DEF WorkerEnter, InvCount
<1>2. ASSUME NEW w \in Workers, WorkerRegister(w) PROVE InvCount'
  <2>1. current_execute = 0 /\ job_count = 0
    BY <1>2, LateThread DEF WorkerRegister
  <2>2. Jobs' = {} /\ current_execute' = 0 /\ job_count' = 0 /\ current_job' = current_job + 1
    BY <1>2, <2>1 DEF WorkerRegister, Jobs
  <2>3. pc'[w] # "count" /\ \A v \in Workers \ {w} : pc'[v] = pc[v]
    BY <1>0, <1>2, <2>1 DEF TypeOK, WorkerRegister, LoopHead, Settle
  <2>4. \A v \in Workers : pc'[v] # "count"
    BY <1>0, <2>1, <2>3 DEF InvLoop, Busy
  <2>5. main' = "parked" => current_job' # N
    <3> SUFFICES ASSUME main' = "parked" PROVE current_job' # N
      OBVIOUS
    <3>1. main = "parked" /\ tcount[w] = N
      BY <1>0, <1>2 DEF WorkerRegister, LoopHead, Settle, SignalMain, InvIds, Open
    <3>2. ~AllCounted(w, current_job + 1)
      BY <1>0, <1>2, <2>1, <3>1 DEF WorkerRegister, LoopHead, Settle, SignalMain, InvIds
    <3>3. QED
      BY <1>0, <2>1, <2>2, <3>1, <3>2 DEF AllCounted
  <2>6. QED
    BY <1>0, <2>2, <2>4, <2>5 DEF InvCount
<1>3. ASSUME NEW w \in Workers, RunJob(w) PROVE InvCount'
  <2>1. Busy' = Busy /\ w \in Busy
    BY <1>0, <1>3 DEF TypeOK, RunJob, Busy
  <2>2. Jobs' = Jobs /\ Outstanding' = Outstanding
    BY <1>3, <2>1, SameOutstanding DEF RunJob
  <2>3. our_job[w] \in AllJobs
    BY <2>1, RunningJobIsAJob
  <2>4. \A j \in Jobs' : j \in Outstanding' \/ rets'[j] = current_execute'
    BY <1>0, <1>3, <2>2, <2>3 DEF TypeOK, RunJob, InvCount
  <2>5. \A v \in Workers : pc'[v] = "count" => rets'[our_job'[v]] = current_execute'
    BY <1>0, <1>3, <2>3 DEF TypeOK, RunJob, InvCount
  <2>6. QED
    BY <1>0, <1>3, <2>2, <2>4, <2>5 DEF RunJob, InvCount
<1>4. ASSUME NEW w \in Workers, CountJob(w) PROVE InvCount'
  <2>1. /\ w \in Busy /\ current_execute # 0 /\ rets[our_job[w]] = current_execute
        /\ UNCHANGED <<rets, current_execute, job_count>>
    BY <1>0, <1>4 DEF CountJob, Busy, InvLoop, InvCount
  <2>2. main \in {"parked", "woken"}
    BY <2>1, NotBusy
  <2>3. /\ Jobs' = Jobs /\ our_job[w] \in Outstanding
        /\ Outstanding' = Outstanding \ {our_job[w]} /\ current_job' = current_job + 1
    BY <1>4, CountJobEffect
  <2>4. Cardinality(Outstanding') = N + job_count' - current_job'
    <3>1. Cardinality(Outstanding) = N + job_count - current_job
      BY <1>0, <2>1 DEF InvCount
    <3>2. Cardinality(Outstanding \ {our_job[w]}) = Cardinality(Outstanding) - 1
      BY <2>3, OutstandingAreJobs, FS_RemoveElement
    <3>3. QED
      BY <1>0, <2>1, <2>3, <3>1, <3>2
  <2>5. main' \in {"parked", "woken"} /\ (main' = "parked" => current_job' # N + job_count')
    BY <1>0, <1>4, <2>1, <2>2, <2>3, CountJobEffect DEF SignalMain
  <2>6. \A v \in Workers : pc'[v] = "count" => pc[v] = "count" /\ our_job'[v] = our_job[v]
    BY <1>0, <1>4, CountJobEffect DEF TypeOK
  <2>7. QED
    BY <1>0, <2>1, <2>3, <2>4, <2>5, <2>6 DEF InvCount
<1>5. ASSUME NEW w \in Workers, Recheck(w) PROVE InvCount'
  <2>1. /\ Jobs' = Jobs /\ Outstanding' = Outstanding /\ UNCHANGED shared
        /\ main' = main \/ (main = "parked" /\ main' = "woken")
    BY <1>5, RecheckEffect
  <2>2. \A v \in Workers : pc'[v] = "count" => pc[v] = "count" /\ our_job'[v] = our_job[v]
    BY <1>0, <1>5, RecheckEffect DEF TypeOK
  <2>3. QED
    BY <1>0, <2>1, <2>2 DEF InvCount
<1>6. ASSUME NEW w \in Workers, SpuriousWorker(w) PROVE InvCount'
  <2>1. Busy' = Busy /\ \A v \in Workers : pc'[v] = "count" => pc[v] = "count"
    BY <1>0, <1>6 DEF TypeOK, SpuriousWorker, Busy
  <2>2. Jobs' = Jobs /\ Outstanding' = Outstanding
    BY <1>6, <2>1, SameOutstanding DEF SpuriousWorker
  <2>3. QED
    BY <1>0, <1>6, <2>1, <2>2 DEF SpuriousWorker, InvCount
<1>7. ASSUME CreateWorker PROVE InvCount'
  <2>1. Busy' = Busy /\ \A v \in Workers : pc'[v] = "count" => pc[v] = "count"
    BY <1>0, <1>7 DEF TypeOK, CreateWorker, Busy, InvThreads
  <2>2. Jobs' = Jobs /\ Outstanding' = Outstanding
    BY <1>7, <2>1, SameOutstanding DEF CreateWorker
  <2>3. QED
    BY <1>0, <1>7, <2>1, <2>2 DEF CreateWorker, InvCount
<1>8. ASSUME CreateFails \/ SpuriousMain \/ Joined \/ UNCHANGED vars PROVE InvCount'
  <2>1. Busy' = Busy
    BY <1>8 DEF CreateFails, SpuriousMain, Joined, Busy
  <2>2. Jobs' = Jobs /\ Outstanding' = Outstanding
    BY <1>8, <2>1, SameOutstanding DEF CreateFails, SpuriousMain, Joined
  <2>3. QED
    BY <1>0, <1>8, <2>2 DEF CreateFails, SpuriousMain, Joined, InvCount, InvThreads
<1>9. ASSUME InitPark \/ MainWoken PROVE InvCount'
  <2>1. Busy' = Busy /\ UNCHANGED <<shared, pc, locals>>
    BY <1>9 DEF InitPark, MainWoken, Busy
  <2>2. Jobs' = Jobs /\ Outstanding' = Outstanding
    BY <2>1, SameOutstanding
  <2>3. main' = IF current_job = N + job_count THEN "idle" ELSE "parked"
    BY <1>0, <1>9 DEF InitPark, MainWoken, Park, InvThreads, Open
  <2>4. QED
    BY <1>0, <2>1, <2>2, <2>3 DEF InvCount
<1>10. ASSUME NEW n \in JobCounts, Execute(n) PROVE InvCount'
  <2>1. n \in Nat /\ n > 0
    BY Constants
  <2>2. Cardinality(0 .. (n - 1)) = n
    BY <2>1, FS_Interval
  <2>3. \A v \in Workers : pc'[v] # "count"
    BY <1>10, ExecuteEffect DEF Busy
  <2>4. QED
    BY <1>0, <1>10, <2>1, <2>2, <2>3, ExecuteEffect DEF InvCount
<1>11. ASSUME Free PROVE InvCount'
  <2>1. Busy = {}
    BY <1>11, NotBusy DEF Free
  <2>2. Busy' = {} /\ \A v \in Workers : pc'[v] # "count"
    BY <1>0, <1>11, <2>1 DEF TypeOK, Free, WakeAll, Busy
  <2>3. Jobs' = Jobs /\ Outstanding' = Outstanding
    BY <1>11, <2>1, <2>2, SameOutstanding DEF Free
  <2>4. QED
    BY <1>0, <1>11, <2>2, <2>3 DEF Free, InvCount
<1>12. QED
  BY <1>1, <1>2, <1>3, <1>4, <1>5, <1>6, <1>7, <1>8, <1>9, <1>10, <1>11
     DEF Next, Worker, Main, Terminated

-------------------------------------------------------------------------------
(***************************************************************************)
(* The theorems                                                            *)
(***************************************************************************)

\* IInv holds in every reachable state.
THEOREM Invariance == Spec => []IInv
<1>1. Init => IInv
  BY InitTypeOK, InitInv DEF IInv
<1>2. IInv /\ [Next]_vars => IInv'
  BY NextTypeOK, NextInvThreads, NextInvIds, NextInvLoop, NextInvCount DEF IInv
<1>3. QED
  BY <1>1, <1>2, PTL DEF Spec

\* The variables keep their types.
THEOREM TypeCorrect == Spec => []TypeOK
<1>1. IInv => TypeOK
  BY DEF IInv
<1>2. QED
  BY <1>1, Invariance, PTL

\* execute() returns only when no thread is inside a job of the call and every
\* slot of the caller's ret[] was written by that call.
THEOREM Barrier == Spec => []ExecuteIsABarrier
<1>1. IInv => ExecuteIsABarrier
  <2> SUFFICES ASSUME IInv, main = "idle"
               PROVE  Busy = {} /\ \A j \in Jobs : rets[j] = current_execute
    BY DEF ExecuteIsABarrier
  <2>1. Busy = {}
    BY NotBusy
  <2>2. CASE current_execute = 0
    BY <2>1, <2>2 DEF IInv, InvThreads, Jobs
  <2>3. CASE current_execute # 0
    BY <2>1, <2>3, NothingOutstanding DEF IInv, InvCount
  <2>4. QED
    BY <2>1, <2>2, <2>3
<1>2. QED
  BY <1>1, Invariance, PTL

\* Main never sleeps on last_job_cond with nobody left to signal it.
THEOREM WakeupsAreNotLost == Spec => []NoLostWakeup
<1>1. IInv => NoLostWakeup
  BY DEF IInv, InvThreads, InvCount, Open, NoLostWakeup
<1>2. QED
  BY <1>1, Invariance, PTL

\* No thread is left inside worker() when the context is freed.
THEOREM FreeIsSafe == Spec => []NoUseAfterFree
<1>1. IInv => NoUseAfterFree
  BY DEF IInv, InvThreads, NoUseAfterFree
<1>2. QED
  BY <1>1, Invariance, PTL

-------------------------------------------------------------------------------
(***************************************************************************)
(* Refinement                                                              *)
(***************************************************************************)

\* Two threads never run the same job, and a running job is not waiting.
LEMMA RunningJobs ==
  ASSUME IInv
  PROVE  /\ \A v, w \in Busy : our_job[v] = our_job[w] => v = w
         /\ \A w \in Busy : our_job[w] \notin Todo
<1>0. TypeOK /\ InvThreads /\ InvIds /\ InvLoop /\ N \in Nat
  BY Constants DEF IInv
<1>1. ASSUME NEW w \in Busy PROVE our_job[w] \notin Todo
  <2>1. /\ w \in Workers /\ current_execute # 0 /\ last_execute[w] = current_execute
        /\ current_job \in Nat /\ current_job >= N /\ our_job[w] \in Nat
        /\ our_job[w] = self_id[w] \/ our_job[w] \in N .. (current_job - 1)
    BY <1>0 DEF Busy, InvLoop, InvIds, TypeOK
  <2>2. \A v \in Workers : self_id[v] \in Nat /\ self_id[v] < N
                           /\ (self_id[v] = self_id[w] => v = w)
    BY <1>0, <2>1 DEF InvThreads, InvIds, TypeOK
  <2>3. our_job[w] < current_job
    BY <1>0, <2>1, <2>2
  <2>4. \A v \in Workers : last_execute[v] # current_execute => self_id[v] # our_job[w]
    BY <1>0, <2>1, <2>2
  <2>5. QED
    BY <2>1, <2>3, <2>4 DEF Todo, Jobs
<1>2. QED
  BY <1>0, <1>1 DEF InvLoop

\* A step that leaves the running threads and their jobs alone.
LEMMA SameActive ==
  ASSUME \A w \in Workers : pc'[w] = "run" <=> pc[w] = "run",
         \A w \in Workers : pc[w] = "run" => our_job'[w] = our_job[w]
  PROVE  ActiveBar' = ActiveBar
BY DEF ActiveBar

LEMMA RefinementInit == Init => Abstract!Init
<1> SUFFICES ASSUME Init PROVE Abstract!Init
  OBVIOUS
<1>1. PhaseBar = "starting"
  BY DEF Init, PhaseBar, Starting
<1>2. Todo = {}
  BY Constants DEF Init, Todo, Jobs
<1>3. ActiveBar = {}
  BY DEF Init, ActiveBar
<1>4. QED
  BY <1>1, <1>2, <1>3 DEF Abstract!Init

\* Every step of the pool is a step of the parallel loop or leaves it alone.
LEMMA RefinementNext == IInv /\ [Next]_vars => [Abstract!Next]_(Abstract!vars)
<1> SUFFICES ASSUME IInv, [Next]_vars PROVE [Abstract!Next]_(Abstract!vars)
  OBVIOUS
<1> USE DEF shared, locals, vars, Abstract!vars
<1>0. /\ TypeOK /\ InvThreads /\ InvIds /\ InvLoop /\ InvCount
      /\ N \in Nat /\ N >= 2 /\ job_count \in Nat /\ current_job \in Nat
  BY Constants DEF IInv, TypeOK
<1>1. ASSUME NEW w \in Workers, WorkerEnter(w) PROVE UNCHANGED Abstract!vars
  <2>1. ActiveBar' = ActiveBar
    BY <1>0, <1>1, SameActive DEF TypeOK, WorkerEnter
  <2>2. Todo' = Todo
    BY <1>1 DEF WorkerEnter, Todo, Jobs
  <2>3. QED
    BY <1>1, <2>1, <2>2 DEF WorkerEnter, PhaseBar, Starting
<1>2. ASSUME NEW w \in Workers, WorkerRegister(w) PROVE UNCHANGED Abstract!vars
  <2>1. current_execute = 0 /\ job_count = 0
    BY <1>2, LateThread DEF WorkerRegister
  <2>2. pc[w] # "run" /\ pc'[w] # "run" /\ \A v \in Workers \ {w} : pc'[v] = pc[v] /\ our_job'[v] = our_job[v]
    BY <1>0, <1>2, <2>1 DEF TypeOK, WorkerRegister, LoopHead, Settle
  <2>3. ActiveBar' = ActiveBar
    BY <2>2, SameActive
  <2>4. \A v \in Workers : self_id[v] \in Nat /\ self_id'[v] \in Nat
    BY <1>0, <1>2 DEF TypeOK, WorkerRegister
  <2>5. Todo = {} /\ Todo' = {}
    BY <1>2, <2>1, <2>4 DEF Todo, Jobs, WorkerRegister
  <2>6. PhaseBar' = PhaseBar
    BY <1>2, <2>1 DEF WorkerRegister, LoopHead, Settle, SignalMain, PhaseBar, Starting
  <2>7. QED
    BY <2>3, <2>5, <2>6
<1>3. ASSUME NEW w \in Workers, RunJob(w) PROVE Abstract!Finish(our_job[w])
  <2>1. w \in Busy
    BY <1>3 DEF RunJob, Busy
  <2>2. our_job[w] \in ActiveBar
    BY <1>3 DEF RunJob, ActiveBar
  <2>3. \A v \in Workers : pc'[v] = "run" <=> pc[v] = "run" /\ v # w
    BY <1>0, <1>3 DEF TypeOK, RunJob
  <2>4. ActiveBar' = ActiveBar \ {our_job[w]}
    BY <1>3, <2>1, <2>3, RunningJobs DEF RunJob, ActiveBar, Busy
  <2>5. Todo' = Todo
    BY <1>3 DEF RunJob, Todo, Jobs
  <2>6. PhaseBar' = PhaseBar
    BY <1>3 DEF RunJob, PhaseBar, Starting
  <2>7. QED
    BY <2>2, <2>4, <2>5, <2>6 DEF Abstract!Finish
<1>4. ASSUME NEW w \in Workers, CountJob(w)
      PROVE  Abstract!Start(current_job) \/ UNCHANGED Abstract!vars
  <2>1. w \in Busy /\ pc[w] = "count" /\ current_execute # 0 /\ UNCHANGED current_execute
    BY <1>0, <1>4 DEF CountJob, Busy, InvLoop
  <2>2. main \in {"parked", "woken"}
    BY <2>1, NotBusy
  <2>3. main' \in {"parked", "woken"}
    BY <1>4, <2>2, CountJobEffect DEF SignalMain
  <2>4. PhaseBar = "running" /\ PhaseBar' = "running"
    BY <2>1, <2>2, <2>3 DEF PhaseBar, Starting
  <2>5. CASE current_job < job_count
    <3>1. /\ pc' = [pc EXCEPT ![w] = "run"]
          /\ our_job' = [our_job EXCEPT ![w] = current_job]
          /\ Todo' = Todo \ {current_job} /\ current_job \in Todo
      BY <1>0, <1>4, <2>5, CountJobEffect
    <3>2. {v \in Workers : pc'[v] = "run"} = {v \in Workers : pc[v] = "run"} \cup {w}
      BY <1>0, <3>1 DEF TypeOK
    <3>3. ActiveBar' = ActiveBar \cup {current_job}
      BY <1>0, <2>1, <3>1, <3>2 DEF ActiveBar, TypeOK
    <3>4. QED
      BY <2>4, <3>1, <3>3 DEF Abstract!Start
  <2>6. CASE ~(current_job < job_count)
    <3>1. pc' = [pc EXCEPT ![w] = "wait"] /\ UNCHANGED our_job /\ Todo' = Todo
      BY <1>0, <1>4, <2>6, CountJobEffect
    <3>2. ActiveBar' = ActiveBar
      BY <1>0, <2>1, <3>1, SameActive DEF TypeOK
    <3>3. QED
      BY <2>4, <3>1, <3>2
  <2>7. QED
    BY <2>5, <2>6
<1>5. ASSUME NEW w \in Workers, Recheck(w)
      PROVE  Abstract!Start(self_id[w]) \/ UNCHANGED Abstract!vars
  <2>1. /\ pc[w] = "woken" /\ UNCHANGED current_execute
        /\ main' = main \/ (main = "parked" /\ main' = "woken")
    BY <1>5, RecheckEffect
  <2>2. PhaseBar' = PhaseBar
    BY <2>1 DEF PhaseBar, Starting
  <2>3. CASE pc' = [pc EXCEPT ![w] = "run"]
    <3>1. /\ our_job' = [our_job EXCEPT ![w] = self_id[w]]
          /\ self_id[w] \in Todo /\ Todo' = Todo \ {self_id[w]}
          /\ current_execute # 0
      BY <1>0, <1>5, <2>3, RecheckEffect DEF TypeOK
    <3>2. main \in {"parked", "woken"}
      BY <3>1, NothingOutstanding
    <3>3. PhaseBar = "running"
      BY <3>1, <3>2 DEF PhaseBar, Starting
    <3>4. {v \in Workers : pc'[v] = "run"} = {v \in Workers : pc[v] = "run"} \cup {w}
      BY <1>0, <2>3 DEF TypeOK
    <3>5. ActiveBar' = ActiveBar \cup {self_id[w]}
      BY <1>0, <2>1, <3>1, <3>4 DEF ActiveBar, TypeOK
    <3>6. QED
      BY <2>2, <3>1, <3>3, <3>5 DEF Abstract!Start
  <2>4. CASE pc' # [pc EXCEPT ![w] = "run"]
    <3>1. /\ pc'[w] \in {"wait", "exit"} /\ Todo' = Todo
          /\ \A v \in Workers \ {w} : pc'[v] = pc[v] /\ our_job'[v] = our_job[v]
      BY <1>5, <2>4, RecheckEffect
    <3>2. ActiveBar' = ActiveBar
      BY <2>1, <3>1, SameActive
    <3>3. QED
      BY <2>2, <3>1, <3>2
  <2>5. QED
    BY <2>3, <2>4
<1>6. ASSUME NEW w \in Workers, SpuriousWorker(w) PROVE UNCHANGED Abstract!vars
  <2>1. ActiveBar' = ActiveBar
    BY <1>0, <1>6, SameActive DEF TypeOK, SpuriousWorker
  <2>2. QED
    BY <1>6, <2>1 DEF SpuriousWorker, Todo, Jobs, PhaseBar, Starting
<1>7. ASSUME CreateWorker PROVE UNCHANGED Abstract!vars
  <2>1. ActiveBar' = ActiveBar
    BY <1>0, <1>7, SameActive DEF TypeOK, CreateWorker, InvThreads
  <2>2. QED
    BY <1>7, <2>1 DEF CreateWorker, Todo, Jobs, PhaseBar, Starting
<1>8. ASSUME CreateFails PROVE Abstract!Close
  <2>1. UNCHANGED <<Todo, ActiveBar>>
    BY <1>8 DEF CreateFails, Todo, Jobs, ActiveBar
  <2>2. QED
    BY <1>8, <2>1 DEF CreateFails, PhaseBar, Starting, Abstract!Close
<1>9. ASSUME InitPark \/ MainWoken
      PROVE  Abstract!Ready \/ Abstract!Return \/ UNCHANGED Abstract!vars
  <2>1. UNCHANGED <<Todo, ActiveBar, current_execute>>
    BY <1>9 DEF InitPark, MainWoken, Todo, Jobs, ActiveBar
  <2>2. main' = IF current_job = N + job_count THEN "idle" ELSE "parked"
    BY <1>0, <1>9 DEF InitPark, MainWoken, Park, InvThreads, Open
  <2>3. CASE current_job # N + job_count
    <3>1. PhaseBar' = PhaseBar
      BY <1>0, <1>9, <2>1, <2>2, <2>3 DEF InitPark, MainWoken, PhaseBar, Starting, InvThreads
    <3>2. QED
      BY <2>1, <3>1
  <2>4. CASE current_job = N + job_count /\ current_execute = 0
    <3>1. PhaseBar = "starting" /\ PhaseBar' = "idle"
      BY <1>9, <2>1, <2>2, <2>4 DEF InitPark, MainWoken, PhaseBar, Starting
    <3>2. QED
      BY <2>1, <3>1 DEF Abstract!Ready
  <2>5. CASE current_job = N + job_count /\ current_execute # 0
    <3>1. PhaseBar = "running" /\ PhaseBar' = "idle"
      BY <1>0, <1>9, <2>1, <2>2, <2>5 DEF InitPark, MainWoken, PhaseBar, Starting, InvThreads
    <3>2. Todo = {} /\ ActiveBar = {}
      BY <2>5, NothingOutstanding DEF ActiveBar, Busy
    <3>3. QED
      BY <2>1, <3>1, <3>2 DEF Abstract!Return
  <2>6. QED
    BY <2>3, <2>4, <2>5
<1>10. ASSUME SpuriousMain \/ Joined PROVE UNCHANGED Abstract!vars
  BY <1>10 DEF SpuriousMain, Joined, Todo, Jobs, ActiveBar, PhaseBar, Starting
<1>11. ASSUME NEW n \in JobCounts, Execute(n) PROVE Abstract!Begin(n)
  <2>1. Todo' = 0 .. (n - 1) /\ main' = "parked" /\ current_execute' # 0
    BY <1>0, <1>11, ExecuteEffect DEF TypeOK
  <2>2. ActiveBar = {} /\ ActiveBar' = {}
    BY <1>11, ExecuteEffect DEF ActiveBar, Busy
  <2>3. PhaseBar = "idle" /\ PhaseBar' = "running"
    BY <1>11, <2>1 DEF Execute, PhaseBar, Starting
  <2>4. QED
    BY <2>1, <2>2, <2>3 DEF Abstract!Begin
<1>12. ASSUME Free PROVE Abstract!Close \/ UNCHANGED Abstract!vars
  <2>1. ActiveBar' = ActiveBar
    BY <1>0, <1>12, SameActive DEF TypeOK, Free, WakeAll
  <2>2. Todo' = Todo
    BY <1>12 DEF Free, Todo, Jobs
  <2>3. QED
    BY <1>12, <2>1, <2>2 DEF Free, PhaseBar, Starting, Abstract!Close
<1>13. \A j : Abstract!Start(j) => Abstract!Next
  BY DEF Abstract!Start, Abstract!Next
<1>14. \A j : Abstract!Finish(j) => Abstract!Next
  BY DEF Abstract!Finish, Abstract!Next
<1>15. ASSUME UNCHANGED vars PROVE UNCHANGED Abstract!vars
  BY <1>15 DEF Todo, Jobs, ActiveBar, PhaseBar, Starting
<1>16. QED
  BY <1>1, <1>2, <1>3, <1>4, <1>5, <1>6, <1>7, <1>8, <1>9, <1>10, <1>11, <1>12,
     <1>13, <1>14, <1>15
     DEF Next, Worker, Main, Terminated, Abstract!Next

\* The pool implements the parallel loop: every job of a call is started once,
\* by one thread, and the call returns after the last job has finished.
THEOREM Refinement == Spec => ImplementsParallelFor
<1>1. Init => Abstract!Init
  BY RefinementInit
<1>2. IInv /\ [Next]_vars => [Abstract!Next]_(Abstract!vars)
  BY RefinementNext
<1>3. QED
  BY <1>1, <1>2, Invariance, PTL DEF Spec, ImplementsParallelFor, Abstract!Spec

-------------------------------------------------------------------------------
(***************************************************************************)
(* The pool under the rows                                                 *)
(***************************************************************************)

\* A step of a row is a step of the pool, or none.
LEMMA RowIsPool ==
  ASSUME NEW w \in Workers, Row(w)
  PROVE  RunJob(w) \/ UNCHANGED vars
<1>1. CASE SkipRow(w)
  BY <1>1 DEF SkipRow
<1>2. CASE Await(w) \/ CheckError(w)
  BY <1>2 DEF Await, CheckError
<1>3. CASE Decode(w) \/ DecodeFails(w)
  BY <1>3 DEF Decode, DecodeFails
<1>4. CASE ReportCtb(w) \/ TruncatedRow(w)
  BY <1>4 DEF ReportCtb, TruncatedRow
<1>5. CASE EndRow(w)
  BY <1>5 DEF EndRow, Return
<1>6. CASE Crash(w)
  BY <1>6 DEF Crash
<1>7. QED
  BY <1>1, <1>2, <1>3, <1>4, <1>5, <1>6 DEF Row

\* So is every other step.
LEMMA StepIsPool == [WppNext]_wppVars => [Next]_vars
<1> SUFFICES ASSUME [WppNext]_wppVars PROVE Next \/ UNCHANGED vars
  OBVIOUS
<1>1. ASSUME NEW w \in Workers, Row(w) PROVE Next \/ UNCHANGED vars
  BY <1>1, RowIsPool DEF Next, Worker
<1>2. ASSUME NEW w \in Workers, PoolWorker(w) PROVE Next
  BY <1>2 DEF PoolWorker, Next, Worker
<1>3. ASSUME NEW n \in JobCounts, DecodeSlice(n) PROVE Next
  BY <1>3 DEF DecodeSlice, Next, Main
<1>4. CASE PoolMain
  BY <1>4 DEF PoolMain, Next, Main
<1>5. CASE Spurious
  <2>1. ASSUME NEW w \in Workers, SpuriousWorker(w) PROVE Next
    BY <2>1 DEF Next
  <2>2. ASSUME NEW w \in Workers, SpuriousRow(w) PROVE UNCHANGED vars
    BY <2>2 DEF SpuriousRow
  <2>3. QED
    BY <1>5, <2>1, <2>2 DEF Spurious, Next
<1>6. CASE Terminated /\ UNCHANGED rowVars
  BY <1>6 DEF Next
<1>7. CASE UNCHANGED wppVars \/ (~Alive /\ UNCHANGED wppVars)
  BY <1>7 DEF wppVars
<1>8. QED
  BY <1>1, <1>2, <1>3, <1>4, <1>5, <1>6, <1>7 DEF WppNext

\* The rows use the pool as any codec may: what is true of every behaviour of
\* SliceThreads is true under wavefront decoding.
THEOREM PoolUnderneath == WppSpec => Spec
<1>1. WppInit => Init
  BY DEF WppInit
<1>2. QED
  BY <1>1, StepIsPool, PTL DEF WppSpec, Spec

\* execute2() returns only when every row of the slice has returned.
THEOREM WppBarrier == WppSpec => []ExecuteIsABarrier
BY PoolUnderneath, Barrier, PTL

\* Every row of a slice is decoded by exactly one call of its function.
THEOREM WppRefinement == WppSpec => ImplementsParallelFor
BY PoolUnderneath, Refinement, PTL

-------------------------------------------------------------------------------
(***************************************************************************)
(* What the steps of the pool do to the rows                               *)
(***************************************************************************)

LEMMA RowsAreNumbers ==
  /\ Rows \subseteq Nat
  /\ Cols \in Nat /\ Cols >= 2
BY Constants, ColsAssumption DEF Rows, AllJobs

\* A running worker decodes a row of the slice; the rows above it are rows.
LEMMA RunningRow ==
  ASSUME IInv, NEW w \in Workers, pc[w] = "run"
  PROVE  /\ our_job[w] \in Rows /\ our_job[w] <= LastRow
         /\ LastRow \in Int
         /\ \A x \in Nat : x <= our_job[w] => x \in Rows
         /\ our_job[w] \notin Todo
         /\ \A v \in Workers : pc[v] = "run" /\ our_job[v] = our_job[w] => v = w
<1>1. w \in Busy /\ our_job[w] \in Jobs /\ our_job[w] \in Rows
  BY RunningJobIsAJob DEF Busy, Rows
<1>2. current_execute # 0 /\ job_count \in JobCounts /\ job_count \in Nat
  BY <1>1 DEF IInv, TypeOK, InvLoop, InvThreads
<1>3. Jobs \subseteq Rows
  BY <1>2, Constants DEF Rows, Jobs
<1>4. QED
  BY <1>1, <1>2, <1>3, RunningJobs DEF LastRow, Jobs, Busy

\* The rows that wait to be begun are rows of a slice.
LEMMA TodoAreRows == IInv => Todo \subseteq Rows
<1> SUFFICES ASSUME IInv PROVE Todo \subseteq Rows
  OBVIOUS
<1>1. Todo \subseteq Jobs
  BY OutstandingAreJobs DEF Outstanding
<1>2. current_execute = 0 => Jobs = {}
  BY DEF IInv, InvThreads, Jobs
<1>3. current_execute # 0 => Jobs \subseteq Rows
  BY Constants DEF IInv, InvThreads, Jobs, Rows
<1>4. QED
  BY <1>1, <1>2, <1>3

\* What the rows see of a step of the pool: rows are begun, and they are rows
\* nobody has begun yet.
RowsBegin ==
  /\ Todo' \subseteq Todo
  /\ job_count' = job_count
  /\ \A w \in Workers :
       \/ pc'[w] = pc[w] /\ our_job'[w] = our_job[w]
       \/ pc[w] # "run" /\ (pc'[w] = "run" => our_job'[w] \in Todo)

LEMMA PoolBeginsRows ==
  ASSUME IInv, PoolMain \/ Spurious \/ Terminated \/ (\E w \in Workers : PoolWorker(w)),
         UNCHANGED rowVars
  PROVE  RowsBegin
<1> USE DEF shared, locals, vars, progress
<1>0. TypeOK /\ InvThreads /\ InvIds /\ InvLoop /\ N \in Nat /\ job_count \in Nat
  BY Constants DEF IInv, TypeOK
<1>1. ASSUME NEW w \in Workers, WorkerEnter(w) PROVE RowsBegin
  BY <1>0, <1>1 DEF TypeOK, WorkerEnter, RowsBegin, Todo, Jobs, LastRow
<1>2. ASSUME NEW w \in Workers, WorkerRegister(w) PROVE RowsBegin
  <2>1. current_execute = 0 /\ job_count = 0 /\ job_count' = 0
    BY <1>2, LateThread DEF WorkerRegister
  <2>2. Todo' = {} /\ LastRow' = LastRow
    <3>1. Jobs' = {}
      BY <2>1 DEF Jobs
    <3>2. \A v \in Workers : ~(self_id'[v] < 0)
      BY <1>0, <1>2 DEF TypeOK, WorkerRegister
    <3>3. QED
      BY <2>1, <3>1, <3>2 DEF Todo, LastRow
  <2>3. pc'[w] # "run" /\ pc[w] = "enter" /\ our_job[w] \in Nat
    BY <1>0, <1>2, <2>1 DEF TypeOK, WorkerRegister, LoopHead, Settle
  <2>4. \A v \in Workers \ {w} : pc'[v] = pc[v] /\ our_job'[v] = our_job[v]
    BY <1>0, <1>2 DEF TypeOK, WorkerRegister, LoopHead, Settle
  <2>5. QED
    BY <2>1, <2>2, <2>3, <2>4 DEF RowsBegin
<1>3. ASSUME NEW w \in Workers, CountJob(w) PROVE RowsBegin
  <2>1. pc[w] = "count" /\ job_count' = job_count
    BY <1>3 DEF CountJob
  <2>2. QED
    BY <1>0, <1>3, <2>1, CountJobEffect DEF TypeOK, RowsBegin, LastRow
<1>4. ASSUME NEW w \in Workers, Recheck(w) PROVE RowsBegin
  BY <1>0, <1>4, RecheckEffect DEF TypeOK, RowsBegin, LastRow
<1>5. ASSUME NEW w \in Workers, SpuriousWorker(w) PROVE RowsBegin
  BY <1>0, <1>5 DEF TypeOK, SpuriousWorker, RowsBegin, Todo, Jobs, LastRow
<1>6. CASE CreateWorker
  BY <1>0, <1>6 DEF TypeOK, CreateWorker, RowsBegin, Todo, Jobs, LastRow, InvThreads
<1>7. CASE CreateFails \/ InitPark \/ MainWoken \/ SpuriousMain \/ Joined \/ Terminated \/ UNCHANGED vars
  BY <1>0, <1>7 DEF TypeOK, CreateFails, InitPark, MainWoken, SpuriousMain, Joined, Terminated,
                    RowsBegin, Todo, Jobs, LastRow
<1>8. CASE Free
  BY <1>0, <1>8 DEF TypeOK, Free, WakeAll, RowsBegin, Todo, Jobs, LastRow
<1>9. ASSUME NEW w \in Workers, SpuriousRow(w) PROVE RowsBegin
  BY <1>7, <1>9 DEF SpuriousRow
<1>10. QED
  BY <1>1, <1>2, <1>3, <1>4, <1>5, <1>6, <1>7, <1>8, <1>9 DEF PoolWorker, PoolMain, Spurious

\* Such a step keeps the invariant of the rows.
LEMMA PoolKeeps == WppInv /\ RowsBegin /\ UNCHANGED rowVars => WppInv'
<1> SUFFICES ASSUME WppInv, RowsBegin, UNCHANGED rowVars PROVE WppInv'
  OBVIOUS
<1>0. /\ UNCHANGED <<row, pic, more, entries, entries_count, overrun, wpp_err, cabac>>
      /\ UNCHANGED <<job_count, LastRow>> /\ Rows' = Rows
  BY DEF rowVars, progress, Rows, RowsBegin, LastRow
<1>1. RowsTypeOK'
  BY <1>0 DEF WppInv, RowsTypeOK
<1>2. ASSUME NEW w \in Workers PROVE InvRow(w)'
  <2>1. CASE pc'[w] = pc[w] /\ our_job'[w] = our_job[w]
    BY <1>0, <2>1 DEF WppInv, InvRows, InvRow, Untouched, RowAboveIsAhead, RowEnded, RowsBegin
  <2>2. CASE pc[w] # "run" /\ (pc'[w] = "run" => our_job'[w] \in Todo)
    <3>1. row'[w] = "start"
      BY <1>0, <2>2 DEF WppInv, InvRows, InvRow
    <3>2. QED
      BY <1>0, <2>2, <3>1 DEF WppInv, InvCounters, InvRow, Untouched
  <2>3. QED
    BY <2>1, <2>2 DEF RowsBegin
<1>3. InvCounters'
  BY <1>0 DEF WppInv, InvCounters, Untouched, RowEnded, RowsBegin
<1>4. InvContexts'
  BY <1>0 DEF WppInv, InvContexts
<1>5. Wavefront'
  <2>1. \A w \in Workers : row[w] = "decode" => our_job'[w] = our_job[w]
    BY DEF WppInv, InvRows, InvRow, RowsBegin
  <2>2. QED
    BY <1>0, <2>1 DEF WppInv, InvEntries, Wavefront, Col
<1>6. InvEntries'
  BY <1>0 DEF WppInv, InvEntries
<1>7. QED
  BY <1>1, <1>2, <1>3, <1>4, <1>5, <1>6 DEF WppInv, InvRows

-------------------------------------------------------------------------------
(***************************************************************************)
(* What a step of one row leaves to the others                             *)
(***************************************************************************)

\* Worker w makes a step of its row: the counters and the picture of no other
\* row change, and at most a sleeping row is woken.
OthersKeep(w) ==
  /\ UNCHANGED <<our_job, job_count, entries_count, overrun>>
  /\ Todo' = Todo
  /\ wpp_err => wpp_err'
  /\ \A x \in Rows \ {our_job[w]} : pic'[x] = pic[x] /\ entries'[x] = entries[x]
  /\ pic'[our_job[w]] >= pic[our_job[w]] /\ entries'[our_job[w]] >= entries[our_job[w]]
  /\ pic[our_job[w]] = Cols => pic'[our_job[w]] = Cols
  /\ \A v \in Workers \ {w} :
       /\ pc'[v] = pc[v]
       /\ row'[v] = row[v] \/ (row[v] = "sleep" /\ row'[v] = "await")

LEMMA OtherRows ==
  ASSUME IInv, WppInv, NEW w \in Workers, pc[w] = "run", OthersKeep(w), RowsTypeOK',
         NEW v \in Workers, v # w
  PROVE  /\ InvRow(v)'
         /\ row'[v] = "decode" /\ our_job'[v] > 0 =>
              pic'[our_job[v] - 1] >= pic'[our_job[v]] + 2 \/ pic'[our_job[v] - 1] = Cols
<1>0. /\ RowsTypeOK /\ RowsTypeOK' /\ InvRow(v)
      /\ our_job[w] \in Rows /\ our_job[w] \notin Todo
      /\ Rows' = Rows
  BY RunningRow DEF WppInv, InvRows, Rows
<1>1. CASE pc[v] # "run"
  <2>1. row[v] = "start" /\ row'[v] = "start" /\ pc'[v] # "run"
    BY <1>0, <1>1 DEF InvRow, OthersKeep
  <2>2. QED
    BY <2>1 DEF InvRow
<1>2. CASE pc[v] = "run"
  <2>1. /\ our_job[v] \in Rows /\ our_job[v] # our_job[w] /\ our_job[v] \in Nat
        /\ our_job[v] > 0 => our_job[v] - 1 \in Rows
    <3>1. our_job[v] \in Rows /\ our_job[v] \in Nat
      BY <1>2, RunningRow, RowsAreNumbers
    <3>2. our_job[v] # our_job[w]
      BY <1>2, RunningRow
    <3>3. our_job[v] > 0 => our_job[v] - 1 \in Rows
      BY <1>2, <3>1, RunningRow
    <3>4. QED
      BY <3>1, <3>2, <3>3
  <2>2. /\ pic'[our_job[v]] = pic[our_job[v]] /\ entries'[our_job[v]] = entries[our_job[v]]
        /\ our_job'[v] = our_job[v] /\ LastRow' = LastRow
        /\ pc'[v] = pc[v]
        /\ row'[v] = row[v] \/ (row[v] = "sleep" /\ row'[v] = "await")
        /\ wpp_err => wpp_err'
    BY <2>1 DEF OthersKeep, LastRow
  <2>3. \A x \in Rows : /\ pic[x] \in Nat /\ pic'[x] \in Nat
                        /\ entries[x] \in Nat /\ entries'[x] \in Nat
    BY <1>0, RowsAreNumbers DEF RowsTypeOK
  <2>4. \A x \in Rows : /\ pic'[x] >= pic[x] /\ entries'[x] >= entries[x]
                        /\ pic[x] = Cols => pic'[x] = Cols
    BY <1>0, <2>3 DEF OthersKeep
  <2>5. RowAboveIsAhead(our_job[v]) => RowAboveIsAhead(our_job[v])'
    BY <2>1, <2>2, <2>3, <2>4 DEF RowAboveIsAhead, Shift, OthersKeep
  <2>6. InvRow(v)'
    BY <1>0, <2>2, <2>5 DEF InvRow, Untouched, RowEnded
  <2>7. row'[v] = "decode" /\ our_job'[v] > 0 =>
          pic'[our_job[v] - 1] >= pic'[our_job[v]] + 2 \/ pic'[our_job[v] - 1] = Cols
    <3> SUFFICES ASSUME row'[v] = "decode", our_job[v] > 0
                 PROVE  pic'[our_job[v] - 1] >= pic'[our_job[v]] + 2 \/ pic'[our_job[v] - 1] = Cols
      BY <2>2
    <3>1. pic[our_job[v] - 1] >= pic[our_job[v]] + 2 \/ pic[our_job[v] - 1] = Cols
      BY <2>2 DEF WppInv, InvEntries, Wavefront, Col
    <3>2. QED
      BY <2>1, <2>2, <2>3, <2>4, <3>1
  <2>8. QED
    BY <2>6, <2>7
<1>3. QED
  BY <1>1, <1>2

\* So a step of w's row need only be looked at from that row.
LEMMA OneRow ==
  ASSUME IInv, WppInv, NEW w \in Workers, pc[w] = "run", OthersKeep(w), RowsTypeOK',
         InvRow(w)', InvContexts',
         \/ entries'[our_job[w]] <= pic'[our_job[w]]
         \/ entries'[our_job[w]] <= pic'[our_job[w]] + 2 /\ RowEnded(our_job[w])',
         row'[w] = "decode" /\ our_job[w] > 0 =>
           pic'[our_job[w] - 1] >= pic'[our_job[w]] + 2 \/ pic'[our_job[w] - 1] = Cols
  PROVE  WppInv'
<1>0. /\ our_job[w] \in Rows /\ our_job[w] \notin Todo /\ Rows' = Rows
      /\ our_job' = our_job /\ LastRow' = LastRow /\ Todo' = Todo
      /\ wpp_err => wpp_err'
      /\ \A x \in Rows \ {our_job[w]} : pic'[x] = pic[x] /\ entries'[x] = entries[x]
  BY RunningRow DEF OthersKeep, LastRow, Rows
<1>1. InvRows'
  BY OtherRows DEF InvRows
<1>2. Wavefront'
  BY <1>0, OtherRows DEF Wavefront, Col
<1>3. InvCounters'
  <2>1. \A x \in Todo : x # our_job[w] /\ Untouched(x)
    BY <1>0 DEF WppInv, InvCounters
  <2>2. Todo \subseteq Rows
    BY TodoAreRows
  <2>3. \A x \in Todo' : Untouched(x)'
    BY <1>0, <2>1, <2>2 DEF Untouched
  <2>4. ASSUME NEW x \in Rows, x # our_job[w]
        PROVE  \/ entries'[x] <= pic'[x]
               \/ entries'[x] <= pic'[x] + Shift /\ RowEnded(x)'
    BY <1>0, <2>4 DEF WppInv, InvCounters, RowEnded
  <2>5. QED
    BY <1>0, <2>3, <2>4 DEF InvCounters, Shift
<1>4. InvEntries'
  BY DEF WppInv, InvEntries, OthersKeep
<1>5. QED
  BY <1>1, <1>2, <1>3, <1>4 DEF WppInv

-------------------------------------------------------------------------------
(***************************************************************************)
(* The steps of a row                                                      *)
(***************************************************************************)

\* A report raises the row's counter, takes the worker to its next place and
\* wakes at most one sleeper.
LEMMA ReportEffect ==
  ASSUME RowsTypeOK, NEW w \in Workers, NEW n \in Nat,
         NEW next \in {"start", "await", "truncated", "over"},
         row[w] # "sleep", our_job[w] \in Rows, Report(w, n, next)
  PROVE  /\ row'[w] = next
         /\ \A v \in Workers \ {w} : \/ row'[v] = row[v]
                                     \/ row[v] = "sleep" /\ row'[v] = "await"
         /\ row' \in [Workers -> {"start", "await", "sleep", "check", "decode", "decoded",
                                  "truncated", "over"}]
         /\ entries' \in [Rows -> Nat]
         /\ entries'[our_job[w]] = entries[our_job[w]] + n
         /\ \A x \in Rows \ {our_job[w]} : entries'[x] = entries[x]
         /\ UNCHANGED <<entries_count, overrun>>
<1>1. /\ entries' = [entries EXCEPT ![our_job[w]] = @ + n]
      /\ UNCHANGED <<entries_count, overrun>>
  BY DEF Report
<1>2. CASE row' = [row EXCEPT ![w] = next]
  BY <1>1, <1>2 DEF RowsTypeOK
<1>3. ASSUME NEW v \in Sleeping(ThreadOf(our_job[w])),
             row' = [row EXCEPT ![w] = next, ![v] = "await"]
      PROVE  /\ row'[w] = next
             /\ \A u \in Workers \ {w} : \/ row'[u] = row[u]
                                         \/ row[u] = "sleep" /\ row'[u] = "await"
             /\ row' \in [Workers -> {"start", "await", "sleep", "check", "decode", "decoded",
                                      "truncated", "over"}]
  <2>1. v \in Workers /\ row[v] = "sleep" /\ v # w
    BY DEF Sleeping
  <2>2. QED
    BY <1>3, <2>1 DEF RowsTypeOK
<1>4. QED
  BY <1>1, <1>2, <1>3 DEF Report, RowsTypeOK

LEMMA RunningNumbers ==
  ASSUME IInv, WppInv, NEW w \in Workers, pc[w] = "run"
  PROVE  /\ RowsTypeOK /\ InvRow(w) /\ Rows' = Rows
         /\ our_job[w] \in Rows
         /\ pic[our_job[w]] \in Nat /\ pic[our_job[w]] <= Cols
         /\ entries[our_job[w]] \in Nat
         /\ entries_count > 0
<1>1. our_job[w] \in Rows
  BY RunningRow
<1>2. Rows' = Rows
  BY DEF Rows
<1>3. RowsTypeOK /\ InvRow(w)
  BY DEF WppInv, InvRows
<1>4. pic[our_job[w]] \in 0 .. Cols /\ entries[our_job[w]] \in Nat
  BY <1>1, <1>3 DEF RowsTypeOK
<1>5. entries_count > 0
  <2>1. our_job[w] \in Nat /\ our_job[w] <= LastRow /\ job_count \in Nat
    BY <1>1, RunningRow, RowsAreNumbers DEF IInv, TypeOK
  <2>2. QED
    BY <2>1 DEF WppInv, InvEntries, LastRow
<1>6. QED
  BY <1>1, <1>2, <1>3, <1>4, <1>5, RowsAreNumbers

\* A row that only goes to another place.
LEMMA MoveKeeps ==
  ASSUME IInv, WppInv, NEW w \in Workers, pc[w] = "run",
         NEW next \in {"await", "sleep", "check", "decode", "over"},
         row' = [row EXCEPT ![w] = next],
         UNCHANGED <<vars, pic, more, progress, cabac>>,
         wpp_err' \in BOOLEAN, wpp_err => wpp_err',
         next # "over" => entries[our_job[w]] = pic[our_job[w]] /\ pic[our_job[w]] < Cols,
         next = "check" => RowAboveIsAhead(our_job[w]),
         next = "over" => wpp_err' /\ entries[our_job[w]] <= pic[our_job[w]],
         next = "decode" /\ our_job[w] > 0 =>
           pic[our_job[w] - 1] >= pic[our_job[w]] + 2 \/ pic[our_job[w] - 1] = Cols
  PROVE  WppInv'
<1> USE DEF shared, locals, vars, progress
<1>0. /\ RowsTypeOK /\ our_job[w] \in Rows /\ Rows' = Rows
      /\ pic[our_job[w]] \in Nat /\ entries[our_job[w]] \in Nat
  BY RunningNumbers
<1>1. RowsTypeOK'
  BY <1>0 DEF RowsTypeOK
<1>2. row'[w] = next /\ \A v \in Workers \ {w} : row'[v] = row[v]
  BY <1>0 DEF RowsTypeOK
<1>3. OthersKeep(w)
  BY <1>0, <1>2 DEF OthersKeep, Todo, Jobs
<1>4. InvRow(w)'
  BY <1>0, <1>2 DEF InvRow, RowAboveIsAhead, RowEnded
<1>5. InvContexts'
  BY <1>0 DEF WppInv, InvContexts
<1>6. \/ entries'[our_job[w]] <= pic'[our_job[w]]
      \/ entries'[our_job[w]] <= pic'[our_job[w]] + 2 /\ RowEnded(our_job[w])'
  BY <1>0 DEF WppInv, InvCounters, Shift, RowEnded, LastRow
<1>7. QED
  BY <1>1, <1>2, <1>3, <1>4, <1>5, <1>6, OneRow

LEMMA SkipRowKeeps ==
  ASSUME IInv, WppInv, NEW w \in Workers, SkipRow(w)
  PROVE  WppInv'
<1> USE DEF shared, locals, vars, progress, rowVars
<1>0. /\ RowsTypeOK /\ pc[w] = "run" /\ our_job[w] \in Rows /\ Rows' = Rows
      /\ pic[our_job[w]] \in Nat /\ entries[our_job[w]] \in Nat
      /\ row[w] = "start"
  <2>1. pc[w] = "run" /\ row[w] = "start"
    BY DEF SkipRow, RunJob
  <2>2. QED
    BY <2>1, RunningNumbers
<1>1. RowsTypeOK'
  BY <1>0 DEF RowsTypeOK, SkipRow
<1>2. /\ \A v \in Workers \ {w} : pc'[v] = pc[v]
      /\ pc'[w] = "count" /\ row' = row
      /\ UNCHANGED <<our_job, job_count, pic, entries, entries_count, overrun,
                    wpp_err, cabac>>
      /\ Todo' = Todo
  BY <1>0 DEF SkipRow, RunJob, Todo, Jobs, IInv, TypeOK
<1>3. OthersKeep(w)
  BY <1>0, <1>2 DEF OthersKeep
<1>4. InvRow(w)'
  BY <1>0, <1>2 DEF InvRow
<1>5. InvContexts'
  BY <1>0, <1>2 DEF WppInv, InvContexts
<1>6. \/ entries'[our_job[w]] <= pic'[our_job[w]]
      \/ entries'[our_job[w]] <= pic'[our_job[w]] + 2 /\ RowEnded(our_job[w])'
  BY <1>0, <1>2 DEF WppInv, InvCounters, Shift, RowEnded, LastRow
<1>7. QED
  BY <1>0, <1>1, <1>2, <1>3, <1>4, <1>5, <1>6, OneRow

LEMMA AwaitKeeps ==
  ASSUME IInv, WppInv, NEW w \in Workers, Await(w)
  PROVE  WppInv'
<1>1. /\ pc[w] = "run" /\ InvRow(w) /\ Cols > 0
      /\ UNCHANGED <<vars, pic, more, progress, cabac>> /\ wpp_err' = wpp_err
      /\ wpp_err \in BOOLEAN
  BY RowsAreNumbers DEF Await, WppInv, InvRows, RowsTypeOK
<1>2. entries[our_job[w]] = pic[our_job[w]] /\ pic[our_job[w]] < Cols
  BY <1>1 DEF Await, InvRow, Untouched
<1>3. CASE RowAboveIsAhead(our_job[w])
  <2>1. row' = [row EXCEPT ![w] = "check"]
    BY <1>3 DEF Await
  <2>2. QED
    BY <1>1, <1>2, <1>3, <2>1, MoveKeeps
<1>4. CASE ~RowAboveIsAhead(our_job[w])
  <2>1. row' = [row EXCEPT ![w] = "sleep"]
    BY <1>4 DEF Await
  <2>2. QED
    BY <1>1, <1>2, <2>1, MoveKeeps
<1>5. QED
  BY <1>3, <1>4

LEMMA SpuriousRowKeeps ==
  ASSUME IInv, WppInv, NEW w \in Workers, SpuriousRow(w)
  PROVE  WppInv'
<1>1. /\ pc[w] = "run" /\ row' = [row EXCEPT ![w] = "await"]
      /\ UNCHANGED <<vars, pic, more, progress, cabac>> /\ wpp_err' = wpp_err
      /\ entries[our_job[w]] = pic[our_job[w]] /\ pic[our_job[w]] < Cols
      /\ wpp_err \in BOOLEAN
  BY DEF SpuriousRow, WppInv, InvRows, InvRow, RowsTypeOK
<1>2. QED
  BY <1>1, MoveKeeps

\* A row that goes on has a row above that is ahead of it in the picture, not
\* only in its counter.
LEMMA CheckErrorKeeps ==
  ASSUME IInv, WppInv, NEW w \in Workers, CheckError(w)
  PROVE  WppInv'
<1>1. /\ pc[w] = "run" /\ RowAboveIsAhead(our_job[w])
      /\ entries[our_job[w]] = pic[our_job[w]] /\ pic[our_job[w]] < Cols
      /\ UNCHANGED <<vars, pic, more, progress, cabac>> /\ wpp_err' = wpp_err
      /\ wpp_err \in BOOLEAN
  BY DEF CheckError, WppInv, InvRows, InvRow, RowsTypeOK
<1>2. CASE wpp_err
  <2>1. row' = [row EXCEPT ![w] = "over"] /\ entries[our_job[w]] <= pic[our_job[w]]
    <3>1. pic[our_job[w]] \in Nat
      BY <1>1, RunningNumbers
    <3>2. QED
      BY <1>1, <1>2, <3>1 DEF CheckError
  <2>2. QED
    BY <1>1, <1>2, <2>1, MoveKeeps
<1>3. CASE ~wpp_err
  <2>1. row' = [row EXCEPT ![w] = "decode"]
    BY <1>3 DEF CheckError
  <2>2. ASSUME our_job[w] > 0
        PROVE  pic[our_job[w] - 1] >= pic[our_job[w]] + 2 \/ pic[our_job[w] - 1] = Cols
    <3> DEFINE a == our_job[w] - 1
    <3>1. /\ our_job[w] \in Rows /\ our_job[w] \in Nat /\ our_job[w] <= LastRow
          /\ LastRow \in Int /\ \A x \in Nat : x <= our_job[w] => x \in Rows
      BY <1>1, RunningRow, RowsAreNumbers
    <3>2. a \in Rows /\ a # LastRow
      BY <2>2, <3>1
    <3>3. entries[a] - entries[our_job[w]] >= 2
      BY <1>1, <2>2, <3>1, RunningNumbers DEF RowAboveIsAhead, Shift
    <3>4. entries[a] <= pic[a] \/ pic[a] = Cols
      BY <1>3, <3>2 DEF WppInv, InvCounters, RowEnded
    <3>5. pic[a] \in Nat /\ entries[a] \in Nat /\ pic[our_job[w]] \in Nat
      BY <3>1, <3>2, RowsAreNumbers DEF WppInv, RowsTypeOK
    <3>6. QED
      BY <1>1, <3>3, <3>4, <3>5
  <2>3. QED
    BY <1>1, <2>1, <2>2, MoveKeeps
<1>4. QED
  BY <1>2, <1>3

\* A slice with a counter for each row does not crash.
LEMMA NoCrash ==
  ASSUME IInv, WppInv, NEW w \in Workers, Crash(w)
  PROVE  FALSE
<1>1. pc[w] = "run" /\ entries_count = 0
  BY DEF Crash
<1>2. QED
  BY <1>1, RunningNumbers

LEMMA FailuresKeep ==
  ASSUME IInv, WppInv, NEW w \in Workers, DecodeFails(w) \/ TruncatedRow(w)
  PROVE  WppInv'
<1>1. /\ pc[w] = "run" /\ row' = [row EXCEPT ![w] = "over"]
      /\ UNCHANGED <<vars, pic, more, progress, cabac>> /\ wpp_err' = TRUE
      /\ entries[our_job[w]] = pic[our_job[w]]
  BY DEF DecodeFails, TruncatedRow, WppInv, InvRows, InvRow
<1>2. entries[our_job[w]] <= pic[our_job[w]] /\ wpp_err' \in BOOLEAN /\ (wpp_err => wpp_err')
  BY <1>1, RunningNumbers
<1>3. QED
  BY <1>1, <1>2, MoveKeeps

\* The second CTB of a row makes its contexts the ones in the buffer, and the row
\* is then the last that has two.
LEMMA DecodeContexts ==
  ASSUME IInv, WppInv, NEW w \in Workers, Decode(w)
  PROVE  InvContexts'
<1> DEFINE r == our_job[w]
<1>0. /\ pc[w] = "run" /\ row[w] = "decode" /\ r \in Rows /\ r \in Nat
      /\ RowsTypeOK /\ Rows' = Rows /\ Rows \subseteq Nat
      /\ \A x \in Nat : x <= r => x \in Rows
      /\ \A x \in Rows : pic[x] \in Nat
      /\ Cols \in Nat /\ Cols >= 2 /\ pic[r] < Cols
  <2>1. pc[w] = "run" /\ row[w] = "decode"
    BY DEF Decode
  <2>2. /\ r \in Rows /\ r \in Nat /\ RowsTypeOK /\ InvRow(w) /\ Rows' = Rows
        /\ \A x \in Nat : x <= r => x \in Rows
    BY <2>1, RunningNumbers, RunningRow, RowsAreNumbers
  <2>3. \A x \in Rows : pic[x] \in Nat
    BY <2>2, RowsAreNumbers DEF RowsTypeOK
  <2>4. pic[r] < Cols
    BY <2>1, <2>2 DEF InvRow
  <2>5. QED
    BY <2>1, <2>2, <2>3, <2>4, RowsAreNumbers
<1>1. /\ pic'[r] = pic[r] + 1
      /\ \A x \in Rows \ {r} : pic'[x] = pic[x]
      /\ cabac' = IF pic[r] + 1 = 2 THEN r ELSE cabac
  BY <1>0 DEF Decode, RowsTypeOK, SavesContexts, Col
<1>2. r > 0 => pic[r - 1] >= 2
  BY <1>0 DEF WppInv, InvEntries, Wavefront, Col
<1>3. \A x, y \in Rows : x < y /\ pic[y] > 0 => pic[x] >= 2
  BY DEF WppInv, InvContexts
<1>4. \A x \in Rows : x < r => pic[x] >= 2
  <2> SUFFICES ASSUME NEW x \in Rows, x < r PROVE pic[x] >= 2
    OBVIOUS
  <2>1. CASE x = r - 1
    BY <1>2, <1>0, <2>1
  <2>2. CASE x # r - 1
    <3>1. x < r - 1 /\ r - 1 \in Rows /\ pic[r - 1] > 0
      BY <1>0, <1>2, <2>2
    <3>2. QED
      BY <1>3, <3>1
  <2>3. QED
    BY <2>1, <2>2
<1>5. \A x, y \in Rows : x < y /\ pic'[y] > 0 => pic'[x] >= 2
  BY <1>0, <1>1, <1>3, <1>4
<1>6. ASSUME NEW x \in Rows, pic'[x] >= 2, x + 1 \in Rows => pic'[x + 1] < 2
      PROVE  cabac' = x
  <2>1. CASE pic[r] + 1 = 2
    <3>1. ~(x > r)
      <4>1. x > r => pic[r] >= 2
        BY <1>0, <1>1, <1>3, <1>6
      <4>2. QED
        BY <1>0, <2>1, <4>1
    <3>2. ~(x < r)
      <4>1. x < r => x + 1 \in Rows /\ (x + 1 = r \/ x + 1 < r)
        BY <1>0
      <4>2. x + 1 \in Rows /\ x + 1 < r => pic'[x + 1] >= 2
        BY <1>0, <1>1, <1>4
      <4>3. x + 1 = r => pic'[x + 1] = 2
        BY <1>1, <2>1
      <4>4. x + 1 \in Rows => pic'[x + 1] < 2 /\ pic'[x + 1] \in Nat
        BY <1>0, <1>1, <1>6
      <4>5. QED
        BY <4>1, <4>2, <4>3, <4>4
    <3>3. QED
      BY <1>0, <1>1, <2>1, <3>1, <3>2
  <2>2. CASE pic[r] + 1 # 2
    <3>1. pic[x] >= 2
      BY <1>0, <1>1, <1>6, <2>2
    <3>2. x + 1 \in Rows => pic[x + 1] < 2
      BY <1>0, <1>1, <1>6
    <3>3. cabac = x
      BY <3>1, <3>2 DEF WppInv, InvContexts
    <3>4. QED
      BY <1>1, <2>2, <3>3
  <2>3. QED
    BY <2>1, <2>2
<1>7. QED
  BY <1>0, <1>5, <1>6 DEF InvContexts

LEMMA DecodeKeeps ==
  ASSUME IInv, WppInv, NEW w \in Workers, Decode(w)
  PROVE  WppInv'
<1> USE DEF shared, locals, vars, progress
<1>0. /\ RowsTypeOK /\ pc[w] = "run" /\ our_job[w] \in Rows /\ Rows' = Rows
      /\ pic[our_job[w]] \in Nat /\ entries[our_job[w]] = pic[our_job[w]]
      /\ pic[our_job[w]] < Cols /\ Cols \in Nat
  <2>1. pc[w] = "run" /\ row[w] = "decode"
    BY DEF Decode
  <2>2. QED
    BY <2>1, RunningNumbers, RowsAreNumbers DEF InvRow
<1>1. /\ pic' = [pic EXCEPT ![our_job[w]] = @ + 1]
      /\ row' = [row EXCEPT ![w] = "decoded"]
      /\ UNCHANGED <<vars, progress, wpp_err>>
      /\ more' = [more EXCEPT ![w] = TRUE] \/ more' = [more EXCEPT ![w] = FALSE]
  BY DEF Decode
<1>2. RowsTypeOK'
  <2>1. pic[our_job[w]] + 1 \in 0 .. Cols
    BY <1>0
  <2>2. QED
    BY <1>0, <1>1, <2>1 DEF RowsTypeOK
<1>3. /\ row'[w] = "decoded" /\ pic'[our_job[w]] = pic[our_job[w]] + 1
      /\ \A v \in Workers \ {w} : row'[v] = row[v]
      /\ \A x \in Rows \ {our_job[w]} : pic'[x] = pic[x]
  BY <1>0, <1>1 DEF RowsTypeOK
<1>4. OthersKeep(w)
  BY <1>0, <1>1, <1>3 DEF OthersKeep, Todo, Jobs
<1>5. InvRow(w)'
  BY <1>0, <1>1, <1>3 DEF InvRow
<1>6. entries'[our_job[w]] <= pic'[our_job[w]]
  BY <1>0, <1>1, <1>3
<1>7. QED
  BY <1>0, <1>2, <1>3, <1>4, <1>5, <1>6, DecodeContexts, OneRow

LEMMA ReportCtbKeeps ==
  ASSUME IInv, WppInv, NEW w \in Workers, ReportCtb(w)
  PROVE  WppInv'
<1> USE DEF shared, locals, vars, progress
<1>0. /\ RowsTypeOK /\ pc[w] = "run" /\ our_job[w] \in Rows /\ Rows' = Rows
      /\ row[w] = "decoded"
      /\ pic[our_job[w]] \in Nat /\ entries[our_job[w]] = pic[our_job[w]] - 1
      /\ pic[our_job[w]] <= Cols /\ Cols \in Nat /\ entries[our_job[w]] \in Nat
  <2>1. pc[w] = "run" /\ row[w] = "decoded"
    BY DEF ReportCtb
  <2>2. QED
    BY <2>1, RunningNumbers, RowsAreNumbers DEF InvRow
<1>1. PICK next \in {"start", "await", "truncated", "over"} :
        /\ Report(w, 1, next)
        /\ next # "start"
        /\ next = "await" => pic[our_job[w]] < Cols
        /\ next = "over" => pic[our_job[w]] = Cols \/ our_job[w] = LastRow
  <2>1. CASE Truncated(w) /\ Report(w, 1, "truncated")
    BY <2>1
  <2>2. CASE more[w] /\ Col(w) < Cols /\ Report(w, 1, "await")
    BY <2>2 DEF Col
  <2>3. CASE ~Truncated(w) /\ ~(more[w] /\ Col(w) < Cols) /\ Report(w, 1, "over")
    BY <1>0, <2>3 DEF Col, Truncated
  <2>4. QED
    BY <2>1, <2>2, <2>3 DEF ReportCtb
<1>2. UNCHANGED <<vars, pic, more, wpp_err, cabac>>
  BY DEF ReportCtb
<1>3. /\ row'[w] = next
      /\ \A v \in Workers \ {w} : row'[v] = row[v] \/ (row[v] = "sleep" /\ row'[v] = "await")
      /\ row' \in [Workers -> {"start", "await", "sleep", "check", "decode", "decoded",
                               "truncated", "over"}]
      /\ entries' \in [Rows -> Nat]
      /\ entries'[our_job[w]] = entries[our_job[w]] + 1
      /\ \A x \in Rows \ {our_job[w]} : entries'[x] = entries[x]
      /\ UNCHANGED <<entries_count, overrun>>
  BY <1>0, <1>1, ReportEffect
<1>4. RowsTypeOK'
  BY <1>0, <1>2, <1>3 DEF RowsTypeOK
<1>5. OthersKeep(w)
  BY <1>0, <1>2, <1>3 DEF OthersKeep, Todo, Jobs
<1>6. entries'[our_job[w]] = pic'[our_job[w]]
  BY <1>0, <1>2, <1>3
<1>7. InvRow(w)'
  BY <1>0, <1>1, <1>2, <1>3, <1>6 DEF InvRow, RowEnded, LastRow
<1>8. InvContexts'
  BY <1>0, <1>2 DEF WppInv, InvContexts
<1>9. entries'[our_job[w]] <= pic'[our_job[w]] /\ row'[w] # "decode"
  BY <1>0, <1>1, <1>2, <1>3, <1>6
<1>10. QED
  BY <1>0, <1>4, <1>5, <1>7, <1>8, <1>9, OneRow

LEMMA EndRowKeeps ==
  ASSUME IInv, WppInv, NEW w \in Workers, EndRow(w)
  PROVE  WppInv'
<1> USE DEF shared, locals, vars, progress
<1>0. /\ RowsTypeOK /\ pc[w] = "run" /\ our_job[w] \in Rows /\ Rows' = Rows
      /\ row[w] = "over" /\ RowEnded(our_job[w])
      /\ pic[our_job[w]] \in Nat /\ entries[our_job[w]] <= pic[our_job[w]]
      /\ entries[our_job[w]] \in Nat
  <2>1. pc[w] = "run" /\ row[w] = "over"
    BY DEF EndRow, Return, RunJob
  <2>2. QED
    BY <2>1, RunningNumbers DEF InvRow
<1>1. Report(w, 2, "start") /\ 2 \in Nat
  BY DEF EndRow, Shift
<1>2. /\ \A v \in Workers \ {w} : pc'[v] = pc[v]
      /\ pc'[w] = "count"
      /\ UNCHANGED <<our_job, job_count, current_job, current_execute, self_id, last_execute>>
      /\ UNCHANGED <<pic, wpp_err, cabac>>
      /\ more' \in [Workers -> BOOLEAN]
  BY <1>0 DEF EndRow, Return, RunJob, IInv, TypeOK, RowsTypeOK
<1>3. /\ row'[w] = "start"
      /\ \A v \in Workers \ {w} : row'[v] = row[v] \/ (row[v] = "sleep" /\ row'[v] = "await")
      /\ row' \in [Workers -> {"start", "await", "sleep", "check", "decode", "decoded",
                               "truncated", "over"}]
      /\ entries' \in [Rows -> Nat]
      /\ entries'[our_job[w]] = entries[our_job[w]] + 2
      /\ \A x \in Rows \ {our_job[w]} : entries'[x] = entries[x]
      /\ UNCHANGED <<entries_count, overrun>>
  BY <1>0, <1>1, ReportEffect
<1>4. RowsTypeOK'
  BY <1>0, <1>2, <1>3 DEF RowsTypeOK
<1>5. OthersKeep(w)
  BY <1>0, <1>2, <1>3 DEF OthersKeep, Todo, Jobs
<1>6. InvRow(w)'
  BY <1>2, <1>3 DEF InvRow
<1>7. InvContexts'
  BY <1>0, <1>2 DEF WppInv, InvContexts
<1>8. /\ entries'[our_job[w]] <= pic'[our_job[w]] + 2 /\ RowEnded(our_job[w])'
      /\ row'[w] # "decode"
  BY <1>0, <1>2, <1>3 DEF RowEnded, LastRow
<1>9. QED
  BY <1>0, <1>4, <1>5, <1>6, <1>7, <1>8, OneRow

-------------------------------------------------------------------------------
(***************************************************************************)
(* The invariant and the theorems                                          *)
(***************************************************************************)

\* A new slice starts from an untouched picture, with no row under way and, if it
\* has no more rows than there are counters, with all of them reset.
LEMMA DecodeSliceKeeps ==
  ASSUME IInv, WppInv, NEW n \in JobCounts, DecodeSlice(n), ~overrun'
  PROVE  WppInv'
<1>0. /\ Execute(n) /\ wpp_err' = FALSE /\ Cols \in Nat /\ Cols >= 2
      /\ pic' = [r \in Rows |-> 0]
      /\ UNCHANGED <<row, more, cabac>>
      /\ n \in Nat /\ entries_count \in Nat /\ Rows \subseteq Nat
  BY RowsAreNumbers, Constants DEF DecodeSlice, WppInv, InvEntries
<1>1. Rows' = Rows
  BY DEF Rows
<1>2. \A w \in Workers : pc[w] # "run" /\ pc'[w] # "run" /\ row[w] = "start"
  <2>1. Busy = {} /\ Busy' = {}
    BY <1>0, ExecuteEffect
  <2>2. \A w \in Workers : pc[w] # "run" /\ pc'[w] # "run"
    BY <2>1 DEF Busy
  <2>3. QED
    BY <2>2 DEF WppInv, InvRows, InvRow
<1>3. entries_count' \in Nat /\ n <= entries_count'
  <2>1. entries_count' \in Nat
    BY <1>0 DEF DecodeSlice, AllocEntries
  <2>2. ~(n > entries_count')
    BY DEF DecodeSlice
  <2>3. QED
    BY <1>0, <2>1, <2>2
<1>4. \A r \in Rows : entries'[r] = 0
  BY <1>0, <1>3 DEF DecodeSlice, ResetEntries
<1>5. RowsTypeOK'
  <2>1. RowsTypeOK /\ 0 \in 0 .. Cols
    BY <1>0 DEF WppInv
  <2>2. pic' \in [Rows -> 0 .. Cols]
    BY <1>0, <2>1
  <2>3. entries' \in [Rows -> Nat]
    BY <1>4 DEF DecodeSlice, ResetEntries
  <2>4. QED
    BY <1>0, <1>1, <2>1, <2>2, <2>3 DEF RowsTypeOK
<1>6. InvEntries'
  BY <1>0, <1>3 DEF InvEntries, Execute
<1>7. InvRows' /\ Wavefront'
  BY <1>0, <1>2 DEF InvRows, InvRow, Wavefront
<1>8. InvCounters'
  <2>1. Todo' \subseteq Rows
    BY <1>0, ExecuteEffect, Constants DEF Rows
  <2>2. QED
    BY <1>0, <1>1, <1>4, <2>1 DEF InvCounters, Untouched
<1>9. InvContexts'
  BY <1>0, <1>1 DEF InvContexts
<1>10. QED
  BY <1>5, <1>6, <1>7, <1>8, <1>9 DEF WppInv

LEMMA WppInitInv == WppInit => WppInv
<1> SUFFICES ASSUME WppInit PROVE WppInv
  OBVIOUS
<1>0. Cols \in Nat /\ Cols >= 2 /\ job_count = 0
  BY RowsAreNumbers DEF WppInit, Init
<1>1. RowsTypeOK
  <2>1. 0 \in 0 .. Cols
    BY <1>0
  <2>2. pic \in [Rows -> 0 .. Cols] /\ entries \in [Rows -> Nat]
    BY <2>1 DEF WppInit
  <2>3. QED
    BY <2>2 DEF WppInit, RowsTypeOK
<1>2. InvRows /\ Wavefront
  BY DEF WppInit, Init, InvRows, InvRow, Wavefront
<1>3. InvCounters
  <2>1. Todo = {}
    BY <1>0 DEF WppInit, Init, Todo, Jobs
  <2>2. QED
    BY <2>1 DEF WppInit, InvCounters
<1>4. InvContexts
  BY DEF WppInit, InvContexts
<1>5. InvEntries
  BY <1>0 DEF WppInit, InvEntries
<1>6. QED
  BY <1>1, <1>2, <1>3, <1>4, <1>5 DEF WppInv

\* A slice that runs past the counters is not forgotten.
LEMMA OverrunStays == overrun /\ [WppNext]_wppVars => overrun'
<1> USE DEF rowVars, wppVars, progress
<1> SUFFICES ASSUME overrun, [WppNext]_wppVars PROVE overrun'
  OBVIOUS
<1>1. ASSUME NEW w \in Workers, Row(w) PROVE overrun'
  BY <1>1 DEF Row, SkipRow, Await, CheckError, Decode, DecodeFails, ReportCtb, Report,
              TruncatedRow, EndRow, Crash
<1>2. ASSUME NEW n \in JobCounts, DecodeSlice(n) PROVE overrun'
  BY <1>2 DEF DecodeSlice
<1>3. CASE Spurious
  BY <1>3 DEF Spurious, SpuriousRow
<1>4. CASE UNCHANGED rowVars
  BY <1>4
<1>5. QED
  BY <1>1, <1>2, <1>3, <1>4 DEF WppNext, PoolWorker, PoolMain

LEMMA WppNextInv == IInv /\ RowsInv /\ [WppNext]_wppVars => RowsInv'
<1> SUFFICES ASSUME IInv, WppInv, [WppNext]_wppVars, ~overrun' PROVE WppInv'
  BY OverrunStays DEF RowsInv
<1>1. ASSUME NEW w \in Workers, Row(w) PROVE WppInv'
  BY <1>1, SkipRowKeeps, AwaitKeeps, CheckErrorKeeps, DecodeKeeps, FailuresKeep,
     ReportCtbKeeps, EndRowKeeps, NoCrash DEF Row
<1>2. ASSUME NEW w \in Workers, PoolWorker(w) PROVE WppInv'
  <2>1. UNCHANGED rowVars
    BY <1>2 DEF PoolWorker
  <2>2. QED
    BY <1>2, <2>1, PoolBeginsRows, PoolKeeps
<1>3. ASSUME NEW n \in JobCounts, DecodeSlice(n) PROVE WppInv'
  BY <1>3, DecodeSliceKeeps
<1>4. CASE PoolMain
  <2>1. UNCHANGED rowVars
    BY <1>4 DEF PoolMain
  <2>2. QED
    BY <1>4, <2>1, PoolBeginsRows, PoolKeeps
<1>5. CASE Spurious
  <2>1. ASSUME NEW w \in Workers, SpuriousRow(w) PROVE WppInv'
    BY <2>1, SpuriousRowKeeps
  <2>2. CASE UNCHANGED rowVars
    BY <1>5, <2>2, PoolBeginsRows, PoolKeeps
  <2>3. QED
    BY <1>5, <2>1, <2>2 DEF Spurious
<1>6. CASE Terminated /\ UNCHANGED rowVars
  BY <1>6, PoolBeginsRows, PoolKeeps
<1>7. CASE UNCHANGED wppVars \/ (~Alive /\ UNCHANGED wppVars)
  <2>1. UNCHANGED vars /\ UNCHANGED rowVars
    BY <1>7 DEF wppVars
  <2>2. RowsBegin
    BY <2>1 DEF vars, shared, locals, RowsBegin, Todo, Jobs, LastRow
  <2>3. QED
    BY <2>1, <2>2, PoolKeeps
<1>8. QED
  BY <1>1, <1>2, <1>3, <1>4, <1>5, <1>6, <1>7 DEF WppNext

\* The counters, the picture and the contexts agree with one another in every state, as
\* long as no slice has had more rows than the first one, for whose rows there are
\* counters: what the two theorems below rest on.
THEOREM RowsInvariance == WppSpec => []RowsInv
<1>1. WppInit => RowsInv
  BY WppInitInv DEF RowsInv
<1>2. IInv /\ RowsInv /\ [WppNext]_wppVars => RowsInv'
  BY WppNextInv
<1>3. WppSpec => []IInv
  BY PoolUnderneath, Invariance, PTL
<1>4. QED
  BY <1>1, <1>2, <1>3, PTL DEF WppSpec

\* No CTB is decoded before its neighbours in the row above, whatever rows failed,
\* were truncated or were given up, as long as no slice has more rows than counters.
THEOREM WavefrontHolds == WppSpec => []Wavefront
<1>1. RowsInv => Wavefront
  BY DEF RowsInv, WppInv, Wavefront
<1>2. QED
  BY <1>1, RowsInvariance, PTL

\* Every row starts from the contexts of the row above, under the same condition.
THEOREM ContextsHold == WppSpec => []RowInheritsContexts
<1>1. IInv /\ RowsInv => RowInheritsContexts
  <2> SUFFICES ASSUME IInv, WppInv, NEW w \in Workers,
                      row[w] = "decode", Col(w) = 0, our_job[w] > 0
               PROVE  cabac = our_job[w] - 1
    BY DEF RowsInv, RowInheritsContexts
  <2>1. pc[w] = "run" /\ pic[our_job[w]] = 0
    BY DEF WppInv, InvRows, InvRow, Col
  <2>2. our_job[w] \in Rows /\ our_job[w] \in Nat /\ our_job[w] - 1 \in Rows
    <3>1. our_job[w] \in Rows /\ our_job[w] \in Nat
      BY <2>1, RunningRow, RowsAreNumbers
    <3>2. QED
      BY <2>1, <3>1, RunningRow
  <2>3. pic[our_job[w] - 1] >= 2
    <3>1. pic[our_job[w] - 1] >= 0 + 2 \/ pic[our_job[w] - 1] = Cols
      BY <2>1 DEF WppInv, InvEntries, Wavefront, Col
    <3>2. QED
      BY <3>1, RowsAreNumbers
  <2>4. (our_job[w] - 1) + 1 = our_job[w]
    BY <2>2
  <2>5. QED
    BY <2>1, <2>2, <2>3, <2>4 DEF WppInv, InvContexts
<1>2. WppSpec => []IInv
  BY PoolUnderneath, Invariance, PTL
<1>3. QED
  BY <1>1, <1>2, RowsInvariance, PTL
================================================================================
