----------------------------- MODULE SliceThreads -----------------------------
(***************************************************************************)
(* The slice-threading pool of libavcodec (libavcodec/pthread_slice.c).    *)
(*                                                                         *)
(* The codec's thread (here: main) hands job_count jobs to N workers and   *)
(* blocks until all of them were executed.  Jobs are handed out by one     *)
(* counter, current_job, that also counts the finished jobs: it starts at  *)
(* N, a worker takes job self_id first, increments the counter after every *)
(* job and takes the value it found as its next job; the call is over when *)
(* the counter reaches N + job_count.                                      *)
(*                                                                         *)
(* current_job_lock is held from lock to unlock or cond_wait, so a step is *)
(* one critical section; the lock shows only while ff_slice_thread_init()  *)
(* creates the threads under it (main = "creating").                       *)
(***************************************************************************)
EXTENDS Integers, FiniteSets

CONSTANTS
  N,          \* avctx->thread_count; with 1 there is no pool
  JobCounts,  \* the job counts the codec asks for
  MaxExec     \* bound on the number of execute() calls

ASSUME NAssumption == N \in Nat /\ N >= 2
ASSUME JobsAssumption == JobCounts \subseteq Nat \ {0}
ASSUME MaxExecAssumption == MaxExec \in Nat

Workers == 0 .. (N - 1)

VARIABLES
  main,             \* where the codec's thread is
  created,          \* threads created by ff_slice_thread_init()
  thread_count,     \* avctx->thread_count
  current_job, job_count, current_execute, done,   \* SliceThreadContext
  rets,             \* rets[j] = the call whose job j stored its result last
  pc,               \* where each worker is
  our_job, last_execute, self_id, tcount           \* locals of worker()

shared == <<thread_count, current_job, job_count, current_execute, done, rets>>
locals == <<our_job, last_execute, self_id, tcount>>
vars == <<main, created, shared, pc, locals>>

Jobs == 0 .. (job_count - 1)                     \* of the current call
AllJobs == UNION {0 .. (n - 1) : n \in JobCounts}

-------------------------------------------------------------------------------
Init ==
  /\ main = "creating"
  /\ created = 0
  /\ thread_count = N
  /\ current_job = 0
  /\ job_count = 0
  /\ current_execute = 0
  /\ done = FALSE
  /\ rets = [j \in AllJobs |-> 0]
  /\ pc = [w \in Workers |-> "none"]
  /\ our_job = [w \in Workers |-> 0]
  /\ last_execute = [w \in Workers |-> 0]
  /\ self_id = [w \in Workers |-> 0]
  /\ tcount = [w \in Workers |-> 0]

-------------------------------------------------------------------------------
(***************************************************************************)
(* worker()                                                                *)
(***************************************************************************)

\* The three reads at the top of worker(), made without the lock.
WorkerEnter(w) ==
  /\ pc[w] = "new"
  /\ our_job' = [our_job EXCEPT ![w] = job_count]
  /\ tcount' = [tcount EXCEPT ![w] = thread_count]
  /\ pc' = [pc EXCEPT ![w] = "enter"]
  /\ UNCHANGED <<main, created, shared, last_execute, self_id>>

\* pthread_cond_signal(&c->last_job_cond): only main ever waits on it.
SignalMain(cond) ==
  main' = IF cond /\ main = "parked" THEN "woken" ELSE main

\* Worker w holds the lock, owns the id sid, and the counter stands at cj.
AllCounted(w, cj) == cj = tcount[w] + job_count

\* The inner wait loop and what follows it: sleep, leave, or take the job of
\* this worker's id in a call it has not seen yet (and when that call is too
\* small for it, go round the outer loop once more and sleep).  The our_job of
\* a thread that sleeps is never read again, so it is left as it is.
Settle(w, sid, cj, signalled) ==
  \/ /\ last_execute[w] = current_execute
     /\ ~done
     /\ pc' = [pc EXCEPT ![w] = "wait"]
     /\ SignalMain(signalled)
     /\ UNCHANGED <<our_job, last_execute>>
  \/ /\ done
     /\ last_execute' = [last_execute EXCEPT ![w] = current_execute]
     /\ our_job' = [our_job EXCEPT ![w] = sid]
     /\ pc' = [pc EXCEPT ![w] = "exit"]
     /\ SignalMain(signalled)
  \/ /\ last_execute[w] # current_execute
     /\ ~done
     /\ last_execute' = [last_execute EXCEPT ![w] = current_execute]
     /\ our_job' = [our_job EXCEPT ![w] = sid]
     /\ pc' = [pc EXCEPT ![w] = IF sid < job_count THEN "run" ELSE "wait"]
     /\ SignalMain(signalled \/ (sid >= job_count /\ AllCounted(w, cj)))

\* The head of the loop, entered with our_job = job and current_job = cj.
LoopHead(w, job, sid, cj) ==
  \/ /\ job < job_count
     /\ our_job' = [our_job EXCEPT ![w] = job]
     /\ pc' = [pc EXCEPT ![w] = "run"]
     /\ UNCHANGED <<main, last_execute>>
  \/ /\ job >= job_count
     /\ Settle(w, sid, cj, AllCounted(w, cj))

LockFree == main # "creating"

\* The first critical section: take an id, then wait for work.
WorkerRegister(w) ==
  /\ pc[w] = "enter"
  /\ LockFree
  /\ self_id' = [self_id EXCEPT ![w] = current_job]
  /\ current_job' = current_job + 1
  /\ LoopHead(w, our_job[w], current_job, current_job + 1)
  /\ UNCHANGED <<created, thread_count, job_count, current_execute, done, rets,
                 tcount>>

\* The job's function runs without the lock and stores what it returned.
RunJob(w) ==
  /\ pc[w] = "run"
  /\ rets' = [rets EXCEPT ![our_job[w]] = current_execute]
  /\ pc' = [pc EXCEPT ![w] = "count"]
  /\ UNCHANGED <<main, created, thread_count, current_job, job_count,
                 current_execute, done, locals>>

\* Variant: the next job is taken with ++current_job.
CountJobPreIncrement(w) ==
  /\ pc[w] = "count"
  /\ LockFree
  /\ current_job' = current_job + 1
  /\ LoopHead(w, current_job + 1, self_id[w], current_job + 1)
  /\ UNCHANGED <<created, thread_count, job_count, current_execute, done, rets,
                 self_id, tcount>>

\* Lock again, count the job and take the next one.
CountJob(w) ==
  /\ pc[w] = "count"
  /\ LockFree
  /\ current_job' = current_job + 1
  /\ LoopHead(w, current_job, self_id[w], current_job + 1)
  /\ UNCHANGED <<created, thread_count, job_count, current_execute, done, rets,
                 self_id, tcount>>

\* Woken in pthread_cond_wait(&c->current_job_cond): test the condition again.
Recheck(w) ==
  /\ pc[w] = "woken"
  /\ LockFree
  /\ Settle(w, self_id[w], current_job, FALSE)
  /\ UNCHANGED <<created, shared, self_id, tcount>>

\* POSIX lets a wait return without a signal.
SpuriousWorker(w) ==
  /\ pc[w] = "wait"
  /\ pc' = [pc EXCEPT ![w] = "woken"]
  /\ UNCHANGED <<main, created, shared, locals>>

\* Variant: pthread_cond_signal() instead of pthread_cond_broadcast().
WakeOne ==
  IF \E w \in Workers : pc[w] = "wait"
    THEN \E w \in Workers : pc[w] = "wait" /\ pc' = [pc EXCEPT ![w] = "woken"]
    ELSE UNCHANGED pc

WakeAll == pc' = [w \in Workers |-> IF pc[w] = "wait" THEN "woken" ELSE pc[w]]

-------------------------------------------------------------------------------
(***************************************************************************)
(* ff_slice_thread_init()                                                  *)
(***************************************************************************)

CreateWorker ==
  /\ main = "creating"
  /\ created < N
  /\ created' = created + 1
  /\ pc' = [pc EXCEPT ![created] = "new"]
  /\ UNCHANGED <<main, shared, locals>>

\* pthread_create() failed: keep the threads that exist and free the context.
CreateFails ==
  /\ main = "creating"
  /\ created < N
  /\ thread_count' = created
  /\ main' = "freeing"
  /\ UNCHANGED <<created, current_job, job_count, current_execute, done, rets, pc,
                 locals>>

\* Variant: wait only until every job was handed out.
ParkHandedOut == main' = IF current_job' >= job_count' THEN "idle" ELSE "parked"

\* thread_park_workers(): the loop's test, with the lock held.
Park == main' = IF current_job' = thread_count + job_count' THEN "idle" ELSE "parked"

InitPark ==
  /\ main = "creating"
  /\ created = N
  /\ UNCHANGED <<created, shared, pc, locals>>
  /\ Park

MainWoken ==
  /\ main = "woken"
  /\ UNCHANGED <<created, shared, pc, locals>>
  /\ Park

SpuriousMain ==
  /\ main = "parked"
  /\ main' = "woken"
  /\ UNCHANGED <<created, shared, pc, locals>>

(***************************************************************************)
(* thread_execute(), thread_execute2()                                     *)
(***************************************************************************)
Execute(n) ==
  /\ main = "idle"
  /\ current_execute < MaxExec
  /\ current_job' = thread_count
  /\ job_count' = n
  /\ current_execute' = current_execute + 1
  /\ WakeAll
  /\ UNCHANGED <<created, thread_count, done, rets, locals>>
  /\ Park

(***************************************************************************)
(* ff_slice_thread_free()                                                  *)
(***************************************************************************)
\* Variant: done is set without a broadcast.
FreeWithoutBroadcast ==
  /\ main \in {"idle", "freeing"}
  /\ done' = TRUE
  /\ main' = "joining"
  /\ UNCHANGED <<created, thread_count, current_job, job_count, current_execute,
                 rets, pc, locals>>

Free ==
  /\ main \in {"idle", "freeing"}
  /\ done' = TRUE
  /\ WakeAll
  /\ main' = "joining"
  /\ UNCHANGED <<created, thread_count, current_job, job_count, current_execute,
                 rets, locals>>

\* All joins returned; the context is destroyed and freed.
Joined ==
  /\ main = "joining"
  /\ \A w \in 0 .. (thread_count - 1) : pc[w] = "exit"
  /\ main' = "freed"
  /\ UNCHANGED <<created, shared, pc, locals>>

Terminated == main = "freed" /\ UNCHANGED vars

-------------------------------------------------------------------------------
Worker(w) ==
  \/ WorkerEnter(w)
  \/ WorkerRegister(w)
  \/ RunJob(w)
  \/ CountJob(w)
  \/ Recheck(w)

Main ==
  \/ CreateWorker
  \/ CreateFails
  \/ InitPark
  \/ MainWoken
  \/ \E n \in JobCounts : Execute(n)
  \/ Free
  \/ Joined

Next ==
  \/ \E w \in Workers : Worker(w) \/ SpuriousWorker(w)
  \/ Main
  \/ SpuriousMain
  \/ Terminated

Spec == Init /\ [][Next]_vars

\* A thread that can step steps: the scheduler and the mutex are fair.  The
\* codec is not obliged to call execute() or to free the context.
Fairness ==
  /\ \A w \in Workers : WF_vars(Worker(w))
  /\ WF_vars(CreateWorker \/ CreateFails \/ InitPark)
  /\ WF_vars(MainWoken)
  /\ WF_vars(main = "freeing" /\ Free)
  /\ WF_vars(Joined)

FairSpec == Spec /\ Fairness

-------------------------------------------------------------------------------
(***************************************************************************)
(* Properties                                                              *)
(***************************************************************************)

\* Every variable has a value of its type.
TypeOK ==
  /\ main \in {"creating", "parked", "woken", "idle", "freeing", "joining", "freed"}
  /\ created \in 0 .. N
  /\ thread_count \in 0 .. N
  /\ current_job \in Nat
  /\ job_count \in Nat
  /\ current_execute \in Nat
  /\ done \in BOOLEAN
  /\ rets \in [AllJobs -> Nat]
  /\ pc \in [Workers -> {"none", "new", "enter", "run", "count", "wait", "woken", "exit"}]
  /\ our_job \in [Workers -> Nat]
  /\ last_execute \in [Workers -> Nat]
  /\ self_id \in [Workers -> Nat]
  /\ tcount \in [Workers -> Nat]

\* The threads that are executing a job (or have not counted it yet).
Busy == {w \in Workers : pc[w] \in {"run", "count"}}

\* When execute() has returned (main is idle) no thread is inside a job of that
\* call and every slot of the caller's ret[] was written by that very call,
\* although workers wake late, in any order, and one may still wake for a call
\* that is already over (thread_execute, thread_park_workers).
ExecuteIsABarrier ==
  main = "idle" =>
    /\ Busy = {}
    /\ \A j \in Jobs : rets[j] = current_execute

\* While main sleeps on last_job_cond the last job was not counted yet: the
\* signal that ends the wait is still to come, since only the worker that
\* brings current_job to thread_count + job_count sends it.
NoLostWakeup ==
  main = "parked" => current_job # thread_count + job_count

\* Once the context is freed every thread that was created has left worker():
\* nothing touches the mutex, the conditions or the context any more, on the
\* path through a failed pthread_create() as well.
NoUseAfterFree ==
  main = "freed" => \A w \in Workers : pc[w] \in {"none", "exit"}

\* No execute() call hangs: its caller always gets control back.
ExecuteReturns == main \in {"parked", "woken"} ~> main = "idle"

\* Freeing the context ends: every worker notices done, wherever it was.
FreeTerminates == main \in {"freeing", "joining"} ~> main = "freed"

-------------------------------------------------------------------------------
(***************************************************************************)
(* The inductive invariant behind the safety properties.                   *)
(***************************************************************************)
Registered == {w \in Workers : pc[w] \notin {"none", "new", "enter"}}
Open == main \in {"creating", "parked", "woken", "idle"}

\* The job of a worker's id waits for that worker; those above the number of
\* threads wait for the counter to reach them.
Todo ==
  {self_id[w] : w \in {v \in Workers : /\ last_execute[v] # current_execute
                                       /\ self_id[v] < job_count}}
  \cup {j \in Jobs : j >= current_job}

\* The jobs of the current call that are still to be counted.
Outstanding == Todo \cup {our_job[w] : w \in Busy}

InvThreads ==
  /\ \A w \in Workers : pc[w] = "none" <=> w >= created
  /\ Open => thread_count = N
  /\ done <=> main \in {"joining", "freed"}
  /\ main \in {"parked", "woken", "idle"} => created = N
  /\ main \in {"creating", "freeing"} => current_execute = 0
  /\ main = "creating" => Registered = {}
  /\ main = "idle" => Registered = Workers
  /\ current_execute = 0 => job_count = 0
  /\ current_execute # 0 => Registered = Workers /\ job_count \in JobCounts
  /\ main = "freed" => \A w \in Workers : pc[w] \in {"none", "exit"}
  /\ main \in {"joining", "freed"} => created = thread_count
  /\ main = "freeing" => created = thread_count

InvIds ==
  /\ current_execute = 0 => current_job = Cardinality(Registered)
  /\ current_execute # 0 => current_job >= N
  /\ \A w \in Registered : self_id[w] < current_job /\ self_id[w] < N
  /\ \A v, w \in Registered : self_id[v] = self_id[w] => v = w
  /\ \A k \in Workers : k < current_job => \E w \in Registered : self_id[w] = k
  /\ \A w \in Workers : pc[w] = "enter" => our_job[w] = 0
  /\ Open => \A w \in Workers : pc[w] \notin {"none", "new"} => tcount[w] = N

InvLoop ==
  /\ \A w \in Workers : last_execute[w] <= current_execute
  /\ \A w \in Workers : pc[w] = "wait" => ~done /\ last_execute[w] = current_execute
  /\ \A w \in Busy :
       /\ current_execute # 0
       /\ last_execute[w] = current_execute
       /\ our_job[w] < job_count
       /\ our_job[w] = self_id[w] \/ our_job[w] \in N .. (current_job - 1)
  /\ \A v, w \in Busy : our_job[v] = our_job[w] => v = w

InvCount ==
  /\ current_execute # 0 => Cardinality(Outstanding) = N + job_count - current_job
  /\ main \notin {"parked", "woken"} /\ current_execute # 0 =>
       current_job = N + job_count
  /\ main = "parked" => current_job # N + job_count
  /\ \A j \in Jobs : j \in Outstanding \/ rets[j] = current_execute
  /\ \A w \in Workers : pc[w] = "count" => rets[our_job[w]] = current_execute

\* Outstanding loses one job with every increment of current_job, so the counter
\* reaches N + job_count exactly when the last job was counted.
IInv == TypeOK /\ InvThreads /\ InvIds /\ InvLoop /\ InvCount

-------------------------------------------------------------------------------
(***************************************************************************)
(* The abstract parallel loop this implements.                             *)
(***************************************************************************)
Starting == main = "creating" \/ (main \in {"parked", "woken"} /\ current_execute = 0)

PhaseBar ==
  CASE Starting -> "starting"
    [] main = "idle" -> "idle"
    [] main \in {"freeing", "joining", "freed"} -> "closed"
    [] OTHER -> "running"

ActiveBar == {our_job[w] : w \in {v \in Workers : pc[v] = "run"}}

Abstract == INSTANCE ParallelFor
              WITH phase <- PhaseBar, todo <- Todo, active <- ActiveBar

\* Every job of a call is run exactly once by one thread and the call returns
\* only after the last: the pool implements ParallelFor.
ImplementsParallelFor == Abstract!Spec
===============================================================================
