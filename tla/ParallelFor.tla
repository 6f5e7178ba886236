------------------------------ MODULE ParallelFor ------------------------------
(***************************************************************************)
(* What AVCodecContext.execute() promises to a codec: a call that is given *)
(* job_count jobs runs each of them exactly once, on whichever thread, and *)
(* does not return before the last of them has returned.  One call is      *)
(* under way at a time, and none after the context was closed.             *)
(*                                                                         *)
(* SliceThreads (libavcodec/pthread_slice.c) implements this.              *)
(***************************************************************************)
EXTENDS Integers

CONSTANT JobCounts      \* the job counts a caller may ask for

VARIABLES
  phase,    \* "starting", "idle", "running" or "closed"
  todo,     \* the jobs of the current call that were not started
  active    \* the jobs whose function is being executed

vars == <<phase, todo, active>>

Init ==
  /\ phase = "starting"
  /\ todo = {}
  /\ active = {}

Ready ==
  /\ phase = "starting"
  /\ phase' = "idle"
  /\ UNCHANGED <<todo, active>>

Begin(n) ==
  /\ phase = "idle"
  /\ phase' = "running"
  /\ todo' = 0 .. (n - 1)
  /\ UNCHANGED active

Start(j) ==
  /\ phase = "running"
  /\ j \in todo
  /\ todo' = todo \ {j}
  /\ active' = active \cup {j}
  /\ UNCHANGED phase

Finish(j) ==
  /\ j \in active
  /\ active' = active \ {j}
  /\ UNCHANGED <<phase, todo>>

Return ==
  /\ phase = "running"
  /\ todo = {}
  /\ active = {}
  /\ phase' = "idle"
  /\ UNCHANGED <<todo, active>>

Close ==
  /\ phase \in {"starting", "idle"}
  /\ phase' = "closed"
  /\ UNCHANGED <<todo, active>>

Next ==
  \/ Ready
  \/ \E n \in JobCounts : Begin(n)
  \/ \E j \in todo : Start(j)
  \/ \E j \in active : Finish(j)
  \/ Return
  \/ Close

Spec == Init /\ [][Next]_vars
================================================================================
