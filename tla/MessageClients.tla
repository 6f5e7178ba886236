---------------------------- MODULE MessageClients ----------------------------
(***************************************************************************)
(* Several threads on one AVThreadMessageQueue: every sender sends its     *)
(* messages one after the other and every receiver receives until it gets  *)
(* an error; when the senders have finished the receiving side is given    *)
(* EOF.  A receiver may stop calling; at any moment the sending side may   *)
(* be given EOF, which makes the senders give up, and it is when no        *)
(* receiver is left.  The calls block (flags 0).                           *)
(*                                                                         *)
(* The queue has one condition variable and wakes one sleeper per message: *)
(* a wakeup meant for a receiver may go to a sender and the other way      *)
(* round.  With no more threads on either side than the queue has places   *)
(* that cannot leave everyone asleep; ffmpeg's use, one thread on each     *)
(* side, is inside that.                                                   *)
(***************************************************************************)
EXTENDS ThreadMessage, FiniteSets

CONSTANTS Senders, Receivers, Count     \* Count messages per sender

ASSUME ClientsAssumption ==
  /\ Senders \cap Receivers = {}
  /\ Count \in Nat
  /\ IsFiniteSet(Senders \cup Receivers)

\* A bound on the number of threads alone is not enough: with three places, two
\* senders and four receivers can all fall asleep.
ASSUME RoomAssumption ==
  Cardinality(Senders) <= NELEM /\ Cardinality(Receivers) <= NELEM

Threads == Senders \cup Receivers

VARIABLES
  pc,         \* "call" (inside the next send or recv), "done" or "left"
  sent,       \* the number of messages each sender got through
  received    \* the messages the receivers got, in the order they got them

clientsVars == <<queue, pc, sent, received>>

ClientsInit ==
  /\ QueueInit
  /\ pc = [t \in Threads |-> "call"]
  /\ sent = [s \in Senders |-> 0]
  /\ received = <<>>

Finish(t) == pc' = [pc EXCEPT ![t] = "done"]

\* A sender's next pass through av_thread_message_queue_send().
SendStep(s) ==
  /\ pc[s] = "call"
  /\ UNCHANGED received
  /\ \/ sent[s] = Count /\ Finish(s) /\ UNCHANGED <<queue, sent>>
     \/ /\ sent[s] < Count
        /\ \E ret \in {"ok", "sleep", "EOF"} :
             /\ Send(s, <<s, sent[s] + 1>>, FALSE, ret)
             /\ IF ret = "ok" THEN sent' = [sent EXCEPT ![s] = @ + 1] ELSE UNCHANGED sent
             /\ IF ret = "EOF" THEN Finish(s) ELSE UNCHANGED pc

\* A receiver's next pass; after a message it may call no more.
RecvStep(r) ==
  /\ pc[r] = "call"
  /\ UNCHANGED sent
  /\ \E ret \in {"ok", "sleep", "EOF"} :
       /\ Recv(r, FALSE, ret)
       /\ IF ret = "ok" THEN received' = Append(received, Head(fifo)) ELSE UNCHANGED received
       /\ \/ ret = "EOF" /\ Finish(r)
          \/ ret # "EOF" /\ UNCHANGED pc
          \/ ret = "ok" /\ pc' = [pc EXCEPT ![r] = "left"]

EndOfStream ==
  /\ err_recv = "none"
  /\ \A s \in Senders : pc[s] = "done"
  /\ SetErrRecv("EOF")
  /\ UNCHANGED <<pc, sent, received>>

Abort ==
  /\ err_send = "none"
  /\ SetErrSend("EOF")
  /\ UNCHANGED <<pc, sent, received>>

AllDone == \A t \in Threads : pc[t] # "call"
AllLeft == \A r \in Receivers : pc[r] = "left"

ClientsNext ==
  \/ \E s \in Senders : SendStep(s)
  \/ \E r \in Receivers : RecvStep(r)
  \/ EndOfStream
  \/ Abort
  \/ \E t \in Threads : Spurious(t) /\ UNCHANGED <<pc, sent, received>>
  \/ AllDone /\ UNCHANGED clientsVars

ClientsSpec == ClientsInit /\ [][ClientsNext]_clientsVars

\* The mutex and the scheduler are fair to every thread; somebody aborts when the
\* last receiver is gone, as free_input_threads() does.
ClientsFairSpec ==
  /\ ClientsSpec
  /\ \A s \in Senders : WF_clientsVars(SendStep(s))
  /\ \A r \in Receivers : WF_clientsVars(RecvStep(r))
  /\ WF_clientsVars(EndOfStream)
  /\ WF_clientsVars(AllLeft /\ Abort)

-------------------------------------------------------------------------------
(***************************************************************************)
(* Properties                                                              *)
(***************************************************************************)
Messages == Senders \X (1 .. Count)

ClientsTypeOK ==
  /\ fifo \in Seq(Messages) /\ Len(fifo) <= NELEM
  /\ err_send \in {"none", "EOF"}
  /\ err_recv \in {"none", "EOF"}
  /\ asleep \subseteq Threads
  /\ pc \in [Threads -> {"call", "done", "left"}]
  /\ sent \in [Senders -> 0 .. Count]
  /\ received \in Seq(Messages)

\* The signal that a message or a free place causes is never wasted for good:
\* as long as some thread has not finished, one that can make a pass is awake
\* (or an EOF that wakes all is due).
SomebodyIsAwake ==
  \/ AllDone
  \/ AllLeft
  \/ \E t \in Threads : pc[t] = "call" /\ t \notin asleep
  \/ \A s \in Senders : pc[s] = "done"

\* A thread sleeps inside a call that has nothing to return yet; the senders sleep
\* or the receivers do, never both, and no more of them than there are messages to
\* take, or places to fill, that will wake them.
InvSleepers ==
  /\ \A t \in asleep : pc[t] = "call"
  /\ \A s \in Senders \cap asleep : sent[s] < Count
  /\ asleep \cap Senders # {} =>
       /\ err_send = "none"
       /\ asleep \subseteq Senders
       /\ Cardinality(asleep) <= Len(fifo)
  /\ asleep \cap Receivers # {} =>
       /\ err_recv = "none"
       /\ asleep \subseteq Receivers
       /\ Cardinality(asleep) <= NELEM - Len(fifo)

\* The receivers get the EOF last: the senders have finished and the queue is empty.
ClientsEnd ==
  /\ \A s \in Senders : pc[s] # "left"
  /\ err_recv # "none" => \A s \in Senders : pc[s] = "done"
  /\ (\E r \in Receivers : pc[r] = "done") => err_recv # "none" /\ fifo = <<>>

\* p holds the first n[s] messages of every sender s, each once and in their order.
InOrder(p, n) ==
  /\ \A s \in Senders : \A k \in 1 .. n[s] : \E i \in DOMAIN p : p[i] = <<s, k>>
  /\ \A i \in DOMAIN p : p[i][2] <= n[p[i][1]]
  /\ \A i, j \in DOMAIN p : i < j /\ p[i][1] = p[j][1] => p[i][2] < p[j][2]

\* The messages received and those on their way are all that were sent.
InvPassed == InOrder(received \o fifo, sent)

\* The queue and its clients as a whole, as an inductive invariant: the variables
\* keep their types, and the above.
QueueInv ==
  ClientsTypeOK /\ SomebodyIsAwake /\ InvSleepers /\ ClientsEnd /\ InvPassed

\* What was sent is received, once and in the order of each sender, before the
\* receivers see the end: nothing is left behind in the queue, also when the
\* senders were stopped half way (recv_locked returns the error last).
NothingLostAtTheEnd == (\E r \in Receivers : pc[r] = "done") => InOrder(received, sent)

\* All messages go through and every thread gets to the end.
EveryoneFinishes == <>AllDone
===============================================================================
