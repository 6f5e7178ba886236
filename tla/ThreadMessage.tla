----------------------------- MODULE ThreadMessage -----------------------------
(***************************************************************************)
(* AVThreadMessageQueue (libavutil/threadmessage.c): a bounded FIFO under  *)
(* one mutex and ONE condition variable, on which blocked senders and      *)
(* blocked receivers sleep together, with an error code for each side.     *)
(*                                                                         *)
(* A call holds the mutex from its first statement to its return or to     *)
(* cond_wait, so one step is one pass through the loop of send_locked() or *)
(* recv_locked(); ret is what the pass ends with.  A thread that sleeps is *)
(* in asleep and, once out of it, makes the next pass.  The modules that   *)
(* extend this one say who calls what.                                     *)
(***************************************************************************)
EXTENDS Naturals, Sequences

CONSTANT NELEM      \* capacity given to av_thread_message_queue_alloc()

ASSUME NelemAssumption == NELEM \in Nat \ {0}

VARIABLES
  fifo,             \* the messages, oldest first
  err_send,         \* the two error codes; "none" is 0
  err_recv,
  asleep            \* the threads inside pthread_cond_wait(&mq->cond)

queue == <<fifo, err_send, err_recv, asleep>>

QueueInit ==
  /\ fifo = <<>>
  /\ err_send = "none"
  /\ err_recv = "none"
  /\ asleep = {}

\* Variant: the signal is left out.
NoSignal == UNCHANGED asleep

\* pthread_cond_signal(): one sleeper wakes, of either kind.
Signal ==
  IF asleep = {} THEN UNCHANGED asleep
                 ELSE \E t \in asleep : asleep' = asleep \ {t}

\* A wait may also end by itself.
Spurious(t) ==
  /\ t \in asleep
  /\ asleep' = asleep \ {t}
  /\ UNCHANGED <<fifo, err_send, err_recv>>

\* The loop conditions: the call cannot go on.
SendMustWait == err_send = "none" /\ Len(fifo) >= NELEM
RecvMustWait == err_recv = "none" /\ fifo = <<>>

Wait(t, nonblock, ret) ==
  \/ nonblock /\ ret = "EAGAIN" /\ UNCHANGED queue
  \/ ~nonblock /\ ret = "sleep" /\ asleep' = asleep \cup {t}
     /\ UNCHANGED <<fifo, err_send, err_recv>>

Send(t, m, nonblock, ret) ==
  /\ t \notin asleep
  /\ \/ /\ SendMustWait
        /\ Wait(t, nonblock, ret)
     \/ /\ ~SendMustWait
        /\ err_send # "none"
        /\ ret = err_send
        /\ UNCHANGED queue
     \/ /\ ~SendMustWait
        /\ err_send = "none"
        /\ ret = "ok"
        /\ fifo' = Append(fifo, m)
        /\ Signal
        /\ UNCHANGED <<err_send, err_recv>>

\* Variant: a pending error wins over the messages that are left.
RecvErrorFirst(t, nonblock, ret) ==
  /\ t \notin asleep
  /\ \/ /\ RecvMustWait
        /\ Wait(t, nonblock, ret)
     \/ /\ err_recv # "none"
        /\ ret = err_recv
        /\ UNCHANGED queue
     \/ /\ err_recv = "none"
        /\ fifo # <<>>
        /\ ret = "ok"
        /\ fifo' = Tail(fifo)
        /\ Signal
        /\ UNCHANGED <<err_send, err_recv>>

Recv(t, nonblock, ret) ==
  /\ t \notin asleep
  /\ \/ /\ RecvMustWait
        /\ Wait(t, nonblock, ret)
     \/ /\ ~RecvMustWait
        /\ fifo = <<>>
        /\ ret = err_recv
        /\ UNCHANGED queue
     \/ /\ fifo # <<>>
        /\ ret = "ok"
        /\ fifo' = Tail(fifo)
        /\ Signal
        /\ UNCHANGED <<err_send, err_recv>>

SetErrSend(err) ==
  /\ err_send' = err
  /\ asleep' = {}
  /\ UNCHANGED <<fifo, err_recv>>

SetErrRecvQuietly(err) ==
  /\ err_recv' = err
  /\ UNCHANGED <<fifo, err_send, asleep>>

SetErrRecv(err) ==
  /\ err_recv' = err
  /\ asleep' = {}
  /\ UNCHANGED <<fifo, err_send>>
================================================================================
