------------------------------- MODULE ByteFile --------------------------------
(***************************************************************************)
(* What the caller of a seekable byte stream is promised: a read returns   *)
(* the bytes from the position on, the end is reported only at the end, a  *)
(* seek moves the position to its target and says where it is.  A byte is  *)
(* its offset in the file.  Once the stream is broken (an I/O error or an  *)
(* interrupt has occurred) calls may fail, and a seek may stop on its way. *)
(***************************************************************************)
EXTENDS Integers

CONSTANT Size

VARIABLES
  call,     \* the call in progress: <<"none">>, <<"read", n>>, <<"seek", p>>, ...
  pos,      \* the position
  result,   \* what the last call returned
  broken    \* an I/O error or an interrupt has occurred

\* Of seeks; far beyond the end is as good as a little beyond.
Targets == 0 .. (Size + 2)

vars == <<call, pos, result, broken>>

Init == call = <<"none">> /\ pos = 0 /\ result = <<"none">> /\ broken = FALSE

Begin ==
  /\ call = <<"none">>
  /\ \/ \E p \in Targets : call' = <<"seek", p>>
     \/ \E n \in 1 .. Size : call' = <<"read", n>>
     \/ call' = <<"close">>
  /\ result' = <<"none">>
  /\ UNCHANGED <<pos, broken>>

Read ==
  /\ call[1] = "read"
  /\ \/ \E k \in 1 .. call[2] :
          /\ pos + k <= Size
          /\ pos' = pos + k
          /\ result' = <<"data", [i \in 1 .. k |-> pos + i - 1]>>
     \/ pos = Size /\ result' = <<"eof">> /\ UNCHANGED pos
     \/ broken /\ result' = <<"error">> /\ UNCHANGED pos

Seek ==
  /\ call[1] = "seek"
  /\ \/ /\ call[2] <= Size
        /\ pos' = call[2]
        /\ result' = <<"at", pos'>>
     \/ /\ call[2] > Size                      \* refused, or stops at the end
        /\ \/ pos' = Size /\ result' = <<"at", pos'>>
           \/ result' = <<"error">> /\ UNCHANGED pos
     \/ /\ broken
        /\ \/ pos' \in pos .. call[2] /\ result' = <<"at", pos'>>
           \/ result' = <<"error">> /\ UNCHANGED pos

Break == broken' = TRUE /\ UNCHANGED <<call, pos, result>>

Next ==
  \/ Begin
  \/ (Read \/ Seek) /\ call' = <<"none">> /\ UNCHANGED broken
  \/ Break

Spec == Init /\ [][Next]_vars
================================================================================
