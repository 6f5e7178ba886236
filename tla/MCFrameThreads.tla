---------------------------- MODULE MCFrameThreads ----------------------------
\* Two threads, with the kinds of codec and client that differ in the protocol.
EXTENDS FrameThreads

Kind(u, f, d, c, v) == [update |-> u, fallible |-> f, cap_delay |-> d, callbacks |-> c, ffv1 |-> v]

AllKinds ==
  {Kind(TRUE, TRUE, TRUE, TRUE, FALSE), Kind(TRUE, FALSE, FALSE, FALSE, FALSE),
   Kind(FALSE, FALSE, TRUE, FALSE, TRUE), Kind(FALSE, FALSE, FALSE, TRUE, FALSE)}

\* Codecs with a context to pass on, with and without AV_CODEC_CAP_DELAY.
RefKinds == {Kind(TRUE, FALSE, d, FALSE, FALSE) : d \in BOOLEAN}
===============================================================================
