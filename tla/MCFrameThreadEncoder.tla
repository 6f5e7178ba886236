------------------------- MODULE MCFrameThreadEncoder -------------------------
\* The bounds are in the configurations.
EXTENDS FrameThreadEncoder
===============================================================================
