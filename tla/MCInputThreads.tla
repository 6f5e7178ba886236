---------------------------- MODULE MCInputThreads ----------------------------
\* The bounds are in the configuration: four packets on a queue of two, read twice; the
\* allocation of the fifo succeeds, as the NULL queue it leaves otherwise crashes the
\* reader.
EXTENDS InputThreads
===============================================================================
