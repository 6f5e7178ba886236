----------------------------- MODULE MCBufferPool -----------------------------
\* Three threads, three references to three blocks, and two pools, so that one can be
\* replaced while buffers of the other are in use.
EXTENDS BufferPool, TLC

CONSTANTS t1, t2, t3, r1, r2, r3, d1, d2, d3, p1, p2

MCThreads == {t1, t2, t3}
MCRefs == {r1, r2, r3}
MCBlocks == {d1, d2, d3}
MCPools == {p1, p2}

Symmetry == Permutations(MCThreads) \cup Permutations(MCRefs) \cup Permutations(MCBlocks)
            \cup Permutations(MCPools)
===============================================================================
