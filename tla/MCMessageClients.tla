--------------------------- MODULE MCMessageClients ---------------------------
\* Two senders and two receivers on a queue of two places: as many places as threads
\* on each side, the smallest queue that needs no luck.
EXTENDS MessageClients, TLC

CONSTANTS s1, s2, r1, r2

MCSenders == {s1, s2}
MCReceivers == {r1, r2}
===============================================================================
