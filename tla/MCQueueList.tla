---------------------------- MODULE MCQueueList ---------------------------
\* A heap with one cell more than the queue has places: a leak, a node linked
\* twice and an insertion too many would all show.
EXTENDS QueueList, TLC

CONSTANTS c1, c2, c3, c4

===========================================================================
