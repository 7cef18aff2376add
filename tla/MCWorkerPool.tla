---------------------------- MODULE MCWorkerPool ----------------------------
EXTENDS WorkerPool

CONSTANTS p1, p2, c1, c2, c3

\* Two builds of p1, the second one more urgent, and a scene of p2.
MCHome == [c \in Call |-> IF c = c3 THEN p2 ELSE p1]
MCPriority == [c \in Call |-> IF c = c2 THEN 0 ELSE 10]
MCPrepares == {c1, c2}
=============================================================================
