---------------------------- MODULE MCJobService ----------------------------
EXTENDS JobService

CONSTANTS j1, j2

\* j2 is background work (a project build), j1 a selected part build.
MCPriority == [j \in Job |-> IF j = j1 THEN 0 ELSE 20]

Symmetry == Permutations(Thread) \cup Permutations(Proc)
=============================================================================
