--------------------------- MODULE MCChatDispatch ---------------------------
EXTENDS ChatDispatch, TLC

CONSTANTS t1, t2, t3

\* The first process finds one turn; t1 and t2 share a chat thread.
MCBacklog == <<t1>>
MCThreadOf == [t \in Turn |-> IF t = t3 THEN 2 ELSE 1]
Interchangeable == Permutations(Caller) \cup Permutations(Worker)
=============================================================================
