--------------------------- MODULE MCPartRegistry ---------------------------
EXTENDS PartRegistry

CONSTANTS p1, p2, b1, b2, edit, delete, reload

\* A deletion and two builds of p1, an edit of p2, a reload.
MCWhat == [c \in Command |-> IF c = edit THEN "edit" ELSE IF c = delete THEN "delete" ELSE "reload"]
MCTarget == [c \in Command |-> IF c = edit THEN p2 ELSE p1]
MCOf == [b \in Build |-> p1]
=============================================================================
