--------------------------- MODULE MCPendingLists ---------------------------
\* PendingLists on two names: an entry and its tombstone.
EXTENDS PendingLists

Vector(a, b) == [d \in Devices |-> IF d = 1 THEN a ELSE IF d = 2 THEN b ELSE 0]
File(v, c) == [ver |-> v, del |-> FALSE, time |-> c, content |-> c, size |-> c]
MCRows == {File(Vector(1, 0), 1), Tombstone(Vector(1, 1))}
=============================================================================
