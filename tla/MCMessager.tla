----------------------------- MODULE MCMessager -----------------------------
EXTENDS Messager

CONSTANTS n1, n2, s1, s2, t1, t2, m1, m2

\* One socket per node; the second has two patterns for the room.
MCNodeOf == [s \in Sockets |-> IF s = s1 THEN n1 ELSE n2]
MCPats == [s \in Sockets |-> IF s = s1 THEN {"exact"} ELSE {"exact", "star"}]
MCMatching == [m \in Msgs |-> {"exact", "star"}]
MCTopicOf == [m \in Msgs |-> IF m = m2 THEN t2 ELSE t1]
\* m1 goes from n1 to every node, m2 from n2 to n1 alone.
MCNodeFrom == [m \in Msgs |-> IF m = m2 THEN n2 ELSE n1]
MCNodeTo == [m \in Msgs |-> IF m = m2 THEN n1 ELSE AnyNode]
=============================================================================
