---------------------------- MODULE MCMembership ----------------------------
EXTENDS Membership

CONSTANTS a, b, n1, n2, r1

\* b is on a node of its own.
TwoNodes == [s \in Sockets |-> IF s = b THEN n2 ELSE n1]
AllRights == [s \in Sockets |-> Rooms]
PlainR1 == [s \in Sockets |-> IF s = a THEN {r1} ELSE {}]
=============================================================================
