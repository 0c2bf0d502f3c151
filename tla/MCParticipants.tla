--------------------------- MODULE MCParticipants ---------------------------
EXTENDS Participants

CONSTANTS r1, r2, k1, u1, w1

\* Every socket is of the awaited user.
MCUidOf == [k \in Keys |-> u1]
MCWaitRoom == [w \in Waiters |-> r1]
MCWaitUid == [w \in Waiters |-> u1]
=============================================================================
