----------------------------- MODULE MCWsSignal -----------------------------
EXTENDS WsSignal

CONSTANTS s1, c1, c2

MCEndOf == [c \in Calls |-> IF c = s1 THEN "server" ELSE "client"]
=============================================================================
