---------------------------- MODULE MCRecording ----------------------------
(* The instance of module Recording that TLC checks. *)
EXTENDS Recording

CONSTANTS a, b, f, g

\* The first track has two forwarders, the second only the recorder.
MCForwarders == [t \in {a, b} |-> IF t = a THEN {f, g} ELSE {}]
=============================================================================
