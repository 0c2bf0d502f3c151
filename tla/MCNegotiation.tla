---------------------------- MODULE MCNegotiation ----------------------------
(***************************************************************************)
(* The instance of Negotiation for TLC: one publish and one subscribe.     *)
(***************************************************************************)
EXTENDS Negotiation

CONSTANTS p1, s1

MCWalk == <<p1>>

=============================================================================
