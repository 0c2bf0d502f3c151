-------------------------- MODULE OrderedDelivery --------------------------
(***************************************************************************)
(* What a node may expect of a Kafka partition (signal/kafka.go): each     *)
(* record that was produced gets to the worker of its topic, for the first *)
(* time in the order of the log, and none is passed over.  A record may    *)
(* get there again, which is a stuttering step here.                       *)
(***************************************************************************)
EXTENDS Integers

VARIABLES
  produced,  \* records in the partition
  handled    \* offsets, from 1, the worker has seen

Init == produced = 0 /\ handled = {}

Produce == produced' = produced + 1 /\ UNCHANGED handled

Handle ==
  \E o \in 1..produced :
    /\ o \notin handled /\ 1..(o - 1) \subseteq handled
    /\ handled' = handled \cup {o}
    /\ UNCHANGED produced

Next == Produce \/ Handle

Spec == Init /\ [][Next]_<<produced, handled>> /\ WF_<<produced, handled>>(Handle)
=============================================================================
