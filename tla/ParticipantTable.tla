-------------------------- MODULE ParticipantTable --------------------------
(***************************************************************************)
(* The table of participants one client keeps for one room: the type       *)
(* Participants of client/websocket.go with its methods Add, Remove and    *)
(* Clean, as operators on a value.                                         *)
(*                                                                         *)
(* A table is a record:                                                    *)
(*   participants   the join id under which a key is listed, None if it is *)
(*                  not listed;                                            *)
(*   leaves         the join id of the key's tombstone (LeavedInfo.jid),   *)
(*                  None if it has none;                                   *)
(*   aged           the keys whose tombstone's timestamp is more than a    *)
(*                  minute old.                                            *)
(* A key is the pair (user id, socket id).  Join ids are the server's      *)
(* uint32 counters, which start at 1, so that 0 can stand for "absent".    *)
(***************************************************************************)
EXTENDS Integers

CONSTANT Keys

None == 0

EmptyTable ==
  [participants |-> [k \in Keys |-> None],
   leaves       |-> [k \in Keys |-> None],
   aged         |-> {}]

TableType(ids) ==
  [participants : [Keys -> ids \cup {None}],
   leaves       : [Keys -> ids \cup {None}],
   aged         : SUBSET Keys]

Listed(t, k) == t.participants[k] # None

(***************************************************************************)
(* A join or a leave with an id no greater than the tombstone's is stale.  *)
(***************************************************************************)
Stale(t, k, j) == t.leaves[k] # None /\ j <= t.leaves[k]

(***************************************************************************)
(* The result of Add: whether the participant was stored.                  *)
(***************************************************************************)
Added(t, k, j) ==
  /\ ~Stale(t, k, j)
  /\ Listed(t, k) => j > t.participants[k]

DropTombstone(t, k) ==
  [participants |-> t.participants,
   leaves       |-> [t.leaves EXCEPT ![k] = None],
   aged         |-> t.aged \ {k}]

Store(t, k, j) ==
  [participants |-> [t.participants EXCEPT ![k] = j],
   leaves       |-> t.leaves,
   aged         |-> t.aged]

\* Mutant: Add leaves out the comparison with the tombstone.
AddIgnoringTombstone(t, k, j) ==
  IF Listed(t, k) => j > t.participants[k]
    THEN Store(DropTombstone(t, k), k, j)
    ELSE DropTombstone(t, k)

Add(t, k, j) ==
  IF Stale(t, k, j)
    THEN t
    ELSE IF Added(t, k, j)
           THEN Store(DropTombstone(t, k), k, j)
           ELSE DropTombstone(t, k)

Unlist(t, k, j) ==
  IF Listed(t, k) /\ j >= t.participants[k]
    THEN Store(t, k, None)
    ELSE t

Bury(t, k, j) ==
  [participants |-> t.participants,
   leaves       |-> [t.leaves EXCEPT ![k] = j],
   aged         |-> t.aged \ {k}]

\* Mutant: Remove records a tombstone only for a participant it lists.
RemoveListedOnly(t, k, j) ==
  IF Stale(t, k, j) \/ ~Listed(t, k) THEN t ELSE Unlist(Bury(t, k, j), k, j)

Remove(t, k, j) ==
  IF Stale(t, k, j) THEN t ELSE Unlist(Bury(t, k, j), k, j)

Clean(t) ==
  [participants |-> t.participants,
   leaves       |-> [k \in Keys |-> IF k \in t.aged THEN None ELSE t.leaves[k]],
   aged         |-> {}]

(***************************************************************************)
(* External: the wall clock.  A minute has passed since the timestamp of   *)
(* k's tombstone.                                                          *)
(***************************************************************************)
Age(t, k) ==
  [participants |-> t.participants, leaves |-> t.leaves, aged |-> t.aged \cup {k}]
=============================================================================
