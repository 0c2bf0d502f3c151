---------------------------- MODULE Participants ----------------------------
(***************************************************************************)
(* The participants box of a Go client (client/websocket.go): the tables   *)
(* of all rooms under box.mux, the join and leave notifications that       *)
(* change them, the periodic cleaning of tombstones, and the callers of    *)
(* WaitParticipant.                                                        *)
(*                                                                         *)
(* The server dispatches every cluster message in a goroutine of its own   *)
(* and Kafka may deliver a record again, so notifications reach the box    *)
(* in any order and more than once: Join and Leave are enabled for every   *)
(* join id.  The one thing the box relies on is in NotOverdue.             *)
(***************************************************************************)
EXTENDS ParticipantTable, FiniteSets

CONSTANTS
  Rooms,        \* rooms the client has joined
  Users,        \* user ids
  uidOf,        \* the user id of a key
  JoinIds,      \* join ids that occur in notifications
  CleanPeriod,  \* the box is cleaned on every CleanPeriod-th leave (10)
  Waiters,      \* goroutines that call WaitParticipant
  waitRoom,     \* the room a waiter asks about
  waitUid       \* the user a waiter waits for

ASSUME UidAssumption == uidOf \in [Keys -> Users]
ASSUME JoinIdsAssumption == JoinIds \subseteq Nat \ {0}
ASSUME CleanPeriodAssumption == CleanPeriod \in Nat \ {0}
ASSUME WaitersAssumption ==
  /\ waitRoom \in [Waiters -> Rooms]
  /\ waitUid \in [Waiters -> Users]

VARIABLES
  box,        \* box.participants: a room without entry is an empty table
  iter,       \* box.iter modulo CleanPeriod
  pc,         \* where each WaitParticipant call is
  joinCbs,    \* waiters whose callback is in box.join_chs
  closed,     \* waiters whose channel has been closed
  seenJoin,   \* history: greatest join id announced, per room and key
  seenLeave,  \* history: greatest join id said to have left
  lapsed      \* history: greatest tombstone that has grown old

waitVars == <<pc, joinCbs, closed>>
history  == <<seenJoin, seenLeave, lapsed>>
vars     == <<box, iter, pc, joinCbs, closed, seenJoin, seenLeave, lapsed>>

IdTable == [Rooms -> [Keys -> JoinIds \cup {None}]]

\* The tables of the box and the state of the WaitParticipant calls are well
\* formed.
TypeOK ==
  /\ box \in [Rooms -> TableType(JoinIds)]
  /\ iter \in 0 .. CleanPeriod - 1
  /\ pc \in [Waiters -> {"idle", "registered", "waiting", "looking"}]
  /\ joinCbs \subseteq Waiters
  /\ closed \subseteq Waiters
  /\ seenJoin \in IdTable /\ seenLeave \in IdTable /\ lapsed \in IdTable

Nothing == [r \in Rooms |-> [k \in Keys |-> None]]

Init ==
  /\ box = [r \in Rooms |-> EmptyTable]
  /\ iter = 0
  /\ pc = [w \in Waiters |-> "idle"]
  /\ joinCbs = {} /\ closed = {}
  /\ seenJoin = Nothing /\ seenLeave = Nothing /\ lapsed = Nothing
-----------------------------------------------------------------------------
larger(a, b) == IF a >= b THEN a ELSE b

Raise(f, r, k, j) == [f EXCEPT ![r][k] = larger(@, j)]

(***************************************************************************)
(* External: a notification about join id j was sent before the leave of   *)
(* any id >= j, and is delivered within a minute of it.  So it never       *)
(* arrives after a tombstone >= j has become old enough to be cleaned.     *)
(***************************************************************************)
NotOverdue(r, k, j) == j > lapsed[r][k]

\* Mutant: the callback's test of the user id is inverted.
FiredForOthers(r, k) == {w \in joinCbs : waitRoom[w] = r /\ waitUid[w] # uidOf[k]}

(***************************************************************************)
(* The waiters whose callback a join of key k in room r fires: each closes *)
(* its channel and returns false, which deletes the callback.              *)
(***************************************************************************)
Fired(r, k) == {w \in joinCbs : waitRoom[w] = r /\ waitUid[w] = uidOf[k]}

(***************************************************************************)
(* ProcessJoinCbs: a "participant-join" notification.                      *)
(***************************************************************************)
ProcessJoinCbs(r, k, j) ==
  /\ NotOverdue(r, k, j)
  /\ box' = [box EXCEPT ![r] = Add(@, k, j)]
  /\ IF Added(box[r], k, j)
       THEN /\ closed' = closed \cup Fired(r, k)
            /\ joinCbs' = joinCbs \ Fired(r, k)
       ELSE UNCHANGED <<closed, joinCbs>>
  /\ seenJoin' = Raise(seenJoin, r, k, j)
  /\ UNCHANGED <<iter, pc, seenLeave, lapsed>>

(***************************************************************************)
(* box.clean(): every CleanPeriod-th leave cleans the tables of all rooms. *)
(***************************************************************************)
CleanBox(b) ==
  IF (iter + 1) % CleanPeriod = 0 THEN [r \in Rooms |-> Clean(b[r])] ELSE b

(***************************************************************************)
(* ProcessLeaveCbs: a "participant-leave" notification.                    *)
(***************************************************************************)
ProcessLeaveCbs(r, k, j) ==
  /\ box' = CleanBox([box EXCEPT ![r] = Remove(@, k, j)])
  /\ iter' = (iter + 1) % CleanPeriod
  /\ seenLeave' = Raise(seenLeave, r, k, j)
  /\ UNCHANGED <<pc, joinCbs, closed, seenJoin, lapsed>>

(***************************************************************************)
(* External: time passes, the tombstone of k in room r becomes a minute    *)
(* old.                                                                    *)
(***************************************************************************)
GrowOld(r, k) ==
  /\ box[r].leaves[k] # None
  /\ k \notin box[r].aged
  /\ box' = [box EXCEPT ![r] = Age(@, k)]
  /\ lapsed' = Raise(lapsed, r, k, box[r].leaves[k])
  /\ UNCHANGED <<iter, pc, joinCbs, closed, seenJoin, seenLeave>>
-----------------------------------------------------------------------------
(***************************************************************************)
(* WaitParticipant: register a join callback, look the user up, wait for   *)
(* the callback or the caller's context, look the user up again, and       *)
(* remove the callback (deferred).                                         *)
(***************************************************************************)
Present(w) ==
  \E k \in Keys : uidOf[k] = waitUid[w] /\ Listed(box[waitRoom[w]], k)

Register(w) ==
  /\ pc[w] = "idle"
  /\ pc' = [pc EXCEPT ![w] = "registered"]
  /\ joinCbs' = joinCbs \cup {w}
  /\ closed' = closed \ {w}
  /\ UNCHANGED <<box, iter, history>>

Return(w) ==
  /\ pc' = [pc EXCEPT ![w] = "idle"]
  /\ joinCbs' = joinCbs \ {w}
  /\ UNCHANGED <<box, iter, closed, history>>

\* Mutant: the deferred removal of the callback runs before the wait.
FirstLookUnregistering(w) ==
  /\ pc[w] = "registered"
  /\ IF Present(w)
       THEN Return(w)
       ELSE /\ pc' = [pc EXCEPT ![w] = "waiting"]
            /\ joinCbs' = joinCbs \ {w}
            /\ UNCHANGED <<box, iter, closed, history>>

FirstLook(w) ==
  /\ pc[w] = "registered"
  /\ IF Present(w)
       THEN Return(w)
       ELSE /\ pc' = [pc EXCEPT ![w] = "waiting"]
            /\ UNCHANGED <<box, iter, joinCbs, closed, history>>

Wake(w) ==
  /\ pc[w] = "waiting"
  /\ w \in closed
  /\ pc' = [pc EXCEPT ![w] = "looking"]
  /\ UNCHANGED <<box, iter, joinCbs, closed, history>>

\* ctx.Done() of the caller.
GiveUp(w) ==
  /\ pc[w] = "waiting"
  /\ pc' = [pc EXCEPT ![w] = "looking"]
  /\ UNCHANGED <<box, iter, joinCbs, closed, history>>

SecondLook(w) ==
  /\ pc[w] = "looking"
  /\ Return(w)

Next ==
  \/ \E r \in Rooms, k \in Keys, j \in JoinIds :
       ProcessJoinCbs(r, k, j) \/ ProcessLeaveCbs(r, k, j)
  \/ \E r \in Rooms, k \in Keys : GrowOld(r, k)
  \/ \E w \in Waiters :
       Register(w) \/ FirstLook(w) \/ Wake(w) \/ GiveUp(w) \/ SecondLook(w)

Spec == Init /\ [][Next]_vars

(***************************************************************************)
(* The Go scheduler runs a goroutine whose select has a ready case.        *)
(***************************************************************************)
FairSpec == Spec /\ \A w \in Waiters : WF_vars(FirstLook(w) \/ Wake(w) \/ SecondLook(w))
-----------------------------------------------------------------------------
(***************************************************************************)
(* What the box promises: whatever the order and the number of copies in   *)
(* which joins and leaves arrived, Participants.participants lists a key   *)
(* exactly when the greatest join id announced exceeds the greatest that   *)
(* left, and under that id.  Cleaning never shows through.                 *)
(***************************************************************************)
ViewIsLastWriter ==
  \A r \in Rooms, k \in Keys :
    box[r].participants[k] =
      IF seenJoin[r][k] > seenLeave[r][k] THEN seenJoin[r][k] ELSE None

(***************************************************************************)
(* A step that lists a participant (Participants.Add) does so under a join *)
(* id above every join and leave the room has reported for the key: the    *)
(* join callbacks never announce an old incarnation again.                 *)
(***************************************************************************)
NeverResurrects ==
  [][\A r \in Rooms, k \in Keys :
       LET p == box'[r].participants[k]
       IN  p # box[r].participants[k] /\ p # None
             => p > seenJoin[r][k] /\ p > seenLeave[r][k]]_vars

(***************************************************************************)
(* WaitParticipant has no lost wakeup: while a call is blocked in its      *)
(* select and its channel is open, the user it waits for is not listed.    *)
(***************************************************************************)
NoLostWakeup ==
  \A w \in Waiters : pc[w] = "waiting" /\ w \notin closed => ~Present(w)

(***************************************************************************)
(* WaitParticipant returns once the user it waits for has been listed      *)
(* while it was blocked, even if the user leaves again at once.            *)
(***************************************************************************)
WaitEnds ==
  \A w \in Waiters : pc[w] = "waiting" /\ Present(w) ~> pc[w] = "idle"
=============================================================================
