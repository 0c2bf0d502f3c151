----------------------------- MODULE Membership -----------------------------
(***************************************************************************)
(* Who is in a room, across a cluster: the room table of every             *)
(* SignalContext (signal/model.go), the StateParticipant and StateLeave    *)
(* messages it sends through the Messager (signal/messager.go), and the    *)
(* participants table of the client at the other end of every socket       *)
(* (module ParticipantTable).                                              *)
(*                                                                         *)
(* A message goes to the callbacks registered on the sender's node at      *)
(* once, each in a goroutine of its own, and to the other nodes through    *)
(* Kafka, with one topic per kind of message: the two kinds overtake each  *)
(* other, and a record may be consumed again after a rebalance.  Messages  *)
(* are not lost.                                                           *)
(*                                                                         *)
(* RoomInfo is stored in the map by value.  JoinRoom and LeaveRoom change  *)
(* the copy they have read and do not store it back, so only the first     *)
(* JoinRoom of a room changes the table.                                   *)
(***************************************************************************)
EXTENDS Integers, FiniteSets

CONSTANTS
  Sockets,   \* signal contexts; a socket also stands for its user
  Nodes,     \* nodes of the cluster
  nodeOf,    \* the node a socket is connected to
  Rooms,     \* room names
  right,     \* rooms matched by a socket's room patterns
  plain,     \* its patterns without "*", joined on start
  autoJoin,  \* sockets whose token says auto join
  Leavers    \* bound: the sockets that leave rooms and close

ASSUME NodeAssumption == nodeOf \in [Sockets -> Nodes]
ASSUME RightAssumption ==
  /\ right \in [Sockets -> SUBSET Rooms]
  /\ plain \in [Sockets -> SUBSET Rooms]
  /\ \A s \in Sockets : plain[s] \subseteq right[s]
  /\ autoJoin \subseteq Sockets
  /\ Leavers \subseteq Sockets

VARIABLES
  phase,     \* new, starting, open, leaving or stopping, closed
  rooms,     \* ctx.rooms: join id of a room in the map, 0 if it is not there
  joining,   \* rooms a JoinRoom in progress still has to announce
  parting,   \* rooms a LeaveRoom of the leave handler has to announce
  closing,   \* rooms the LeaveRoom of SelfClose has to announce
  records,   \* Kafka records a node has not consumed
  handlers,  \* goroutines started by consumeMessage for a context
  view,      \* the participants tables of the clients
  sent,      \* history: messages sent
  owed,      \* history: <<b, m>>: m was sent while b was open and in m.room
  crossed    \* history: contexts that announced a join after SelfClose had begun

vars == <<phase, rooms, joining, parting, closing, records, handlers, view, sent, owed,
          crossed>>
local == <<phase, rooms, joining, parting, closing>>

T == INSTANCE ParticipantTable WITH Keys <- Sockets

JoinIds == {1}

Messages ==
  [kind : {"join", "leave"}, room : Rooms, sock : Sockets, jid : JoinIds]

\* The room tables, messages and client tables are well formed: a room is in
\* ctx.rooms with join id 1 or not at all (JoinRoom).
TypeOK ==
  /\ phase \in [Sockets -> 
                          {"new", "starting", "open", "leaving", "stopping", "closed"}]
  /\ rooms \in [Sockets -> [Rooms -> JoinIds \cup {0}]]
  /\ joining \in [Sockets -> SUBSET Rooms]
  /\ parting \in [Sockets -> SUBSET Rooms]
  /\ closing \in [Sockets -> SUBSET Rooms]
  /\ records \in [Nodes -> SUBSET Messages]
  /\ handlers \in [Sockets -> SUBSET Messages]
  /\ view \in [Sockets -> [Rooms -> T!TableType(JoinIds)]]
  /\ sent \subseteq Messages
  /\ owed \subseteq Sockets \X Messages
  /\ crossed \subseteq Sockets

Init ==
  /\ phase = [s \in Sockets |-> "new"]
  /\ rooms = [s \in Sockets |-> [r \in Rooms |-> 0]]
  /\ joining = [s \in Sockets |-> {}]
  /\ parting = [s \in Sockets |-> {}]
  /\ closing = [s \in Sockets |-> {}]
  /\ records = [n \in Nodes |-> {}]
  /\ handlers = [s \in Sockets |-> {}]
  /\ view = [s \in Sockets |-> [r \in Rooms |-> T!EmptyTable]]
  /\ sent = {} /\ owed = {} /\ crossed = {}
-----------------------------------------------------------------------------
JoinId(s, r) == rooms[s][r]

\* ctx.Rooms()
JoinedRooms(s) == {r \in Rooms : JoinId(s, r) # 0}

\* Its callbacks are in the Messager and one of its patterns matches r.
Registered(s, r) == phase[s] \in {"open", "leaving"} /\ r \in right[s]

(***************************************************************************)
(* consumeMessage: the goroutines a message starts on node n.              *)
(***************************************************************************)
Dispatch(n, m) ==
  [s \in Sockets |->
     IF nodeOf[s] = n /\ Registered(s, m.room)
       THEN handlers[s] \cup {m} ELSE handlers[s]]

\* Mutant: the filter on the sender's node is inverted.
Own(n, m) == nodeOf[m.sock] = n

(***************************************************************************)
(* onTopic*: a node skips the records it produced itself, so they are not  *)
(* put into its set.                                                       *)
(***************************************************************************)
Foreign(n, m) == nodeOf[m.sock] # n

(***************************************************************************)
(* clusterEmit to one room and Messager.Emit: consume here, then produce.  *)
(* Produce takes ctx.ctx, which SelfClose cancels.                         *)
(***************************************************************************)
Emit(m) ==
  LET live == phase[m.sock] # "closed"
      home == nodeOf[m.sock]
  IN  /\ handlers' = Dispatch(home, m)
      /\ records' = IF live THEN [n \in Nodes |-> records[n] \cup {x \in {m} : Foreign(n, x)}]
                             ELSE records
      /\ sent' = sent \cup {m}
      /\ owed' = owed \cup
           {<<b, m>> : b \in {s \in Sockets : /\ phase[s] = "open"
                                              /\ JoinId(s, m.room) # 0
                                              /\ live \/ nodeOf[s] = home}}
      /\ UNCHANGED view

Participant(kind, s, r) == [kind |-> kind, room |-> r, sock |-> s, jid |-> JoinId(s, r)]

(***************************************************************************)
(* The critical section of JoinRoom for rooms it has the right to join.    *)
(***************************************************************************)
EnterRooms(s, R) ==
  /\ rooms' = [rooms EXCEPT ![s] = [r \in Rooms |-> IF r \in R /\ @[r] = 0 THEN 1 ELSE @[r]]]
  /\ joining' = [joining EXCEPT ![s] = R \ JoinedRooms(s)]

\* A handler of the socket is not in the middle of JoinRoom or LeaveRoom.
Idle(s) == joining[s] = {} /\ parting[s] = {}

(***************************************************************************)
(* InitSignal up to the start callback: auto join announces the socket     *)
(* before its own callbacks are registered.  Without a plain pattern       *)
(* JoinRoom() fails and the context is closed.                             *)
(***************************************************************************)
Start(s) ==
  /\ phase[s] = "new"
  /\ IF s \in autoJoin
       THEN IF plain[s] = {}
              THEN /\ phase' = [phase EXCEPT ![s] = "closed"]
                   /\ UNCHANGED <<rooms, joining>>
              ELSE /\ phase' = [phase EXCEPT ![s] = "starting"]
                   /\ EnterRooms(s, plain[s])
       ELSE /\ phase' = [phase EXCEPT ![s] = "starting"]
            /\ UNCHANGED <<rooms, joining>>
  /\ UNCHANGED <<parting, closing, records, handlers, view, sent, owed, crossed>>

(***************************************************************************)
(* The rest of InitSignal: the callbacks are registered.                   *)
(***************************************************************************)
Register(s) ==
  /\ phase[s] = "starting"
  /\ joining[s] = {}
  /\ phase' = [phase EXCEPT ![s] = "open"]
  /\ UNCHANGED <<rooms, joining, parting, closing, records, handlers, view, sent, owed, crossed>>

(***************************************************************************)
(* The join handler.  A room it has no right to fails the whole request.   *)
(* The handler runs until SelfClose has closed the signal.                 *)
(***************************************************************************)
JoinRoom(s, R) ==
  /\ phase[s] \in {"open", "leaving"}
  /\ Idle(s)
  /\ R \subseteq right[s]
  /\ EnterRooms(s, R)
  /\ UNCHANGED <<phase, parting, closing, records, handlers, view, sent, owed, crossed>>

AnnounceJoin(s, r) ==
  /\ r \in joining[s]
  /\ joining' = [joining EXCEPT ![s] = @ \ {r}]
  /\ IF JoinId(s, r) # 0
       THEN Emit(Participant("join", s, r))
       ELSE UNCHANGED <<records, handlers, view, sent, owed>>
  /\ crossed' = IF phase[s] \in {"leaving", "closed"} THEN crossed \cup {s} ELSE crossed
  /\ UNCHANGED <<phase, rooms, parting, closing>>

(***************************************************************************)
(* The leave handler: the map is read, not written.                        *)
(***************************************************************************)
LeaveRoom(s, R) ==
  /\ phase[s] \in {"open", "leaving"}
  /\ Idle(s)
  /\ parting' = [parting EXCEPT ![s] = R \cap JoinedRooms(s)]
  /\ UNCHANGED <<phase, rooms, joining, closing, records, handlers, view, sent, owed, crossed>>

AnnounceLeave(s, r) ==
  /\ r \in parting[s]
  /\ parting' = [parting EXCEPT ![s] = @ \ {r}]
  /\ Emit(Participant("leave", s, r))
  /\ UNCHANGED <<phase, rooms, joining, closing, crossed>>

\* Mutant: SelfClose leaves no room.
SelfCloseSilent(s) ==
  /\ \/ phase[s] = "open" /\ phase' = [phase EXCEPT ![s] = "leaving"]
     \/ /\ phase[s] = "starting" /\ joining[s] = {}
        /\ phase' = [phase EXCEPT ![s] = "stopping"]
  /\ UNCHANGED <<rooms, joining, parting, closing, records, handlers, view, sent, owed, crossed>>

(***************************************************************************)
(* SelfClose, from the socket's close, an HTTP request, a failed peer or a *)
(* failed start callback: leave the joined rooms, cancel, take the         *)
(* callbacks off and close the signal.                                     *)
(***************************************************************************)
SelfClose(s) ==
  /\ \/ phase[s] = "open" /\ phase' = [phase EXCEPT ![s] = "leaving"]
     \/ /\ phase[s] = "starting" /\ joining[s] = {}
        /\ phase' = [phase EXCEPT ![s] = "stopping"]
  /\ closing' = [closing EXCEPT ![s] = JoinedRooms(s)]
  /\ UNCHANGED <<rooms, joining, parting, records, handlers, view, sent, owed, crossed>>

AnnounceClose(s, r) ==
  /\ r \in closing[s]
  /\ closing' = [closing EXCEPT ![s] = @ \ {r}]
  /\ Emit(Participant("leave", s, r))
  /\ UNCHANGED <<phase, rooms, joining, parting, crossed>>

Closed(s) ==
  /\ phase[s] \in {"leaving", "stopping"}
  /\ closing[s] = {}
  /\ phase' = [phase EXCEPT ![s] = "closed"]
  /\ UNCHANGED <<rooms, joining, parting, closing, records, handlers, view, sent, owed, crossed>>
-----------------------------------------------------------------------------
(***************************************************************************)
(* onTopicStateParticipant, onTopicStateLeave: node n consumes a record.   *)
(***************************************************************************)
Consume(n, m) ==
  /\ handlers' = Dispatch(n, m)
  /\ records' = [records EXCEPT ![n] = @ \ {m}]
  /\ UNCHANGED <<local, view, sent, owed, crossed>>

\* The record is consumed, and again after a rebalance or a restart.
ConsumeAgain(n, m) ==
  /\ handlers' = Dispatch(n, m)
  /\ UNCHANGED <<local, records, view, sent, owed, crossed>>

\* Mutant: the client forgets a participant without leaving a tombstone.
NotifyForgetful(t, m) ==
  IF m.kind = "join"
    THEN T!Add(t, m.sock, m.jid)
    ELSE T!DropTombstone(T!Remove(t, m.sock, m.jid), m.sock)

(***************************************************************************)
(* What the notification does to the client's table for the room.          *)
(***************************************************************************)
Notify(t, m) ==
  IF m.kind = "join" THEN T!Add(t, m.sock, m.jid) ELSE T!Remove(t, m.sock, m.jid)

(***************************************************************************)
(* AcceptParticipants and StateParticipantLeave: if the context is in the  *)
(* room, its client is told, unless the signal is closed.                  *)
(***************************************************************************)
Accept(s, m) ==
  /\ handlers' = [handlers EXCEPT ![s] = @ \ {m}]
  /\ IF JoinId(s, m.room) # 0 /\ phase[s] # "closed"
       THEN view' = [view EXCEPT ![s][m.room] = Notify(@, m)]
       ELSE UNCHANGED view
  /\ UNCHANGED <<local, records, sent, owed, crossed>>

Next ==
  \/ \E s \in Sockets : Start(s) \/ Register(s) \/ Closed(s)
  \/ \E s \in Sockets, R \in SUBSET Rooms \ {{}} : JoinRoom(s, R)
  \/ \E s \in Leavers, R \in SUBSET Rooms \ {{}} : LeaveRoom(s, R)
  \/ \E s \in Leavers : SelfClose(s)
  \/ \E s \in Sockets, r \in Rooms :
       AnnounceJoin(s, r) \/ AnnounceLeave(s, r) \/ AnnounceClose(s, r)
  \/ \E n \in Nodes : \E m \in records[n] : Consume(n, m) \/ ConsumeAgain(n, m)
  \/ \E s \in Sockets : \E m \in handlers[s] : Accept(s, m)

Spec == Init /\ [][Next]_vars
-----------------------------------------------------------------------------
\* No message about a in room r is on its way to b.
Settled(b, a, r) ==
  ~\E m \in records[nodeOf[b]] \cup handlers[b] : m.sock = a /\ m.room = r

Owed(b, kind, a, r) ==
  \E m \in Messages : <<b, m>> \in owed /\ m.kind = kind /\ m.sock = a /\ m.room = r

(***************************************************************************)
(* A client that was open and in a room when another participant announced *)
(* itself (JoinRoom) lists that participant once the messages about it     *)
(* have arrived, on whichever node it is, unless the other has left.       *)
(***************************************************************************)
JoinsArrive ==
  \A a, b \in Sockets, r \in Rooms :
    /\ phase[b] = "open" /\ Settled(b, a, r)
    /\ Owed(b, "join", a, r)
    /\ ~\E m \in sent : m.kind = "leave" /\ m.sock = a /\ m.room = r
    => T!Listed(view[b][r], a)

(***************************************************************************)
(* A client that was open and in a room when another participant announced *)
(* its leave (LeaveRoom, SelfClose) does not list it once the messages     *)
(* about it have arrived, even if the join overtook the leave or came a    *)
(* second time.                                                            *)
(***************************************************************************)
LeavesArrive ==
  \A a, b \in Sockets, r \in Rooms :
    phase[b] = "open" /\ Settled(b, a, r) /\ Owed(b, "leave", a, r)
    => ~T!Listed(view[b][r], a)

(***************************************************************************)
(* TestJoinAndLeave: after Leave the client is not in the room.  Here: by  *)
(* the time the leave handler announces the leave of a room, the context   *)
(* is not in that room any more for JoinId, Rooms and matchRoom.           *)
(***************************************************************************)
LeaveTakesEffect ==
  \A s \in Sockets, r \in Rooms : r \in parting[s] => JoinId(s, r) = 0

(***************************************************************************)
(* SelfClose: "At first, should leave rooms".  When a context is closed    *)
(* and none of its handlers is running, every participant of a room to     *)
(* whom it announced itself has been told that it left.  The exception is  *)
(* a context whose join handler was still running when SelfClose began.    *)
(***************************************************************************)
CloseLeavesRooms ==
  \A a, b \in Sockets, r \in Rooms :
    /\ phase[a] = "closed" /\ Idle(a) /\ phase[b] = "open"
    /\ Owed(b, "join", a, r) /\ a \notin crossed
    => Owed(b, "leave", a, r)
=============================================================================
