--------------------------- MODULE MembershipProofs ---------------------------
(***************************************************************************)
(* What a client is told of the other participants of its rooms: the       *)
(* safety properties of Membership, proved for any sockets, nodes, rooms   *)
(* and rights.                                                             *)
(*                                                                         *)
(* The invariants follow a message from Emit to the client's table.  A     *)
(* message owed to an open context is in a record of its node, in a        *)
(* goroutine of the context, or has done its work on the table; and the    *)
(* table remembers a leave for good (its tombstone), so that no join that  *)
(* comes late or twice lists the participant again.                        *)
(***************************************************************************)
EXTENDS Membership, TLAPS

\* A tombstone excludes its key from the list.
Consistent(t) == \A k \in Sockets : t.leaves[k] # 0 => ~T!Listed(t, k)

\* What message m has to do to a table is done: its sender is listed, or known to
\* have left.
Applied(t, m) ==
  \/ t.leaves[m.sock] # 0
  \/ m.kind = "join" /\ T!Listed(t, m.sock)

\* A room is joined only with the right to it; what is about to be announced is
\* joined (the map is never written by a leave), and a context announces only in
\* the phases in which its handlers, its start or its SelfClose run.
RoomInv ==
  \A s \in Sockets :
    /\ JoinedRooms(s) \subseteq right[s]
    /\ joining[s] \cup parting[s] \cup closing[s] \subseteq JoinedRooms(s)
    /\ phase[s] \in {"new", "stopping"} => joining[s] = {}
    /\ phase[s] = "new" => parting[s] = {}
    /\ phase[s] \notin {"leaving", "stopping"} => closing[s] = {}

\* A message on its way was sent, by a context that has started and is in the room.
MessageInv ==
  /\ \A n \in Nodes : records[n] \subseteq sent
  /\ \A s \in Sockets : handlers[s] \subseteq sent
  /\ \A m \in sent : phase[m.sock] # "new" /\ JoinId(m.sock, m.room) # 0

\* A table knows a leave only from a message.
ViewInv ==
  \A s \in Sockets, r \in Rooms :
    /\ Consistent(view[s][r])
    /\ \A k \in Sockets : view[s][r].leaves[k] # 0 =>
         \E m \in sent : m.kind = "leave" /\ m.sock = k /\ m.room = r

\* A message owed to an open context is under way or has done its work.
OwedTo(b, m) ==
  /\ m \in sent
  /\ phase[b] \in {"open", "leaving", "closed"} /\ JoinId(b, m.room) # 0
  /\ phase[b] = "open" =>
       m \in records[nodeOf[b]] \cup handlers[b] \/ Applied(view[b][m.room], m)
OwedInv ==
  \A b \in Sockets, m \in Messages : <<b, m>> \in owed => OwedTo(b, m)

\* What SelfClose owes to the contexts that know of a join: it has still to begin,
\* or to announce the leave, or the leave is owed.
LeaveInv ==
  \A a, b \in Sockets, r \in Rooms :
    Owed(b, "join", a, r) /\ a \notin crossed /\ phase[b] = "open" =>
      \/ phase[a] \in {"starting", "open"}
      \/ r \in closing[a]
      \/ Owed(b, "leave", a, r)

Inv == TypeOK /\ RoomInv /\ MessageInv /\ ViewInv /\ OwedInv /\ LeaveInv
-----------------------------------------------------------------------------
\* What a notification does to a client's table (client/websocket.go, Add and
\* Remove): its message is applied, tombstones stay, and a new one comes from a
\* leave of its key.
LEMMA Notified ==
  ASSUME NEW t \in T!TableType(JoinIds), NEW m \in Messages, Consistent(t)
  PROVE  /\ Notify(t, m) \in T!TableType(JoinIds)
         /\ Consistent(Notify(t, m))
         /\ Applied(Notify(t, m), m)
         /\ \A x \in Messages : Applied(t, x) => Applied(Notify(t, m), x)
         /\ \A k \in Sockets : Notify(t, m).leaves[k] # 0 =>
              t.leaves[k] # 0 \/ (m.kind = "leave" /\ m.sock = k)
<1> USE DEF Messages, JoinIds, T!TableType, T!None, T!Listed, Consistent, Applied, Notify
<1>1. CASE t.leaves[m.sock] # 0
  <2>1. t.leaves[m.sock] = 1 /\ m.jid = 1
    BY <1>1, Zenon
  <2>2. Notify(t, m) = t
    BY <2>1 DEF T!Add, T!Remove, T!Stale
  <2> QED BY <1>1, <2>2
<1>2. CASE t.leaves[m.sock] = 0 /\ m.kind = "join"
  <2> DEFINE u == Notify(t, m)
  <2>1. ~T!Stale(t, m.sock, m.jid)
    BY <1>2, Zenon DEF T!Stale
  <2>2. /\ u.leaves = [t.leaves EXCEPT ![m.sock] = 0]
        /\ u.aged = t.aged \ {m.sock}
        /\ u.participants = [t.participants EXCEPT ![m.sock] = 1]
    <3>1. CASE t.participants[m.sock] = 0
      BY <1>2, <2>1, <3>1, Zenon DEF T!Add, T!Added, T!Store, T!DropTombstone
    <3>2. CASE t.participants[m.sock] = 1
      <4>1. ~T!Added(t, m.sock, m.jid)
        BY <3>2 DEF T!Added
      <4>2. u = T!DropTombstone(t, m.sock)
        BY <1>2, <2>1, <4>1, Zenon DEF T!Add
      <4> QED BY <3>2, <4>2 DEF T!DropTombstone
    <3> QED BY <3>1, <3>2, Zenon
  <2>3. u \in T!TableType(JoinIds)
    <3>1. CASE t.participants[m.sock] = 0
      BY <1>2, <2>1, <3>1, Zenon DEF T!Add, T!Added, T!Store, T!DropTombstone
    <3>2. CASE t.participants[m.sock] = 1
      <4>1. ~T!Added(t, m.sock, m.jid)
        BY <3>2 DEF T!Added
      <4>2. u = T!DropTombstone(t, m.sock)
        BY <1>2, <2>1, <4>1, Zenon DEF T!Add
      <4> QED BY <3>2, <4>2 DEF T!DropTombstone
    <3> QED BY <3>1, <3>2, Zenon
  <2> HIDE DEF u
  <2>4. u.leaves = t.leaves
    BY <1>2, <2>2, Zenon
  <2> QED BY <1>2, <2>2, <2>3, <2>4 DEF u
<1>3. CASE t.leaves[m.sock] = 0 /\ m.kind = "leave"
  <2> DEFINE u == Notify(t, m)
  <2>1. u = T!Unlist(T!Bury(t, m.sock, 1), m.sock, 1)
    BY <1>3, Zenon DEF T!Remove, T!Stale
  <2>2. /\ u.leaves = [t.leaves EXCEPT ![m.sock] = 1]
        /\ u.participants = [t.participants EXCEPT ![m.sock] = 0]
        /\ u \in T!TableType(JoinIds)
    BY <2>1 DEF T!Unlist, T!Bury, T!Store
  <2> HIDE DEF u
  <2> QED BY <1>3, <2>2 DEF u
<1> QED BY <1>1, <1>2, <1>3, Zenon

\* What Emit (clusterEmit and Messager.Emit) does: the message is sent, everything
\* under way stays, and each open context of the room to which the message is owed
\* has it in a record of its node or in a goroutine of its own.
LEMMA Sends ==
  ASSUME TypeOK, RoomInv, NEW m \in Messages, Emit(m)
  PROVE  /\ handlers' \in [Sockets -> SUBSET Messages]
         /\ records' \in [Nodes -> SUBSET Messages]
         /\ sent' = sent \cup {m} /\ view' = view
         /\ owed \subseteq owed' /\ owed' \subseteq Sockets \X Messages
         /\ \A s \in Sockets :
              handlers[s] \subseteq handlers'[s] /\ handlers'[s] \subseteq handlers[s] \cup {m}
         /\ \A n \in Nodes :
              records[n] \subseteq records'[n] /\ records'[n] \subseteq records[n] \cup {m}
         /\ \A b \in Sockets, x \in Messages : <<b, x>> \in owed' => 
              \/ <<b, x>> \in owed
              \/ /\ x = m /\ phase[b] = "open" /\ JoinId(b, m.room) # 0
                 /\ m \in records'[nodeOf[b]] \cup handlers'[b]
         /\ phase[m.sock] # "closed" =>
              \A b \in Sockets : phase[b] = "open" /\ JoinId(b, m.room) # 0 => <<b, m>> \in owed'
<1> DEFINE live == phase[m.sock] # "closed"
           home == nodeOf[m.sock]
           told == {s \in Sockets : /\ phase[s] = "open"
                                    /\ JoinId(s, m.room) # 0
                                    /\ live \/ nodeOf[s] = home}
<1>1. /\ handlers' = Dispatch(home, m)
      /\ records' = IF live THEN [n \in Nodes |-> records[n] \cup {x \in {m} : Foreign(n, x)}]
                             ELSE records
      /\ sent' = sent \cup {m}
      /\ owed' = owed \cup {<<b, m>> : b \in told}
      /\ view' = view
  BY Zenon DEF Emit
<1>2. m.sock \in Sockets /\ m.room \in Rooms
  BY Zenon DEF Messages
<1>3. /\ handlers \in [Sockets -> SUBSET Messages] /\ records \in [Nodes -> SUBSET Messages]
      /\ owed \subseteq Sockets \X Messages
  BY Zenon DEF TypeOK
<1>4. /\ handlers' \in [Sockets -> SUBSET Messages]
      /\ \A s \in Sockets :
           handlers[s] \subseteq handlers'[s] /\ handlers'[s] \subseteq handlers[s] \cup {m}
  BY <1>1, <1>3, Zenon DEF Dispatch
<1>5. /\ records' \in [Nodes -> SUBSET Messages]
      /\ \A n \in Nodes :
           records[n] \subseteq records'[n] /\ records'[n] \subseteq records[n] \cup {m}
  BY <1>1, <1>3, Zenon
<1>6. \A b \in told : m \in records'[nodeOf[b]] \cup handlers'[b]
  <2> TAKE b \in told
  <2>1. Registered(b, m.room)
    BY <1>2, Zenon DEF Registered, RoomInv, JoinedRooms
  <2>2. nodeOf[b] \in Nodes
    BY NodeAssumption, Zenon
  <2>3. CASE nodeOf[b] = home
    BY <1>1, <2>1, <2>3, Zenon DEF Dispatch
  <2>4. CASE nodeOf[b] # home
    BY <1>1, <2>2, <2>4, Zenon DEF Foreign
  <2> QED BY <2>3, <2>4, Zenon
<1>7. \A b \in Sockets, x \in Messages : <<b, x>> \in owed' =>
        <<b, x>> \in owed \/ (x = m /\ b \in told)
  BY <1>1, Zenon
<1>8. owed \subseteq owed' /\ owed' \subseteq Sockets \X Messages
  BY <1>1, <1>3
<1>9. \A b \in told : <<b, m>> \in owed'
  BY <1>1, Zenon
<1> QED BY <1>1, <1>4, <1>5, <1>6, <1>7, <1>8, <1>9, Zenon

\* consumeMessage for a record (onTopicStateParticipant, onTopicStateLeave): a
\* context that is open and has the right to the room gets a goroutine.
LEMMA Dispatches ==
  ASSUME TypeOK, NEW n \in Nodes, NEW m \in Messages, handlers' = Dispatch(n, m)
  PROVE  /\ handlers' \in [Sockets -> SUBSET Messages]
         /\ \A s \in Sockets :
              handlers[s] \subseteq handlers'[s] /\ handlers'[s] \subseteq handlers[s] \cup {m}
         /\ \A s \in Sockets : nodeOf[s] = n /\ phase[s] = "open" /\ m.room \in right[s] =>
              m \in handlers'[s]
BY Zenon DEF TypeOK, Dispatch, Registered

\* The announcements of JoinRoom, LeaveRoom and SelfClose send a well formed message
\* of a context that has started and is in the room.
LEMMA Announces ==
  ASSUME TypeOK, RoomInv, NEW s \in Sockets, NEW r \in Rooms,
         r \in joining[s] \cup parting[s] \cup closing[s], NEW kind \in {"join", "leave"}
  PROVE  /\ JoinId(s, r) = 1
         /\ Participant(kind, s, r) = [kind |-> kind, room |-> r, sock |-> s, jid |-> 1]
         /\ Participant(kind, s, r) \in Messages
<1>1. r \in JoinedRooms(s)
  BY Zenon DEF RoomInv
<1>2. JoinId(s, r) = 1
  BY <1>1, Zenon DEF JoinedRooms, JoinId, TypeOK, JoinIds
<1> QED BY <1>2, Zenon DEF Participant, Messages, JoinIds

\* The critical section of JoinRoom: rooms are entered, none is left.
LEMMA Enters ==
  ASSUME TypeOK, NEW s \in Sockets, NEW R \in SUBSET Rooms, EnterRooms(s, R)
  PROVE  /\ rooms' \in [Sockets -> [Rooms -> JoinIds \cup {0}]]
         /\ joining' \in [Sockets -> SUBSET Rooms]
         /\ \A x \in Sockets, r \in Rooms :
              rooms'[x][r] = IF x = s /\ r \in R /\ rooms[x][r] = 0 THEN 1 ELSE rooms[x][r]
         /\ \A x \in Sockets : joining'[x] = IF x = s THEN R \ JoinedRooms(s) ELSE joining[x]
BY Zenon DEF TypeOK, EnterRooms, JoinIds, JoinedRooms

\* AcceptParticipants and StateParticipantLeave: one table of the client is given
\* the message, if the context is in the room and not closed.
LEMMA Accepts ==
  ASSUME TypeOK, ViewInv, NEW s \in Sockets, NEW m \in handlers[s], Accept(s, m)
  PROVE  /\ m \in Messages /\ m.sock \in Sockets /\ m.room \in Rooms
         /\ view' \in [Sockets -> [Rooms -> T!TableType(JoinIds)]]
         /\ \A x \in Sockets, r \in Rooms : view'[x][r] =
              IF x = s /\ r = m.room /\ JoinId(s, m.room) # 0 /\ phase[s] # "closed"
              THEN Notify(view[s][m.room], m) ELSE view[x][r]
<1>1. m \in Messages /\ m.sock \in Sockets /\ m.room \in Rooms
  BY DEF TypeOK, Messages
<1>2. view \in [Sockets -> [Rooms -> T!TableType(JoinIds)]]
  BY Zenon DEF TypeOK
<1>3. Notify(view[s][m.room], m) \in T!TableType(JoinIds)
  BY <1>1, <1>2, Notified DEF ViewInv
<1>4. PICK u \in T!TableType(JoinIds) : u = Notify(view[s][m.room], m)
  BY <1>3, Zenon
<1>5. CASE JoinId(s, m.room) # 0 /\ phase[s] # "closed"
  <2>1. view' = [view EXCEPT ![s][m.room] = u]
    BY <1>4, <1>5, Zenon DEF Accept
  <2> QED BY <1>1, <1>2, <1>4, <1>5, <2>1, Zenon
<1>6. CASE ~(JoinId(s, m.room) # 0 /\ phase[s] # "closed")
  BY <1>1, <1>2, <1>6, Zenon DEF Accept
<1> QED BY <1>5, <1>6, Zenon

\* The fields keep their types: a joined room has join id 1, and so do the messages.
LEMMA TypeStep == TypeOK /\ RoomInv /\ ViewInv /\ [Next]_vars => TypeOK'
<1> SUFFICES ASSUME TypeOK, RoomInv, ViewInv, [Next]_vars PROVE TypeOK'
  BY Zenon
<1>1. ASSUME NEW s \in Sockets, Start(s) PROVE TypeOK'
  <2>1. CASE EnterRooms(s, plain[s]) /\ phase' = [phase EXCEPT ![s] = "starting"]
    <3>1. plain[s] \in SUBSET Rooms
      BY RightAssumption, Zenon
    <3>2. /\ rooms' \in [Sockets -> [Rooms -> JoinIds \cup {0}]]
          /\ joining' \in [Sockets -> SUBSET Rooms]
      BY <2>1, <3>1, Enters, Zenon
    <3> QED BY <1>1, <2>1, <3>2, Zenon DEF Start, TypeOK
  <2>2. CASE UNCHANGED <<rooms, joining>>
    BY <1>1, <2>2, Zenon DEF Start, TypeOK
  <2> QED BY <1>1, <2>1, <2>2, Zenon DEF Start
<1>2. ASSUME NEW s \in Sockets, Register(s) PROVE TypeOK'
  BY <1>2, Zenon DEF Register, TypeOK
<1>3. ASSUME NEW s \in Sockets, Closed(s) PROVE TypeOK'
  BY <1>3, Zenon DEF Closed, TypeOK
<1>4. ASSUME NEW s \in Sockets, NEW R \in SUBSET Rooms, JoinRoom(s, R) PROVE TypeOK'
  <2>1. /\ rooms' \in [Sockets -> [Rooms -> JoinIds \cup {0}]]
        /\ joining' \in [Sockets -> SUBSET Rooms]
    BY <1>4, Enters, Zenon DEF JoinRoom
  <2> QED BY <1>4, <2>1, Zenon DEF JoinRoom, TypeOK
<1>5. ASSUME NEW s \in Sockets, NEW R \in SUBSET Rooms, LeaveRoom(s, R) PROVE TypeOK'
  BY <1>5, Zenon DEF LeaveRoom, TypeOK
<1>6. ASSUME NEW s \in Sockets, SelfClose(s) PROVE TypeOK'
  BY <1>6, Zenon DEF SelfClose, TypeOK, JoinedRooms
<1>7. ASSUME NEW s \in Sockets, NEW r \in Rooms, AnnounceJoin(s, r) PROVE TypeOK'
  <2>1. /\ JoinId(s, r) # 0 /\ Participant("join", s, r) \in Messages
        /\ Emit(Participant("join", s, r))
    BY <1>7, Announces DEF AnnounceJoin
  <2>2. /\ handlers' \in [Sockets -> SUBSET Messages] /\ records' \in [Nodes -> SUBSET Messages]
        /\ sent' \subseteq Messages /\ owed' \subseteq Sockets \X Messages /\ view' = view
    BY <2>1, Sends DEF TypeOK
  <2> QED BY <1>7, <2>2, Zenon DEF AnnounceJoin, TypeOK
<1>8. ASSUME NEW s \in Sockets, NEW r \in Rooms, AnnounceLeave(s, r) PROVE TypeOK'
  <2>1. Participant("leave", s, r) \in Messages /\ Emit(Participant("leave", s, r))
    BY <1>8, Announces, Zenon DEF AnnounceLeave
  <2>2. /\ handlers' \in [Sockets -> SUBSET Messages] /\ records' \in [Nodes -> SUBSET Messages]
        /\ sent' \subseteq Messages /\ owed' \subseteq Sockets \X Messages /\ view' = view
    BY <2>1, Sends DEF TypeOK
  <2> QED BY <1>8, <2>2, Zenon DEF AnnounceLeave, TypeOK
<1>9. ASSUME NEW s \in Sockets, NEW r \in Rooms, AnnounceClose(s, r) PROVE TypeOK'
  <2>1. Participant("leave", s, r) \in Messages /\ Emit(Participant("leave", s, r))
    BY <1>9, Announces, Zenon DEF AnnounceClose
  <2>2. /\ handlers' \in [Sockets -> SUBSET Messages] /\ records' \in [Nodes -> SUBSET Messages]
        /\ sent' \subseteq Messages /\ owed' \subseteq Sockets \X Messages /\ view' = view
    BY <2>1, Sends DEF TypeOK
  <2> QED BY <1>9, <2>2, Zenon DEF AnnounceClose, TypeOK
<1>10. ASSUME NEW n \in Nodes, NEW m \in records[n], Consume(n, m) \/ ConsumeAgain(n, m)
       PROVE  TypeOK'
  <2>1. m \in Messages /\ handlers' = Dispatch(n, m)
    BY <1>10, Zenon DEF TypeOK, Consume, ConsumeAgain
  <2>2. handlers' \in [Sockets -> SUBSET Messages]
    BY <2>1, Dispatches, Zenon
  <2> QED BY <1>10, <2>2, Zenon DEF Consume, ConsumeAgain, TypeOK, local
<1>11. ASSUME NEW s \in Sockets, NEW m \in handlers[s], Accept(s, m) PROVE TypeOK'
  <2>1. view' \in [Sockets -> [Rooms -> T!TableType(JoinIds)]]
    BY <1>11, Accepts, Zenon
  <2> QED BY <1>11, <2>1, Zenon DEF Accept, TypeOK, local
<1>12. CASE UNCHANGED vars
  BY <1>12, Zenon DEF vars, TypeOK
<1> QED BY <1>1, <1>2, <1>3, <1>4, <1>5, <1>6, <1>7, <1>8, <1>9, <1>10, <1>11, <1>12,
           RightAssumption, Zenon DEF Next

\* Nothing is undone: a room stays in the map, a context goes through its phases in
\* one direction, and what is sent, owed and crossed stays so.
Advances ==
  /\ \A s \in Sockets :
       /\ \A r \in Rooms : rooms[s][r] # 0 => rooms'[s][r] # 0
       /\ phase'[s] = "new" => phase[s] = "new"
       /\ phase'[s] = "open" => phase[s] \in {"starting", "open"}
       /\ phase[s] \in {"open", "leaving", "closed"} =>
            phase'[s] \in {"open", "leaving", "closed"}
  /\ sent \subseteq sent' /\ owed \subseteq owed' /\ crossed \subseteq crossed'

\* Every step of the contexts and of the messages goes forward in this sense.
LEMMA Onward == TypeOK /\ RoomInv /\ [Next]_vars => Advances
<1> SUFFICES ASSUME TypeOK, RoomInv, [Next]_vars PROVE Advances
  BY Zenon
<1>e. ASSUME NEW s \in Sockets, NEW R \in SUBSET Rooms, EnterRooms(s, R)
      PROVE  \A x \in Sockets, r \in Rooms : rooms[x][r] # 0 => rooms'[x][r] # 0
  BY <1>e, Enters, Zenon
<1> USE DEF TypeOK, Advances
<1>1. ASSUME NEW s \in Sockets, Start(s) PROVE Advances
  <2>1. CASE EnterRooms(s, plain[s]) /\ phase' = [phase EXCEPT ![s] = "starting"]
    <3>1. plain[s] \in SUBSET Rooms
      BY RightAssumption, Zenon
    <3>2. \A x \in Sockets, r \in Rooms : rooms[x][r] # 0 => rooms'[x][r] # 0
      BY <2>1, <3>1, <1>e, Zenon
    <3> QED BY <1>1, <2>1, <3>2, Zenon DEF Start
  <2>2. CASE UNCHANGED <<rooms, joining>>
    BY <1>1, <2>2, Zenon DEF Start
  <2> QED BY <1>1, <2>1, <2>2, Zenon DEF Start
<1>2. ASSUME NEW s \in Sockets, Register(s) PROVE Advances
  BY <1>2, Zenon DEF Register
<1>3. ASSUME NEW s \in Sockets, Closed(s) PROVE Advances
  BY <1>3, Zenon DEF Closed
<1>4. ASSUME NEW s \in Sockets, NEW R \in SUBSET Rooms, JoinRoom(s, R) PROVE Advances
  <2>1. \A x \in Sockets, r \in Rooms : rooms[x][r] # 0 => rooms'[x][r] # 0
    BY <1>4, <1>e, Zenon DEF JoinRoom
  <2> QED BY <1>4, <2>1, Zenon DEF JoinRoom
<1>5. ASSUME NEW s \in Sockets, NEW R \in SUBSET Rooms, LeaveRoom(s, R) PROVE Advances
  BY <1>5, Zenon DEF LeaveRoom
<1>6. ASSUME NEW s \in Sockets, SelfClose(s) PROVE Advances
  BY <1>6, Zenon DEF SelfClose
<1>7. ASSUME NEW s \in Sockets, NEW r \in Rooms, AnnounceJoin(s, r) PROVE Advances
  <2>1. sent \subseteq sent' /\ owed \subseteq owed'
    BY <1>7, Announces, Sends DEF AnnounceJoin
  <2> QED BY <1>7, <2>1, Zenon DEF AnnounceJoin
<1>8. ASSUME NEW s \in Sockets, NEW r \in Rooms, AnnounceLeave(s, r) PROVE Advances
  <2>1. sent \subseteq sent' /\ owed \subseteq owed'
    BY <1>8, Announces, Sends DEF AnnounceLeave
  <2> QED BY <1>8, <2>1, Zenon DEF AnnounceLeave
<1>9. ASSUME NEW s \in Sockets, NEW r \in Rooms, AnnounceClose(s, r) PROVE Advances
  <2>1. sent \subseteq sent' /\ owed \subseteq owed'
    BY <1>9, Announces, Sends DEF AnnounceClose
  <2> QED BY <1>9, <2>1, Zenon DEF AnnounceClose
<1>10. ASSUME NEW n \in Nodes, NEW m \in records[n], Consume(n, m) \/ ConsumeAgain(n, m)
       PROVE  Advances
  BY <1>10, Zenon DEF Consume, ConsumeAgain, local
<1>11. ASSUME NEW s \in Sockets, NEW m \in handlers[s], Accept(s, m) PROVE Advances
  BY <1>11, Zenon DEF Accept, local
<1>12. CASE UNCHANGED vars
  BY <1>12, Zenon DEF vars
<1> HIDE DEF Advances, TypeOK
<1> QED BY <1>1, <1>2, <1>3, <1>4, <1>5, <1>6, <1>7, <1>8, <1>9, <1>10, <1>11, <1>12,
           RightAssumption, Zenon DEF Next

\* Rooms and announcements: what is announced is joined, and a phase without
\* handlers announces nothing.
LEMMA RoomStep == TypeOK /\ RoomInv /\ [Next]_vars => RoomInv'
<1> SUFFICES ASSUME TypeOK, RoomInv, [Next]_vars PROVE RoomInv'
  BY Zenon
<1>e. ASSUME NEW s \in Sockets, NEW R \in SUBSET Rooms, EnterRooms(s, R), R \subseteq right[s],
             phase'[s] \notin {"new", "stopping"}, UNCHANGED <<parting, closing>>,
             \A x \in Sockets \ {s} : phase'[x] = phase[x],
             phase'[s] \notin {"leaving", "stopping"} => closing[s] = {}
      PROVE  RoomInv'
  <2>1. /\ \A x \in Sockets, r \in Rooms :
             rooms'[x][r] = IF x = s /\ r \in R /\ rooms[x][r] = 0 THEN 1 ELSE rooms[x][r]
        /\ \A x \in Sockets : joining'[x] = IF x = s THEN R \ JoinedRooms(s) ELSE joining[x]
    BY <1>e, Enters, Zenon
  <2>2. \A x \in Sockets : {r \in Rooms : rooms'[x][r] # 0} =
                             IF x = s THEN JoinedRooms(s) \cup R ELSE JoinedRooms(x)
    BY <2>1 DEF JoinedRooms, JoinId
  <2>4. \A x \in Sockets \ {s} : {r \in Rooms : rooms'[x][r] # 0} = JoinedRooms(x) /\ joining'[x] = joining[x]
    BY <2>1, <2>2, Zenon
  <2>5. ASSUME NEW x \in Sockets
        PROVE  /\ {r \in Rooms : rooms'[x][r] # 0} \subseteq right[x]
               /\ joining'[x] \cup parting'[x] \cup closing'[x] \subseteq {r \in Rooms : rooms'[x][r] # 0}
               /\ phase'[x] \in {"new", "stopping"} => joining'[x] = {}
               /\ phase'[x] = "new" => parting'[x] = {}
               /\ phase'[x] \notin {"leaving", "stopping"} => closing'[x] = {}
    <3>1. CASE x = s
      BY <1>e, <2>1, <2>2, <3>1 DEF RoomInv
    <3>2. CASE x # s
      BY <1>e, <2>4, <3>2 DEF RoomInv
    <3> QED BY <3>1, <3>2, Zenon
  <2> QED BY <2>5, Zenon DEF RoomInv, JoinedRooms, JoinId
<1> USE DEF TypeOK, RoomInv, JoinedRooms, JoinId
<1>1. ASSUME NEW s \in Sockets, Start(s) PROVE RoomInv'
  <2>1. CASE EnterRooms(s, plain[s]) /\ phase' = [phase EXCEPT ![s] = "starting"]
    <3>1. plain[s] \in SUBSET Rooms /\ plain[s] \subseteq right[s]
      BY RightAssumption, Zenon
    <3>2. phase'[s] = "starting" /\ closing[s] = {}
      BY <1>1, <2>1, Zenon DEF Start
    <3> QED BY <1>1, <2>1, <3>1, <3>2, <1>e, Zenon DEF Start
  <2>2. CASE UNCHANGED <<rooms, joining>>
    BY <1>1, <2>2, Zenon DEF Start
  <2> QED BY <1>1, <2>1, <2>2, Zenon DEF Start
<1>2. ASSUME NEW s \in Sockets, Register(s) PROVE RoomInv'
  BY <1>2, Zenon DEF Register
<1>3. ASSUME NEW s \in Sockets, Closed(s) PROVE RoomInv'
  BY <1>3, Zenon DEF Closed
<1>4. ASSUME NEW s \in Sockets, NEW R \in SUBSET Rooms, JoinRoom(s, R) PROVE RoomInv'
  <2>1. phase' = phase /\ phase[s] \in {"open", "leaving"}
    BY <1>4, Zenon DEF JoinRoom
  <2> QED BY <1>4, <2>1, <1>e, Zenon DEF JoinRoom
<1>5. ASSUME NEW s \in Sockets, NEW R \in SUBSET Rooms, LeaveRoom(s, R) PROVE RoomInv'
  BY <1>5, Zenon DEF LeaveRoom
<1>6. ASSUME NEW s \in Sockets, SelfClose(s) PROVE RoomInv'
  BY <1>6 DEF SelfClose
<1>7. ASSUME NEW s \in Sockets, NEW r \in Rooms, AnnounceJoin(s, r) PROVE RoomInv'
  BY <1>7 DEF AnnounceJoin
<1>8. ASSUME NEW s \in Sockets, NEW r \in Rooms, AnnounceLeave(s, r) PROVE RoomInv'
  BY <1>8, Zenon DEF AnnounceLeave
<1>9. ASSUME NEW s \in Sockets, NEW r \in Rooms, AnnounceClose(s, r) PROVE RoomInv'
  BY <1>9, Zenon DEF AnnounceClose
<1>10. ASSUME NEW n \in Nodes, NEW m \in records[n], Consume(n, m) \/ ConsumeAgain(n, m)
       PROVE  RoomInv'
  BY <1>10, Zenon DEF Consume, ConsumeAgain, local
<1>11. ASSUME NEW s \in Sockets, NEW m \in handlers[s], Accept(s, m) PROVE RoomInv'
  BY <1>11, Zenon DEF Accept, local
<1>12. CASE UNCHANGED vars
  BY <1>12, Zenon DEF vars
<1> HIDE DEF TypeOK, RoomInv
<1> QED BY <1>1, <1>2, <1>3, <1>4, <1>5, <1>6, <1>7, <1>8, <1>9, <1>10, <1>11, <1>12,
           RightAssumption, Zenon DEF Next

\* What is under way was sent, by a context that has started and is in the room.
LEMMA MessageStep == TypeOK /\ RoomInv /\ ViewInv /\ MessageInv /\ [Next]_vars => MessageInv'
<1> SUFFICES ASSUME TypeOK, RoomInv, ViewInv, MessageInv, [Next]_vars PROVE MessageInv'
  BY Zenon
<1>0. Advances
  BY Onward, Zenon
<1>s. ASSUME NEW m \in Messages, Emit(m), UNCHANGED <<phase, rooms>>,
             phase[m.sock] # "new", JoinId(m.sock, m.room) # 0
      PROVE  MessageInv'
  <2>1. /\ sent' = sent \cup {m}
        /\ \A s \in Sockets : handlers'[s] \subseteq handlers[s] \cup {m}
        /\ \A n \in Nodes : records'[n] \subseteq records[n] \cup {m}
    BY <1>s, Sends, Zenon
  <2> QED BY <1>s, <2>1, Zenon DEF MessageInv, JoinId
<1>a. ASSUME NEW s \in Sockets, NEW r \in Rooms, NEW kind \in {"join", "leave"},
             r \in joining[s] \cup parting[s] \cup closing[s],
             Emit(Participant(kind, s, r)), UNCHANGED <<phase, rooms>>
      PROVE  MessageInv'
  <2>1. PICK m \in Messages : m = Participant(kind, s, r)
    BY <1>a, Announces, Zenon
  <2>2. m.sock = s /\ m.room = r /\ JoinId(s, r) # 0
    BY <1>a, <2>1, Announces
  <2>3. phase[s] # "new"
    BY <1>a, Zenon DEF RoomInv
  <2> QED BY <1>a, <1>s, <2>1, <2>2, <2>3, Zenon
<1>k. ASSUME UNCHANGED sent,
             \A n \in Nodes : records'[n] \subseteq sent, \A s \in Sockets : handlers'[s] \subseteq sent
      PROVE  MessageInv'
  <2>1. ASSUME NEW m \in sent PROVE phase'[m.sock] # "new" /\ rooms'[m.sock][m.room] # 0
    <3>1. m.sock \in Sockets /\ m.room \in Rooms
      BY Zenon DEF TypeOK, Messages
    <3> QED BY <1>0, <3>1, Zenon DEF MessageInv, JoinId, Advances
  <2> QED BY <1>k, <2>1, Zenon DEF MessageInv, JoinId
<1>l. ASSUME UNCHANGED <<sent, records, handlers>> PROVE MessageInv'
  BY <1>k, <1>l, Zenon DEF MessageInv
<1>1. ASSUME NEW s \in Sockets, Start(s) \/ Register(s) \/ Closed(s) PROVE MessageInv'
  BY <1>1, <1>l, Zenon DEF Start, Register, Closed
<1>2. ASSUME NEW s \in Sockets, NEW R \in SUBSET Rooms, JoinRoom(s, R) \/ LeaveRoom(s, R)
      PROVE  MessageInv'
  BY <1>2, <1>l, Zenon DEF JoinRoom, LeaveRoom
<1>3. ASSUME NEW s \in Sockets, SelfClose(s) PROVE MessageInv'
  BY <1>3, <1>l, Zenon DEF SelfClose
<1>4. ASSUME NEW s \in Sockets, NEW r \in Rooms, AnnounceJoin(s, r) PROVE MessageInv'
  <2>1. r \in joining[s] /\ UNCHANGED <<phase, rooms>>
    BY <1>4, Zenon DEF AnnounceJoin
  <2>2. JoinId(s, r) # 0
    BY <2>1, Announces
  <2> QED BY <1>4, <2>1, <2>2, <1>a, Zenon DEF AnnounceJoin
<1>5. ASSUME NEW s \in Sockets, NEW r \in Rooms, AnnounceLeave(s, r) PROVE MessageInv'
  BY <1>5, <1>a, Zenon DEF AnnounceLeave
<1>6. ASSUME NEW s \in Sockets, NEW r \in Rooms, AnnounceClose(s, r) PROVE MessageInv'
  BY <1>6, <1>a, Zenon DEF AnnounceClose
<1>7. ASSUME NEW n \in Nodes, NEW m \in records[n], Consume(n, m) \/ ConsumeAgain(n, m)
      PROVE  MessageInv'
  <2>1. m \in Messages /\ m \in sent /\ handlers' = Dispatch(n, m)
    BY <1>7, Zenon DEF TypeOK, MessageInv, Consume, ConsumeAgain
  <2>2. \A s \in Sockets : handlers'[s] \subseteq handlers[s] \cup {m}
    BY <2>1, Dispatches, Zenon
  <2>3. \A x \in Nodes : records'[x] \subseteq records[x]
    BY <1>7, Zenon DEF TypeOK, Consume, ConsumeAgain
  <2>4. UNCHANGED sent
    BY <1>7, Zenon DEF Consume, ConsumeAgain
  <2> QED BY <1>k, <2>1, <2>2, <2>3, <2>4, Zenon DEF MessageInv
<1>8. ASSUME NEW s \in Sockets, NEW m \in handlers[s], Accept(s, m) PROVE MessageInv'
  <2>1. \A x \in Sockets : handlers'[x] \subseteq handlers[x]
    BY <1>8, Zenon DEF TypeOK, Accept
  <2>2. UNCHANGED <<sent, records>>
    BY <1>8, Zenon DEF Accept
  <2> QED BY <1>k, <2>1, <2>2, Zenon DEF MessageInv
<1>9. CASE UNCHANGED vars
  BY <1>9, <1>l, Zenon DEF vars
<1> QED BY <1>1, <1>2, <1>3, <1>4, <1>5, <1>6, <1>7, <1>8, <1>9, RightAssumption, Zenon DEF Next

\* The tables: a tombstone excludes its key from the list and comes from a leave.
LEMMA ViewStep == TypeOK /\ RoomInv /\ MessageInv /\ ViewInv /\ [Next]_vars => ViewInv'
<1> SUFFICES ASSUME TypeOK, RoomInv, MessageInv, ViewInv, [Next]_vars PROVE ViewInv'
  BY Zenon
<1>0. sent \subseteq sent'
  BY Onward, Zenon DEF Advances
<1>l. ASSUME UNCHANGED view PROVE ViewInv'
  <2>1. ASSUME NEW s \in Sockets, NEW r \in Rooms
        PROVE  /\ Consistent(view[s][r])
               /\ \A k \in Sockets : view[s][r].leaves[k] # 0 =>
                    \E m \in sent' : m.kind = "leave" /\ m.sock = k /\ m.room = r
    BY <1>0 DEF ViewInv
  <2> QED BY <1>l, <2>1 DEF ViewInv, Consistent
<1>1. ASSUME NEW s \in Sockets, NEW m \in handlers[s], Accept(s, m) PROVE ViewInv'
  <2>1. PICK u : u = Notify(view[s][m.room], m)
    BY Zenon
  <2>2. /\ m \in Messages /\ m.sock \in Sockets /\ m.room \in Rooms
        /\ \A x \in Sockets, r \in Rooms :
             view'[x][r] = view[x][r] \/ (x = s /\ r = m.room /\ view'[x][r] = u)
    BY <1>1, <2>1, Accepts
  <2>3. m \in sent /\ sent' = sent
    BY <1>1, Zenon DEF MessageInv, Accept
  <2>4. view[s][m.room] \in T!TableType(JoinIds) /\ Consistent(view[s][m.room])
    BY <2>2 DEF TypeOK, ViewInv
  <2>5. /\ Consistent(u)
        /\ \A k \in Sockets : u.leaves[k] # 0 =>
              view[s][m.room].leaves[k] # 0 \/ (m.kind = "leave" /\ m.sock = k)
    BY <2>1, <2>2, <2>4, Notified
  <2>6. \A k \in Sockets : u.leaves[k] # 0 =>
          \E x \in sent : x.kind = "leave" /\ x.sock = k /\ x.room = m.room
    BY <2>2, <2>3, <2>5 DEF ViewInv
  <2>7. ASSUME NEW x \in Sockets, NEW r \in Rooms
        PROVE  /\ Consistent(view[x][r]')
               /\ \A k \in Sockets : view'[x][r].leaves[k] # 0 =>
                    \E y \in sent' : y.kind = "leave" /\ y.sock = k /\ y.room = r
    <3>1. CASE view'[x][r] = view[x][r]
      BY <2>3, <3>1 DEF ViewInv
    <3>2. CASE x = s /\ r = m.room /\ view'[x][r] = u
      BY <2>3, <2>5, <2>6, <3>2, Zenon
    <3> QED BY <2>2, <3>1, <3>2, Zenon
  <2> QED BY <2>7, Zenon DEF ViewInv, Consistent
<1>2. CASE UNCHANGED vars
  BY <1>l, <1>2, Zenon DEF vars
<1>3. ASSUME NEW s \in Sockets, NEW r \in Rooms,
             AnnounceJoin(s, r) \/ AnnounceLeave(s, r) \/ AnnounceClose(s, r)
      PROVE  ViewInv'
  BY <1>3, <1>l, Zenon DEF AnnounceJoin, AnnounceLeave, AnnounceClose, Emit
<1>4. ASSUME NEW n \in Nodes, NEW m \in records[n], Consume(n, m) \/ ConsumeAgain(n, m)
      PROVE  ViewInv'
  BY <1>4, <1>l, Zenon DEF Consume, ConsumeAgain
<1>5. ASSUME NEW s \in Sockets,
             Start(s) \/ Register(s) \/ Closed(s) \/ SelfClose(s)
               \/ \E R \in SUBSET Rooms : JoinRoom(s, R) \/ LeaveRoom(s, R)
      PROVE  ViewInv'
  BY <1>5, <1>l, Zenon DEF Start, Register, Closed, SelfClose, JoinRoom, LeaveRoom
<1> QED BY <1>1, <1>2, <1>3, <1>4, <1>5, RightAssumption, Zenon DEF Next

\* A message owed to an open context is never lost: Emit puts it on its way, a
\* record becomes a goroutine of every context that is owed it, and the goroutine
\* applies it.
LEMMA OwedStep == TypeOK /\ RoomInv /\ MessageInv /\ ViewInv /\ OwedInv /\ [Next]_vars => OwedInv'
<1> SUFFICES ASSUME TypeOK, RoomInv, MessageInv, ViewInv, OwedInv, [Next]_vars PROVE OwedInv'
  BY Zenon
<1>0. Advances
  BY Onward, Zenon
<1>r. \A b \in Sockets : nodeOf[b] \in Nodes
  BY NodeAssumption, Zenon
<1>q. \A b \in Sockets, m \in Messages : <<b, m>> \in owed =>
        /\ m.room \in Rooms /\ m.sock \in Sockets
        /\ OwedTo(b, m) /\ m.room \in right[b]
        /\ m \in sent' /\ phase'[b] \in {"open", "leaving", "closed"} /\ rooms'[b][m.room] # 0
        /\ phase'[b] = "open" => phase[b] = "open"
  <2> SUFFICES ASSUME NEW b \in Sockets, NEW m \in Messages, <<b, m>> \in owed
               PROVE  /\ m.room \in Rooms /\ m.sock \in Sockets
                      /\ OwedTo(b, m) /\ m.room \in right[b]
                      /\ m \in sent' /\ phase'[b] \in {"open", "leaving", "closed"}
                      /\ rooms'[b][m.room] # 0
                      /\ phase'[b] = "open" => phase[b] = "open"
    BY Zenon
  <2>1. m.room \in Rooms /\ m.sock \in Sockets
    BY Zenon DEF Messages
  <2>2. OwedTo(b, m)
    BY Zenon DEF OwedInv, OwedTo
  <2>3. m.room \in right[b]
    BY <2>1, <2>2, Zenon DEF OwedTo, RoomInv, JoinedRooms
  <2> QED BY <1>0, <2>1, <2>2, <2>3, Zenon DEF OwedTo, JoinId, Advances
<1>k. ASSUME \A b \in Sockets, m \in Messages : <<b, m>> \in owed' =>
               /\ m \in sent' /\ phase'[b] \in {"open", "leaving", "closed"}
               /\ rooms'[b][m.room] # 0
               /\ phase'[b] = "open" =>
                    m \in records'[nodeOf[b]] \cup handlers'[b] \/ Applied(view[b][m.room]', m)
      PROVE  OwedInv'
  BY <1>k, Zenon DEF OwedInv, OwedTo, JoinId, Applied
<1>l. ASSUME UNCHANGED <<records, handlers, view, owed>> PROVE OwedInv'
  <2>1. ASSUME NEW b \in Sockets, NEW m \in Messages, <<b, m>> \in owed, phase'[b] = "open"
        PROVE  m \in records[nodeOf[b]] \cup handlers[b] \/ Applied(view[b][m.room], m)
    BY <2>1, <1>q, Zenon DEF OwedTo
  <2> QED BY <1>k, <1>l, <1>q, <2>1, Zenon
<1>s. ASSUME NEW m \in Messages, Emit(m), UNCHANGED <<phase, rooms>> PROVE OwedInv'
  <2>1. /\ sent' = sent \cup {m} /\ view' = view
        /\ \A s \in Sockets : handlers[s] \subseteq handlers'[s]
        /\ \A n \in Nodes : records[n] \subseteq records'[n]
        /\ \A b \in Sockets, x \in Messages : <<b, x>> \in owed' => 
              \/ <<b, x>> \in owed
              \/ /\ x = m /\ phase[b] = "open" /\ JoinId(b, m.room) # 0
                 /\ m \in records'[nodeOf[b]] \cup handlers'[b]
    BY <1>s, Sends, Zenon
  <2>2. ASSUME NEW b \in Sockets, NEW x \in Messages, <<b, x>> \in owed'
        PROVE  /\ x \in sent' /\ phase'[b] \in {"open", "leaving", "closed"}
               /\ rooms'[b][x.room] # 0
               /\ phase'[b] = "open" =>
                    x \in records'[nodeOf[b]] \cup handlers'[b] \/ Applied(view[b][x.room]', x)
    <3>1. CASE <<b, x>> \in owed
      BY <1>q, <1>r, <2>1, <3>1, Zenon DEF OwedTo
    <3>2. CASE /\ x = m /\ phase[b] = "open" /\ JoinId(b, m.room) # 0
               /\ m \in records'[nodeOf[b]] \cup handlers'[b]
      BY <1>s, <2>1, <3>2, Zenon DEF JoinId
    <3> QED BY <2>1, <2>2, <3>1, <3>2, Zenon
  <2> QED BY <1>k, <2>2, Zenon
<1>1. ASSUME NEW s \in Sockets,
             Start(s) \/ Register(s) \/ Closed(s) \/ SelfClose(s)
               \/ \E R \in SUBSET Rooms : JoinRoom(s, R) \/ LeaveRoom(s, R)
      PROVE  OwedInv'
  BY <1>1, <1>l, Zenon DEF Start, Register, Closed, SelfClose, JoinRoom, LeaveRoom
<1>2. ASSUME NEW s \in Sockets, NEW r \in Rooms, AnnounceJoin(s, r) PROVE OwedInv'
  BY <1>2, <1>s, Announces DEF AnnounceJoin
<1>3. ASSUME NEW s \in Sockets, NEW r \in Rooms, AnnounceLeave(s, r) PROVE OwedInv'
  BY <1>3, <1>s, Announces, Zenon DEF AnnounceLeave
<1>4. ASSUME NEW s \in Sockets, NEW r \in Rooms, AnnounceClose(s, r) PROVE OwedInv'
  BY <1>4, <1>s, Announces, Zenon DEF AnnounceClose
<1>5. ASSUME NEW n \in Nodes, NEW m \in records[n], Consume(n, m) \/ ConsumeAgain(n, m)
      PROVE  OwedInv'
  <2>1. m \in Messages /\ handlers' = Dispatch(n, m) /\ UNCHANGED <<phase, view, owed>>
    BY <1>5, Zenon DEF TypeOK, Consume, ConsumeAgain, local
  <2>2. /\ \A s \in Sockets : handlers[s] \subseteq handlers'[s]
        /\ \A s \in Sockets : nodeOf[s] = n /\ phase[s] = "open" /\ m.room \in right[s] =>
             m \in handlers'[s]
    BY <2>1, Dispatches, Zenon
  <2>3. \A x \in Nodes : records[x] \subseteq records'[x] \cup {y \in {m} : x = n}
    BY <1>5, Zenon DEF TypeOK, Consume, ConsumeAgain
  <2>4. ASSUME NEW b \in Sockets, NEW x \in Messages, <<b, x>> \in owed, phase[b] = "open"
        PROVE  x \in records'[nodeOf[b]] \cup handlers'[b] \/ Applied(view[b][x.room], x)
    <3>1. CASE x \in records[nodeOf[b]]
      BY <1>q, <1>r, <2>2, <2>3, <2>4, <3>1
    <3>2. CASE x \notin records[nodeOf[b]]
      BY <1>q, <2>2, <2>4, <3>2, Zenon DEF OwedTo
    <3> QED BY <3>1, <3>2, Zenon
  <2> QED BY <1>k, <1>q, <2>1, <2>4, Zenon
<1>6. ASSUME NEW s \in Sockets, NEW m \in handlers[s], Accept(s, m) PROVE OwedInv'
  <2>1. PICK u : u = Notify(view[s][m.room], m)
    BY Zenon
  <2>2. /\ m \in Messages /\ m.sock \in Sockets /\ m.room \in Rooms
        /\ \A x \in Sockets, r \in Rooms : view'[x][r] =
             IF x = s /\ r = m.room /\ JoinId(s, m.room) # 0 /\ phase[s] # "closed"
             THEN u ELSE view[x][r]
    BY <1>6, <2>1, Accepts
  <2>3. view[s][m.room] \in T!TableType(JoinIds) /\ Consistent(view[s][m.room])
    BY <2>2 DEF TypeOK, ViewInv
  <2>4. /\ Applied(u, m)
        /\ \A x \in Messages : Applied(view[s][m.room], x) => Applied(u, x)
    BY <2>1, <2>2, <2>3, Notified, Zenon
  <2>5. UNCHANGED <<phase, records, owed>>
    BY <1>6, Zenon DEF Accept, local
  <2>6. \A x \in Sockets : handlers[x] \subseteq handlers'[x] \cup {y \in {m} : x = s}
    BY <1>6, Zenon DEF TypeOK, Accept
  <2>7. ASSUME NEW b \in Sockets, NEW x \in Messages, <<b, x>> \in owed, phase[b] = "open"
        PROVE  x \in records[nodeOf[b]] \cup handlers'[b] \/ Applied(view[b][x.room]', x)
    <3>1. x.room \in Rooms /\ JoinId(b, x.room) # 0
      BY <1>q, <2>7, Zenon DEF OwedTo
    <3>2. CASE x \in handlers[b] /\ x \notin handlers'[b]
      <4>1. b = s /\ x = m
        BY <2>6, <3>2, Zenon
      <4>2. view'[b][x.room] = u
        BY <2>2, <2>7, <3>1, <4>1, Zenon
      <4> QED BY <2>4, <4>1, <4>2, Zenon
    <3>3. CASE Applied(view[b][x.room], x)
      <4>1. view'[b][x.room] = view[b][x.room] \/ (b = s /\ x.room = m.room /\ view'[b][x.room] = u)
        BY <2>2, <3>1, Zenon
      <4> QED BY <2>4, <3>3, <4>1, Zenon
    <3> QED BY <1>q, <2>7, <3>2, <3>3, Zenon DEF OwedTo
  <2> QED BY <1>k, <1>q, <2>5, <2>7, Zenon
<1>7. CASE UNCHANGED vars
  BY <1>7, <1>l, Zenon DEF vars
<1> QED BY <1>1, <1>2, <1>3, <1>4, <1>5, <1>6, <1>7, RightAssumption, Zenon DEF Next

\* SelfClose keeps its word: the rooms it finds joined are the rooms in which the
\* context announced itself, and each leave it announces is owed to every context
\* that was owed the join.
LEMMA LeaveStep ==
  TypeOK /\ RoomInv /\ MessageInv /\ OwedInv /\ LeaveInv /\ [Next]_vars => LeaveInv'
<1> SUFFICES ASSUME TypeOK, RoomInv, MessageInv, OwedInv, LeaveInv, [Next]_vars PROVE LeaveInv'
  BY Zenon
<1>0. Advances
  BY Onward, Zenon
<1> DEFINE Left(a, b, r) ==
      phase'[a] \in {"starting", "open"} \/ r \in closing'[a] \/ Owed(b, "leave", a, r)'
<1>q. ASSUME NEW a \in Sockets, NEW b \in Sockets, NEW r \in Rooms, Owed(b, "join", a, r)
      PROVE  /\ JoinId(a, r) # 0 /\ JoinId(b, r) # 0 /\ phase[a] # "new"
             /\ phase'[b] = "open" => phase[b] = "open"
  <2>1. PICK m \in Messages : <<b, m>> \in owed /\ m.sock = a /\ m.room = r
    BY <1>q, Zenon DEF Owed
  <2> QED BY <1>0, <2>1, Zenon DEF OwedInv, OwedTo, MessageInv, Advances
<1>p. ASSUME NEW a \in Sockets, NEW b \in Sockets, NEW r \in Rooms, Owed(b, "leave", a, r)
      PROVE  Owed(b, "leave", a, r)'
  <2>1. PICK m \in Messages : <<b, m>> \in owed /\ m.kind = "leave" /\ m.sock = a /\ m.room = r
    BY <1>p, Zenon DEF Owed
  <2> QED BY <1>0, <2>1, Zenon DEF Owed, Advances
<1>k. ASSUME NEW a \in Sockets, NEW b \in Sockets, NEW r \in Rooms,
             Owed(b, "join", a, r), a \notin crossed', phase'[b] = "open",
             phase[a] \in {"starting", "open"} => phase'[a] \in {"starting", "open"} \/ r \in closing'[a],
             r \in closing[a] => r \in closing'[a] \/ Owed(b, "leave", a, r)'
      PROVE  Left(a, b, r)
  <2>1. phase[b] = "open" /\ a \notin crossed
    BY <1>k, <1>q, <1>0, Zenon DEF Advances
  <2> QED BY <1>k, <1>p, <2>1, Zenon DEF LeaveInv
<1>l. ASSUME UNCHANGED owed,
             \A a \in Sockets, r \in Rooms :
               /\ phase[a] \in {"starting", "open"} /\ JoinId(a, r) # 0 =>
                    phase'[a] \in {"starting", "open"} \/ r \in closing'[a]
               /\ r \in closing[a] => r \in closing'[a]
      PROVE  LeaveInv'
  <2>1. ASSUME NEW a \in Sockets, NEW b \in Sockets, NEW r \in Rooms,
               Owed(b, "join", a, r)', a \notin crossed', phase'[b] = "open"
        PROVE  Left(a, b, r)
    <3>1. Owed(b, "join", a, r)
      BY <1>l, <2>1, Zenon DEF Owed
    <3> QED BY <1>l, <1>q, <1>k, <2>1, <3>1, Zenon
  <2> QED BY <2>1, Zenon DEF LeaveInv
<1>1. ASSUME NEW s \in Sockets, Start(s) PROVE LeaveInv'
  BY <1>1, <1>l, Zenon DEF Start, TypeOK
<1>2. ASSUME NEW s \in Sockets, Register(s) PROVE LeaveInv'
  BY <1>2, <1>l, Zenon DEF Register, TypeOK
<1>3. ASSUME NEW s \in Sockets, Closed(s) PROVE LeaveInv'
  BY <1>3, <1>l, Zenon DEF Closed, TypeOK
<1>4. ASSUME NEW s \in Sockets, NEW R \in SUBSET Rooms, JoinRoom(s, R) \/ LeaveRoom(s, R)
      PROVE  LeaveInv'
  BY <1>4, <1>l, Zenon DEF JoinRoom, LeaveRoom
<1>5. ASSUME NEW s \in Sockets, SelfClose(s) PROVE LeaveInv'
  <2>1. \A a \in Sockets : /\ a # s => phase'[a] = phase[a] /\ closing'[a] = closing[a]
                           /\ closing'[s] = JoinedRooms(s)
    BY <1>5, Zenon DEF SelfClose, TypeOK
  <2>2. closing[s] \subseteq JoinedRooms(s)
    BY Zenon DEF RoomInv
  <2>3. UNCHANGED owed
    BY <1>5, Zenon DEF SelfClose
  <2> QED BY <1>l, <2>1, <2>2, <2>3, Zenon DEF JoinedRooms
<1>6. ASSUME NEW s \in Sockets, NEW x \in Rooms, AnnounceJoin(s, x) PROVE LeaveInv'
  <2>1. PICK m \in Messages : m = Participant("join", s, x)
    BY <1>6, Announces, Zenon DEF AnnounceJoin
  <2>2. m.kind = "join" /\ m.sock = s /\ m.room = x /\ Emit(m)
    BY <1>6, <2>1, Announces DEF AnnounceJoin
  <2>3. \A b \in Sockets, y \in Messages : <<b, y>> \in owed' => <<b, y>> \in owed \/ y = m
    BY <2>2, Sends, Zenon
  <2>4. UNCHANGED <<phase, closing>> /\ x \in joining[s]
    BY <1>6, Zenon DEF AnnounceJoin
  <2>5. ASSUME NEW a \in Sockets, NEW b \in Sockets, NEW r \in Rooms,
               Owed(b, "join", a, r)', a \notin crossed', phase'[b] = "open"
        PROVE  Left(a, b, r)
    <3>1. PICK y \in Messages : <<b, y>> \in owed' /\ y.kind = "join" /\ y.sock = a /\ y.room = r
      BY <2>5, Zenon DEF Owed
    <3>2. CASE <<b, y>> \in owed
      <4>1. Owed(b, "join", a, r)
        BY <3>1, <3>2, Zenon DEF Owed
      <4> QED BY <1>k, <2>4, <2>5, <4>1, Zenon
    <3>3. CASE y = m
      <4>1. a = s
        BY <2>2, <3>1, <3>3, Zenon
      <4>2. phase[s] \notin {"leaving", "closed"}
        BY <1>6, <2>5, <4>1, Zenon DEF AnnounceJoin
      <4>3. phase[s] \in {"starting", "open"}
        BY <2>4, <4>2, Zenon DEF RoomInv, TypeOK
      <4> QED BY <2>4, <4>1, <4>3, Zenon
    <3> QED BY <2>3, <3>1, <3>2, <3>3, Zenon
  <2> QED BY <2>5, Zenon DEF LeaveInv
<1>s. ASSUME NEW s \in Sockets, NEW x \in Rooms, NEW m \in Messages, Emit(m), UNCHANGED <<phase, rooms>>,
             m.kind = "leave" /\ m.sock = s /\ m.room = x,
             \A a \in Sockets, r \in Rooms : r \in closing[a] =>
               r \in closing'[a] \/ (a = s /\ r = x /\ phase[s] # "closed")
      PROVE  LeaveInv'
  <2>1. /\ \A b \in Sockets, y \in Messages : <<b, y>> \in owed' => <<b, y>> \in owed \/ y = m
        /\ phase[m.sock] # "closed" =>
             \A b \in Sockets : phase[b] = "open" /\ JoinId(b, m.room) # 0 => <<b, m>> \in owed'
    BY <1>s, Sends, Zenon
  <2>2. ASSUME NEW a \in Sockets, NEW b \in Sockets, NEW r \in Rooms,
               Owed(b, "join", a, r)', a \notin crossed', phase'[b] = "open"
        PROVE  Left(a, b, r)
    <3>1. Owed(b, "join", a, r)
      BY <1>s, <2>1, <2>2, Zenon DEF Owed
    <3>2. ASSUME r \in closing[a], r \notin closing'[a] PROVE Owed(b, "leave", a, r)'
      <4>1. a = s /\ r = x /\ phase[s] # "closed" /\ JoinId(b, x) # 0
        BY <1>s, <1>q, <3>1, <3>2, Zenon
      <4>2. <<b, m>> \in owed'
        BY <1>s, <2>1, <2>2, <4>1, Zenon
      <4> QED BY <1>s, <4>1, <4>2, Zenon DEF Owed
    <3> QED BY <1>k, <1>s, <2>2, <3>1, <3>2, Zenon
  <2> QED BY <2>2, Zenon DEF LeaveInv
<1>7. ASSUME NEW s \in Sockets, NEW x \in Rooms, AnnounceLeave(s, x) PROVE LeaveInv'
  <2>1. PICK m \in Messages : m = Participant("leave", s, x)
    BY <1>7, Announces, Zenon DEF AnnounceLeave
  <2>2. m.kind = "leave" /\ m.sock = s /\ m.room = x /\ Emit(m)
    BY <1>7, <2>1, Announces DEF AnnounceLeave
  <2> QED BY <1>7, <1>s, <2>2, Zenon DEF AnnounceLeave
<1>8. ASSUME NEW s \in Sockets, NEW x \in Rooms, AnnounceClose(s, x) PROVE LeaveInv'
  <2>1. PICK m \in Messages : m = Participant("leave", s, x)
    BY <1>8, Announces, Zenon DEF AnnounceClose
  <2>2. m.kind = "leave" /\ m.sock = s /\ m.room = x /\ Emit(m)
    BY <1>8, <2>1, Announces DEF AnnounceClose
  <2>3. phase[s] # "closed" /\ UNCHANGED <<phase, rooms>>
    BY <1>8, Zenon DEF AnnounceClose, RoomInv
  <2>4. \A a \in Sockets, r \in Rooms : r \in closing[a] => r \in closing'[a] \/ (a = s /\ r = x)
    BY <1>8, Zenon DEF AnnounceClose, TypeOK
  <2> QED BY <1>s, <2>2, <2>3, <2>4
<1>9. ASSUME NEW n \in Nodes, NEW m \in records[n], Consume(n, m) \/ ConsumeAgain(n, m)
      PROVE  LeaveInv'
  BY <1>9, <1>l, Zenon DEF Consume, ConsumeAgain, local
<1>10. ASSUME NEW s \in Sockets, NEW m \in handlers[s], Accept(s, m) PROVE LeaveInv'
  BY <1>10, <1>l, Zenon DEF Accept, local
<1>11. CASE UNCHANGED vars
  BY <1>11, <1>l, Zenon DEF vars
<1> QED BY <1>1, <1>2, <1>3, <1>4, <1>5, <1>6, <1>7, <1>8, <1>9, <1>10, <1>11,
           RightAssumption, Zenon DEF Next

-----------------------------------------------------------------------------
\* Before any context has started nothing is joined, sent or owed.
LEMMA InitInv == Init => Inv
<1> SUFFICES ASSUME Init PROVE Inv
  BY Zenon
<1>1. TypeOK
  BY Zenon DEF Init, TypeOK, JoinIds, T!TableType, T!EmptyTable, T!None
<1>2. RoomInv
  BY Zenon DEF Init, RoomInv, JoinedRooms, JoinId
<1>3. MessageInv
  BY Zenon DEF Init, MessageInv
<1>4. ViewInv
  BY Zenon DEF Init, ViewInv, Consistent, T!EmptyTable, T!None
<1>5. OwedInv /\ LeaveInv
  BY Zenon DEF Init, OwedInv, LeaveInv, Owed
<1> QED BY <1>1, <1>2, <1>3, <1>4, <1>5, Zenon DEF Inv

\* The inductive invariant holds in every reachable state.
THEOREM InvHolds == Spec => []Inv
<1>1. Inv /\ [Next]_vars => Inv'
  BY TypeStep, RoomStep, MessageStep, ViewStep, OwedStep, LeaveStep, Zenon DEF Inv
<1> QED BY InitInv, <1>1, PTL DEF Spec

\* For any number of sockets, nodes and rooms: a client that was open and in a room
\* when another participant announced itself (JoinRoom) lists it once the messages
\* about it have arrived, unless that participant sent a leave.
THEOREM JoinsArriveHolds == Spec => []JoinsArrive
<1>1. Inv => JoinsArrive
  <2> SUFFICES ASSUME Inv, NEW a \in Sockets, NEW b \in Sockets, NEW r \in Rooms,
                      phase[b] = "open", Settled(b, a, r), Owed(b, "join", a, r),
                      ~\E m \in sent : m.kind = "leave" /\ m.sock = a /\ m.room = r
               PROVE  T!Listed(view[b][r], a)
    BY Zenon DEF JoinsArrive
  <2>1. PICK m \in Messages : <<b, m>> \in owed /\ m.sock = a /\ m.room = r
    BY Zenon DEF Owed
  <2>2. Applied(view[b][r], m)
    BY <2>1, Zenon DEF Inv, OwedInv, OwedTo, Settled
  <2>3. view[b][r].leaves[a] = 0
    BY DEF Inv, ViewInv
  <2> QED BY <2>1, <2>2, <2>3, Zenon DEF Applied
<1> QED BY InvHolds, <1>1, PTL

\* A client that was open and in a room when another participant announced its leave
\* (LeaveRoom, SelfClose) does not list it once the messages about it have arrived,
\* although records of different topics overtake each other and are consumed again.
THEOREM LeavesArriveHolds == Spec => []LeavesArrive
<1>1. Inv => LeavesArrive
  <2> SUFFICES ASSUME Inv, NEW a \in Sockets, NEW b \in Sockets, NEW r \in Rooms,
                      phase[b] = "open", Settled(b, a, r), Owed(b, "leave", a, r)
               PROVE  ~T!Listed(view[b][r], a)
    BY Zenon DEF LeavesArrive
  <2>1. PICK m \in Messages : <<b, m>> \in owed /\ m.kind = "leave" /\ m.sock = a /\ m.room = r
    BY Zenon DEF Owed
  <2>2. Applied(view[b][r], m)
    BY <2>1, Zenon DEF Inv, OwedInv, OwedTo, Settled
  <2>3. view[b][r].leaves[a] # 0
    BY <2>1, <2>2, Zenon DEF Applied
  <2> QED BY <2>3, Zenon DEF Inv, ViewInv, Consistent
<1> QED BY InvHolds, <1>1, PTL

\* A context that is closed has announced its leave to every open participant that
\* was told of its join, unless a join handler was still running when SelfClose
\* began.
THEOREM CloseLeavesRoomsHolds == Spec => []CloseLeavesRooms
<1>1. Inv => CloseLeavesRooms
  BY Zenon DEF Inv, CloseLeavesRooms, LeaveInv, RoomInv
<1> QED BY InvHolds, <1>1, PTL

=============================================================================
