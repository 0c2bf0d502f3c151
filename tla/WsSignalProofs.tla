--------------------------- MODULE WsSignalProofs ---------------------------
(***************************************************************************)
(* Proofs about the two ends of a websocket connection, for any set of     *)
(* calls: an id belongs to one attempt of one call, which the entries of   *)
(* acks, the frames on their way, the acks that handlers owe and the ack a *)
(* reader hands over all agree on.                                         *)
(***************************************************************************)
EXTENDS WsSignal, SequenceTheorems, TLAPS

FrameSet == [kind : {"msg", "ok", "refused", "ready"}, id : Nat, of : Calls \cup {Nobody}]
Frames(q) == {q[i] : i \in 1..Len(q)}
Hows == {"none", "ok", "refused", "closed", "expired", "unsent"}

\* The state is well formed.
StateInv ==
  /\ conn \in [Ends -> {"new", "up", "down"}] /\ initDone \in BOOLEAN /\ ready \in BOOLEAN
  /\ nextId \in [Ends -> Nat] /\ acks \in [Ends -> SUBSET [id : Nat, call : Calls]]
  /\ pc \in [Calls -> {"idle", "write", "wait", "done"}] /\ id \in [Calls -> Nat]
  /\ result \in [Calls -> [how : Hows, of : Calls \cup {Nobody}]]
  /\ net \in [Ends -> Seq(FrameSet)]
  /\ giving \in [Ends -> [call : Calls \cup {Nobody}, id : Nat, how : {"none", "ok", "refused"},
                           of : Calls \cup {Nobody}]]
  /\ oweAck \subseteq [at : Ends, id : Nat, of : Calls]

\* OnClose and the upgrader's OnClose agree on who runs the callback.
CloseInv ==
  /\ closed \subseteq closeCh /\ closeCh \subseteq Ends
  /\ "client" \in closeCb /\ ("server" \in closeCb => initDone)
  /\ initDone /\ "server" \notin closed => "server" \in closeCb
  /\ cbRuns \in [Ends -> Nat] /\ CloseReportedOnce

\* Id i of end e belongs to call c, whatever comes later.
Owns(e, i, c) ==
  /\ c \in Calls /\ endOf[c] = e /\ i <= nextId[e]
  /\ \A a \in acks[e] : a.id = i => a.call = c

\* A client that waited for "ready" has been told that the handlers are there.
Prepared(c) == endOf[c] = "client" /\ c \notin Early => initDone

\* What a frame on its way to end e stands for.
FrameInv(e, f) ==
  /\ f.kind = "msg" => Owns(Peer(e), f.id, f.of) /\ Prepared(f.of)
  /\ f.kind \in {"ok", "refused"} => Owns(e, f.id, f.of)
  /\ f.kind = "ready" => initDone

(***************************************************************************)
(* Everything that carries an id carries the call that took it.            *)
(***************************************************************************)
IdInv ==
  /\ ready => initDone
  /\ \A e \in Ends : \A f \in Frames(net[e]) : FrameInv(e, f)
  /\ \A o \in oweAck : Owns(Peer(o.at), o.id, o.of)
  /\ \A c \in Calls : pc[c] \in {"write", "wait"} => Owns(endOf[c], id[c], c) /\ Prepared(c)
  /\ \A e \in Ends : giving[e].call # Nobody =>
       /\ giving[e].of = giving[e].call /\ endOf[giving[e].call] = e /\ giving[e].id <= nextId[e]
       /\ \A a \in acks[e] : a.id # giving[e].id
  /\ \A e \in Ends : \A a \in acks[e] : a.call \in needAck /\ endOf[a.call] = e /\ a.id <= nextId[e]

Inv ==
  /\ StateInv /\ CloseInv /\ IdInv
  /\ AnswerIsOwn /\ EntriesAreAwaited /\ ReadyIsHandled
-----------------------------------------------------------------------------
\* The other end is an end, and its other end is this one.
LEMMA Peers == \A e \in Ends : Peer(e) \in Ends /\ Peer(Peer(e)) = e /\ Peer(e) # e
BY Zenon DEF Ends, Peer

\* The frames of a queue one frame was added to.
LEMMA FramesAppend ==
  ASSUME NEW q \in Seq(FrameSet), NEW f \in FrameSet
  PROVE  Append(q, f) \in Seq(FrameSet) /\ Frames(Append(q, f)) = Frames(q) \cup {f}
<1> DEFINE r == Append(q, f)
           n == Len(q)
<1>1. /\ r \in Seq(FrameSet) /\ n \in Nat /\ Len(r) = n + 1
      /\ \A i \in 1..n : r[i] = q[i]
  BY AppendProperties, LenProperties
<1>2. r[n + 1] = f
  BY AppendProperties, Zenon
<1> HIDE DEF r, n
<1>3. \A i \in 1..(n + 1) : i \in 1..n \/ i = n + 1
  BY <1>1
<1>4. \A i \in 1..(n + 1) : r[i] \in {q[j] : j \in 1..n} \cup {f}
  BY <1>1, <1>2, <1>3, Zenon
<1>5. \A i \in 1..n : q[i] = r[i] /\ i \in 1..(n + 1)
  BY <1>1
<1>6. n + 1 \in 1..(n + 1)
  BY <1>1
<1>7. {r[i] : i \in 1..(n + 1)} = {q[j] : j \in 1..n} \cup {f}
  BY <1>2, <1>4, <1>5, <1>6, Zenon
<1> QED BY <1>1, <1>7, Zenon DEF Frames, r, n

\* The first frame of a queue, and the frames that are left.
LEMMA FramesTail ==
  ASSUME NEW q \in Seq(FrameSet), q # <<>>
  PROVE  /\ Head(q) \in FrameSet /\ Head(q) \in Frames(q)
         /\ Tail(q) \in Seq(FrameSet) /\ Frames(Tail(q)) \subseteq Frames(q)
<1> DEFINE r == Tail(q)
           n == Len(q)
<1>1. /\ r \in Seq(FrameSet) /\ n \in Nat \ {0} /\ Len(r) = n - 1 /\ Head(q) = q[1]
      /\ \A i \in 1..Len(r) : r[i] = q[i + 1]
  BY HeadTailProperties, EmptySeq
<1>2. q[1] \in FrameSet
  BY <1>1, ElementOfSeq
<1> HIDE DEF r, n
<1>3. 1 \in 1..n /\ \A i \in 1..Len(r) : i + 1 \in 1..n
  BY <1>1
<1> QED BY <1>1, <1>2, <1>3 DEF Frames, r, n

\* WriteMessage adds at most the frame, at the other end.
LEMMA SentFrames ==
  ASSUME NEW e \in Ends, NEW f \in FrameSet, net \in [Ends -> Seq(FrameSet)]
  PROVE  /\ Sent(e, f) \in [Ends -> Seq(FrameSet)] /\ Sent(e, f)[e] = net[e]
         /\ \A x \in Ends : \A g \in Frames(Sent(e, f)[x]) : g \in Frames(net[x]) \/ (x = Peer(e) /\ g = f)
<1> DEFINE p == Peer(e)
<1>1. p \in Ends /\ p # e
  BY Peers, Zenon
<1>2. Append(net[p], f) \in Seq(FrameSet) /\ Frames(Append(net[p], f)) = Frames(net[p]) \cup {f}
  BY <1>1, FramesAppend, Zenon
<1>3. CASE conn[p] = "down"
  BY <1>3, Zenon DEF Sent
<1>4. CASE conn[p] # "down"
  <2>1. Sent(e, f) = [net EXCEPT ![p] = Append(net[p], f)]
    BY <1>4, Zenon DEF Sent
  <2>2. Sent(e, f) \in [Ends -> Seq(FrameSet)]
    BY <2>1, <1>1, <1>2, Zenon
  <2>3. \A x \in Ends : Sent(e, f)[x] = IF x = p THEN Append(net[p], f) ELSE net[x]
    BY <2>1, Zenon
  <2> QED BY <2>2, <2>3, <1>1, <1>2, Zenon
<1> QED BY <1>3, <1>4, Zenon

\* The reader of end e takes the first frame.
LEMMA PopFrames ==
  ASSUME NEW e \in Ends, NEW n \in [Ends -> Seq(FrameSet)], n[e] # <<>>
  PROVE  LET m == [n EXCEPT ![e] = Tail(n[e])]
         IN  m \in [Ends -> Seq(FrameSet)] /\ \A x \in Ends : Frames(m[x]) \subseteq Frames(n[x])
<1> DEFINE m == [n EXCEPT ![e] = Tail(n[e])]
<1>1. Tail(n[e]) \in Seq(FrameSet) /\ Frames(Tail(n[e])) \subseteq Frames(n[e])
  BY FramesTail, Zenon
<1>2. m \in [Ends -> Seq(FrameSet)] /\ \A x \in Ends : m[x] = IF x = e THEN Tail(n[e]) ELSE n[x]
  BY <1>1, Zenon
<1> QED BY <1>1, <1>2, Zenon

(***************************************************************************)
(* A call that returns leaves its attempt; only a result it was given is   *)
(* stored.                                                                 *)
(***************************************************************************)
LEMMA Returns ==
  ASSUME StateInv, NEW c \in Calls, NEW how \in Hows, NEW of \in Calls \cup {Nobody},
         Return(c, how, of)
  PROVE  /\ pc' \in [Calls -> {"idle", "write", "wait", "done"}] /\ pc'[c] \in {"idle", "done"}
         /\ \A d \in Calls : d # c => pc'[d] = pc[d] /\ result'[d] = result[d]
         /\ result' \in [Calls -> [how : Hows, of : Calls \cup {Nobody}]]
         /\ result'[c] = result[c] \/ (result'[c].how = how /\ result'[c].of = of)
<1>1. pc \in [Calls -> {"idle", "write", "wait", "done"}] /\ result \in [Calls -> [how : Hows, of : Calls \cup {Nobody}]]
  BY Zenon DEF StateInv
<1>2. CASE how # "ok" /\ tries[c] > 0
  <2>1. pc' = [pc EXCEPT ![c] = "idle"] /\ result' = result
    BY <1>2, Zenon DEF Return
  <2> QED BY <1>1, <2>1, Zenon
<1>3. CASE ~(how # "ok" /\ tries[c] > 0)
  <2> DEFINE r == [how |-> how, of |-> of]
  <2>1. pc' = [pc EXCEPT ![c] = "done"] /\ result' = [result EXCEPT ![c] = r]
    BY <1>3, Zenon DEF Return
  <2>2. r \in [how : Hows, of : Calls \cup {Nobody}] /\ r.how = how /\ r.of = of
    BY Zenon
  <2> HIDE DEF r
  <2> QED BY <1>1, <2>1, <2>2, Zenon
<1> QED BY <1>2, <1>3, Zenon
-----------------------------------------------------------------------------
\* Whichever comes first, OnClose(cb) or the close: one of them runs the callback.
LEMMA CloseStep == CloseInv /\ [Next]_vars => CloseInv'
<1> SUFFICES ASSUME CloseInv, [Next]_vars PROVE CloseInv'
  BY Zenon
<1>1. ASSUME NEW e \in Ends, Open(e) PROVE CloseInv'
  BY <1>1, Zenon DEF Open, callVars, readVars, CloseInv, CloseReportedOnce, Ends
<1>2. ASSUME NEW e \in Ends, Handover(e) PROVE CloseInv'
  BY <1>2, Zenon DEF Handover, connVars, CloseInv, CloseReportedOnce, Ends
<1>3. ASSUME NEW e \in Ends, ReadAck(e) PROVE CloseInv'
  BY <1>3, Zenon DEF ReadAck, connVars, CloseInv, CloseReportedOnce, Ends
<1>4. ASSUME NEW e \in Ends, ReadMsg(e) PROVE CloseInv'
  BY <1>4, Zenon DEF ReadMsg, connVars, callVars, CloseInv, CloseReportedOnce, Ends
<1>5. ASSUME NEW e \in Ends, CloseRuns(e) PROVE CloseInv'
  <2>1. e \in closeCh /\ e \notin closed /\ closed' = closed \cup {e} /\ UNCHANGED <<closeCh, closeCb, initDone>>
    BY <1>5, Zenon DEF CloseRuns
  <2>2. e \in closeCb <=> e = "client" \/ initDone
    BY <2>1, Zenon DEF CloseInv, Ends
  <2>3. cbRuns[e] = 0 /\ cbRuns \in [Ends -> Nat]
    BY <2>1, Zenon DEF CloseInv, CloseReportedOnce
  <2>4. cbRuns' = IF e \in closeCb THEN [cbRuns EXCEPT ![e] = 1] ELSE cbRuns
    BY <1>5, <2>3 DEF CloseRuns
  <2>5. cbRuns' \in [Ends -> Nat] /\ \A x \in Ends : cbRuns'[x] = IF x = e /\ (e = "client" \/ initDone) THEN 1 ELSE cbRuns[x]
    BY <2>2, <2>3, <2>4, Zenon
  <2>6. CloseReportedOnce'
    BY <2>1, <2>3, <2>5, Zenon DEF CloseInv, CloseReportedOnce
  <2> QED BY <2>1, <2>2, <2>5, <2>6, Zenon DEF CloseInv
<1>6. CASE InitSignal
  BY <1>6 DEF InitSignal, OnClose, CloseInv, CloseReportedOnce, Ends
<1>7. CASE ReadReady
  BY <1>7, Zenon DEF ReadReady, connVars, callVars, CloseInv, CloseReportedOnce, Ends
<1>8. ASSUME NEW e \in Ends, Down(e) PROVE CloseInv'
  BY <1>8, Zenon DEF Down, callVars, readVars, CloseInv, CloseReportedOnce, Ends
<1>9. ASSUME NEW c \in Calls, Register(c) PROVE CloseInv'
  BY <1>9, Zenon DEF Register, connVars, readVars, CloseInv, CloseReportedOnce, Ends
<1>10. ASSUME NEW c \in Calls, WaitConnFails(c) PROVE CloseInv'
  BY <1>10, Zenon DEF WaitConnFails, connVars, readVars, CloseInv, CloseReportedOnce, Ends
<1>11. ASSUME NEW c \in Calls, Write(c) PROVE CloseInv'
  BY <1>11, Zenon DEF Write, connVars, readVars, CloseInv, CloseReportedOnce, Ends
<1>12. ASSUME NEW c \in Calls, CtxDone(c) PROVE CloseInv'
  BY <1>12, Zenon DEF CtxDone, connVars, readVars, CloseInv, CloseReportedOnce, Ends
<1>13. ASSUME NEW c \in Calls, CloseSeen(c) PROVE CloseInv'
  BY <1>13, Zenon DEF CloseSeen, connVars, readVars, CloseInv, CloseReportedOnce, Ends
<1>14. ASSUME NEW c \in Calls, Expire(c) PROVE CloseInv'
  BY <1>14, Zenon DEF Expire, connVars, readVars, CloseInv, CloseReportedOnce, Ends
<1>15. ASSUME NEW o \in oweAck, LateAck(o) PROVE CloseInv'
  BY <1>15, Zenon DEF LateAck, connVars, callVars, CloseInv, CloseReportedOnce, Ends
<1>16. CASE UNCHANGED vars
  BY <1>16, Zenon DEF vars, CloseInv, CloseReportedOnce, Ends
<1> QED BY <1>1, <1>2, <1>3, <1>4, <1>5, <1>6, <1>7, <1>8, <1>9, <1>10, <1>11, <1>12, <1>13, <1>14, <1>15, <1>16, Zenon
    DEF Next, ReaderStep, Hangup, CallStep

\* The state stays well formed.
LEMMA StateStep == StateInv /\ IdInv /\ [Next]_vars => StateInv'
<1> SUFFICES ASSUME StateInv, IdInv, [Next]_vars PROVE StateInv'
  BY Zenon
<1>1. ASSUME NEW e \in Ends, Open(e) PROVE StateInv'
  BY <1>1, Zenon DEF Open, callVars, readVars, StateInv
<1>2. ASSUME NEW e \in Ends, Handover(e) PROVE StateInv'
  <2>1. PICK g : g = giving[e]
    BY Zenon
  <2>2. g.call \in Calls /\ g.how \in Hows /\ g.of \in Calls \cup {Nobody} /\ Return(g.call, g.how, g.of)
    BY <1>2, <2>1, Zenon DEF Handover, StateInv, Hows
  <2>3. Idle \in [call : Calls \cup {Nobody}, id : Nat, how : {"none", "ok", "refused"}, of : Calls \cup {Nobody}]
    BY Zenon DEF Idle
  <2>4. /\ pc' \in [Calls -> {"idle", "write", "wait", "done"}]
        /\ result' \in [Calls -> [how : Hows, of : Calls \cup {Nobody}]]
    BY <2>2, Returns, Zenon
  <2> QED BY <1>2, <2>3, <2>4, Zenon DEF Handover, connVars, StateInv
<1>3. ASSUME NEW e \in Ends, ReadAck(e) PROVE StateInv'
  <2>1. net[e] # <<>> /\ net[e] \in Seq(FrameSet) /\ net \in [Ends -> Seq(FrameSet)]
    BY <1>3, Zenon DEF ReadAck, Reads, StateInv
  <2>2. PICK f \in FrameSet : f = Head(net[e]) /\ f.kind \in {"ok", "refused"}
    BY <1>3, <2>1, FramesTail, Zenon DEF ReadAck, Reads
  <2>3. net' \in [Ends -> Seq(FrameSet)]
    BY <1>3, <2>1, PopFrames, Zenon DEF ReadAck, Pop
  <2> DEFINE entry == {a \in acks[e] : a.id = f.id}
             G == [call : Calls \cup {Nobody}, id : Nat, how : {"none", "ok", "refused"}, of : Calls \cup {Nobody}]
             given == IF entry = {} THEN Idle
                      ELSE [call |-> (CHOOSE a \in entry : TRUE).call, id |-> f.id, how |-> f.kind, of |-> f.of]
  <2>4. acks' = [acks EXCEPT ![e] = @ \ entry] /\ giving' = [giving EXCEPT ![e] = given]
    BY <1>3, <2>2, Zenon DEF ReadAck
  <2>5. given \in G
    <3>1. CASE entry = {}
      BY <3>1, Zenon DEF Idle
    <3>2. CASE entry # {}
      <4>1. (CHOOSE a \in entry : TRUE).call \in Calls
        BY <3>2 DEF StateInv
      <4> QED BY <4>1, <2>2, <3>2, Zenon DEF FrameSet
    <3> QED BY <3>1, <3>2, Zenon
  <2> HIDE DEF given, entry
  <2>6. giving' \in [Ends -> G]
    BY <2>4, <2>5, Zenon DEF StateInv
  <2>7. acks' \in [Ends -> SUBSET [id : Nat, call : Calls]]
    BY <2>4, Zenon DEF StateInv
  <2> QED BY <1>3, <2>3, <2>6, <2>7, Zenon DEF ReadAck, connVars, StateInv
<1>4. ASSUME NEW e \in Ends, ReadMsg(e) PROVE StateInv'
  <2>1. net[e] # <<>> /\ net[e] \in Seq(FrameSet) /\ net \in [Ends -> Seq(FrameSet)]
    BY <1>4, Zenon DEF ReadMsg, Reads, StateInv
  <2>2. PICK f \in FrameSet : f = Head(net[e]) /\ f.kind = "msg" /\ f \in Frames(net[e])
    BY <1>4, <2>1, FramesTail, Zenon DEF ReadMsg, Reads
  <2>3. f.of \in Calls /\ f.id \in Nat
    BY <2>2, Zenon DEF IdInv, FrameInv, Owns, FrameSet
  <2>4. \A how \in {"ok", "refused"} : Frame(how, f.id, f.of) \in FrameSet
    BY <2>3, Zenon DEF Frame, FrameSet
  <2>5. \A how \in {"ok", "refused"} :
          /\ Sent(e, Frame(how, f.id, f.of)) \in [Ends -> Seq(FrameSet)]
          /\ Sent(e, Frame(how, f.id, f.of))[e] = net[e]
    BY <2>1, <2>4, SentFrames, Zenon
  <2>6. \A how \in {"ok", "refused"} :
          [Sent(e, Frame(how, f.id, f.of)) EXCEPT ![e] = Tail(@)] \in [Ends -> Seq(FrameSet)]
    BY <2>1, <2>5, PopFrames, Zenon
  <2>7. Pop(e) \in [Ends -> Seq(FrameSet)]
    BY <2>1, PopFrames, Zenon DEF Pop
  <2>8. net' \in [Ends -> Seq(FrameSet)]
    BY <1>4, <2>2, <2>6, <2>7, Zenon DEF ReadMsg
  <2>9. oweAck' \subseteq [at : Ends, id : Nat, of : Calls]
    BY <1>4, <2>2, <2>3 DEF ReadMsg, StateInv
  <2> QED BY <1>4, <2>8, <2>9, Zenon DEF ReadMsg, connVars, callVars, StateInv
<1>5. ASSUME NEW e \in Ends, CloseRuns(e) PROVE StateInv'
  BY <1>5, Zenon DEF CloseRuns, callVars, readVars, StateInv
<1>6. CASE InitSignal
  <2>1. "server" \in Ends /\ nextId["server"] + 2 \in Nat /\ nextId' \in [Ends -> Nat]
    BY <1>6 DEF InitSignal, StateInv, Ends
  <2>2. Frame("ready", nextId["server"] + 2, Nobody) \in FrameSet
    BY <2>1, Zenon DEF Frame, FrameSet
  <2>3. net' \in [Ends -> Seq(FrameSet)]
    BY <1>6, <2>1, <2>2, SentFrames, Zenon DEF InitSignal, StateInv
  <2> QED BY <1>6, <2>1, <2>3, Zenon DEF InitSignal, readVars, StateInv
<1>7. CASE ReadReady
  <2>1. net["client"] # <<>> /\ "client" \in Ends /\ net \in [Ends -> Seq(FrameSet)]
    BY <1>7, Zenon DEF ReadReady, Reads, StateInv, Ends
  <2>2. net' \in [Ends -> Seq(FrameSet)]
    BY <1>7, <2>1, PopFrames, Zenon DEF ReadReady, Pop
  <2> QED BY <1>7, <2>2, Zenon DEF ReadReady, connVars, callVars, StateInv
<1>8. ASSUME NEW e \in Ends, Down(e) PROVE StateInv'
  <2>1. net' \in [Ends -> Seq(FrameSet)]
    BY <1>8, EmptySeq, Zenon DEF Down, StateInv
  <2> QED BY <1>8, <2>1, Zenon DEF Down, callVars, readVars, StateInv
<1>9. ASSUME NEW c \in Calls, Register(c) PROVE StateInv'
  <2>1. endOf[c] \in Ends
    BY CallsAssumption, Zenon
  <2>2. nextId' \in [Ends -> Nat] /\ id' \in [Calls -> Nat]
    BY <1>9, <2>1 DEF Register, TakeId, StateInv
  <2>3. acks' \in [Ends -> SUBSET [id : Nat, call : Calls]]
    BY <1>9, <2>1 DEF Register, StateInv
  <2> QED BY <1>9, <2>2, <2>3, Zenon DEF Register, connVars, readVars, StateInv
<1>10. ASSUME NEW c \in Calls, WaitConnFails(c) PROVE StateInv'
  <2>1. "expired" \in Hows /\ Return(c, "expired", Nobody)
    BY <1>10, Zenon DEF WaitConnFails, Hows
  <2>2. /\ pc' \in [Calls -> {"idle", "write", "wait", "done"}]
        /\ result' \in [Calls -> [how : Hows, of : Calls \cup {Nobody}]]
    BY <2>1, Returns, Zenon
  <2>3. Release(c) \in [Ends -> SUBSET [id : Nat, call : Calls]]
    BY CallsAssumption, Zenon DEF Release, StateInv
  <2> QED BY <1>10, <2>2, <2>3, Zenon DEF WaitConnFails, connVars, readVars, StateInv
<1>11. ASSUME NEW c \in Calls, Write(c) PROVE StateInv'
  <2>1. endOf[c] \in Ends /\ id[c] \in Nat
    BY CallsAssumption, Zenon DEF StateInv
  <2>2. Frame("msg", id[c], c) \in FrameSet
    BY <2>1, Zenon DEF Frame, FrameSet
  <2>3. net' \in [Ends -> Seq(FrameSet)]
    <3>1. net \in [Ends -> Seq(FrameSet)] /\ net' \in {net, Sent(endOf[c], Frame("msg", id[c], c))}
      BY <1>11, Zenon DEF Write, StateInv
    <3>2. Sent(endOf[c], Frame("msg", id[c], c)) \in [Ends -> Seq(FrameSet)]
      BY <2>1, <2>2, <3>1, SentFrames, Zenon
    <3> QED BY <3>1, <3>2, Zenon
  <2>4. acks' \in [Ends -> SUBSET [id : Nat, call : Calls]]
    BY <1>11, <2>1 DEF Write, Release, StateInv
  <2>5. /\ pc' \in [Calls -> {"idle", "write", "wait", "done"}]
        /\ result' \in [Calls -> [how : Hows, of : Calls \cup {Nobody}]]
    <3>1. CASE pc' = [pc EXCEPT ![c] = "wait"] /\ UNCHANGED result
      BY <3>1, Zenon DEF StateInv
    <3>2. CASE Return(c, "ok", Nobody)
      BY <3>2, Returns, Zenon DEF Hows
    <3>3. CASE Return(c, "unsent", Nobody)
      BY <3>3, Returns, Zenon DEF Hows
    <3> QED BY <1>11, <3>1, <3>2, <3>3, Zenon DEF Write
  <2> QED BY <1>11, <2>3, <2>4, <2>5, Zenon DEF Write, connVars, readVars, StateInv
<1>12. ASSUME NEW c \in Calls, CtxDone(c) PROVE StateInv'
  <2>1. "expired" \in Hows /\ Return(c, "expired", Nobody)
    BY <1>12, Zenon DEF CtxDone, Hows
  <2>2. /\ pc' \in [Calls -> {"idle", "write", "wait", "done"}]
        /\ result' \in [Calls -> [how : Hows, of : Calls \cup {Nobody}]]
    BY <2>1, Returns, Zenon
  <2>3. Release(c) \in [Ends -> SUBSET [id : Nat, call : Calls]]
    BY CallsAssumption, Zenon DEF Release, StateInv
  <2> QED BY <1>12, <2>2, <2>3, Zenon DEF CtxDone, connVars, readVars, StateInv
<1>13. ASSUME NEW c \in Calls, CloseSeen(c) PROVE StateInv'
  <2>1. "closed" \in Hows /\ Return(c, "closed", Nobody)
    BY <1>13, Zenon DEF CloseSeen, Hows
  <2>2. /\ pc' \in [Calls -> {"idle", "write", "wait", "done"}]
        /\ result' \in [Calls -> [how : Hows, of : Calls \cup {Nobody}]]
    BY <2>1, Returns, Zenon
  <2>3. Release(c) \in [Ends -> SUBSET [id : Nat, call : Calls]]
    BY CallsAssumption, Zenon DEF Release, StateInv
  <2> QED BY <1>13, <2>2, <2>3, Zenon DEF CloseSeen, connVars, readVars, StateInv
<1>14. ASSUME NEW c \in Calls, Expire(c) PROVE StateInv'
  BY <1>14, Zenon DEF Expire, connVars, readVars, StateInv
<1>15. ASSUME NEW o \in oweAck, LateAck(o) PROVE StateInv'
  <2>1. o.at \in Ends /\ o.id \in Nat /\ o.of \in Calls
    BY Zenon DEF StateInv
  <2>2. \A how \in {"ok", "refused"} : Frame(how, o.id, o.of) \in FrameSet
    BY <2>1, Zenon DEF Frame, FrameSet
  <2>3. net' \in [Ends -> Seq(FrameSet)]
    BY <1>15, <2>1, <2>2, SentFrames DEF LateAck, StateInv
  <2> QED BY <1>15, <2>3, Zenon DEF LateAck, connVars, callVars, StateInv
<1>16. CASE UNCHANGED vars
  BY <1>16, Zenon DEF vars, StateInv
<1> QED BY <1>1, <1>2, <1>3, <1>4, <1>5, <1>6, <1>7, <1>8, <1>9, <1>10, <1>11, <1>12, <1>13, <1>14, <1>15, <1>16, Zenon
    DEF Next, ReaderStep, Hangup, CallStep
-----------------------------------------------------------------------------
(***************************************************************************)
(* next_msg_id only grows, and what is new in acks has an id that was not  *)
(* taken before.                                                           *)
(***************************************************************************)
Grows ==
  \A e \in Ends : /\ nextId[e] <= nextId'[e]
                  /\ \A a \in acks'[e] : a \in acks[e] \/ (a.id > nextId[e] /\ a.id <= nextId'[e])

\* An id stays with its call.
LEMMA OwnsKept ==
  ASSUME StateInv, StateInv', Grows, NEW e \in Ends, NEW i \in Nat, NEW c, Owns(e, i, c)
  PROVE  Owns(e, i, c)'
<1>1. nextId[e] \in Nat /\ nextId'[e] \in Nat /\ \A a \in acks'[e] : a.id \in Nat
  BY DEF StateInv
<1>2. nextId[e] <= nextId'[e] /\ \A a \in acks'[e] : a \in acks[e] \/ a.id > nextId[e]
  BY Zenon DEF Grows
<1>3. c \in Calls /\ endOf[c] = e /\ i <= nextId[e] /\ \A a \in acks[e] : a.id = i => a.call = c
  BY Zenon DEF Owns
<1>4. i <= nextId'[e]
  BY <1>1, <1>2, <1>3
<1>5. \A a \in acks'[e] : a.id = i => a.call = c
  BY <1>1, <1>2, <1>3
<1> QED BY <1>3, <1>4, <1>5, Zenon DEF Owns

\* What a frame on its way stands for stays true.
LEMMA FrameKept ==
  ASSUME StateInv, StateInv', Grows, initDone => initDone',
         NEW e \in Ends, NEW f \in FrameSet, FrameInv(e, f)
  PROVE  FrameInv(e, f)'
<1>1. f.id \in Nat /\ Peer(e) \in Ends
  BY Peers, Zenon DEF FrameSet
<1>2. f.kind = "msg" => Owns(Peer(e), f.id, f.of)' /\ Prepared(f.of)'
  BY <1>1, OwnsKept, Zenon DEF FrameInv, Prepared
<1>3. f.kind \in {"ok", "refused"} => Owns(e, f.id, f.of)'
  BY <1>1, OwnsKept, Zenon DEF FrameInv
<1> QED BY <1>2, <1>3, Zenon DEF FrameInv

(***************************************************************************)
(* A step keeps the ids in order when what it adds, a frame, an owed ack,  *)
(* an attempt, an ack being handed over or an entry, is in order.          *)
(***************************************************************************)
LEMMA IdKept ==
  ASSUME StateInv, StateInv', IdInv, Grows, initDone => initDone', ready' => initDone',
         \A e \in Ends : \A f \in Frames(net'[e]) : f \in Frames(net[e]) \/ FrameInv(e, f)',
         \A o \in oweAck' : o \in oweAck \/ Owns(Peer(o.at), o.id, o.of)',
         \A c \in Calls : pc'[c] \in {"write", "wait"} =>
           \/ pc[c] \in {"write", "wait"} /\ id'[c] = id[c]
           \/ Owns(endOf[c], id[c], c)' /\ Prepared(c)',
         \A e \in Ends : giving'[e].call # Nobody =>
           \/ giving'[e] = giving[e]
           \/ /\ giving'[e].of = giving'[e].call /\ endOf[giving'[e].call] = e
              /\ giving'[e].id <= nextId'[e] /\ \A a \in acks'[e] : a.id # giving'[e].id,
         \A e \in Ends : \A a \in acks'[e] : a \in acks[e] \/ (a.call \in needAck /\ endOf[a.call] = e)
  PROVE  IdInv'
<1>1. \A e \in Ends : nextId[e] \in Nat /\ nextId'[e] \in Nat /\ nextId[e] <= nextId'[e]
  BY DEF StateInv, Grows
<1>2. ASSUME NEW e \in Ends, NEW f \in Frames(net'[e]) PROVE FrameInv(e, f)'
  <2>1. CASE f \in Frames(net[e])
    <3>1. f \in FrameSet
      BY <2>1, ElementOfSeq DEF StateInv, Frames
    <3> QED BY <2>1, <3>1, FrameKept, Zenon DEF IdInv
  <2> QED BY <2>1, Zenon
<1>3. ASSUME NEW o \in oweAck' PROVE Owns(Peer(o.at), o.id, o.of)'
  <2>1. CASE o \in oweAck
    <3>1. o.at \in Ends /\ o.id \in Nat
      BY <2>1, Zenon DEF StateInv
    <3>2. Peer(o.at) \in Ends /\ Owns(Peer(o.at), o.id, o.of)
      BY <2>1, <3>1, Peers, Zenon DEF IdInv
    <3> QED BY <3>1, <3>2, OwnsKept, Zenon
  <2> QED BY <2>1, Zenon
<1>4. ASSUME NEW c \in Calls, pc'[c] \in {"write", "wait"}
      PROVE  Owns(endOf[c], id[c], c)' /\ Prepared(c)'
  <2>1. CASE pc[c] \in {"write", "wait"} /\ id'[c] = id[c]
    <3>1. endOf[c] \in Ends /\ id[c] \in Nat
      BY CallsAssumption DEF StateInv
    <3>2. Owns(endOf[c], id[c], c) /\ Prepared(c)
      BY <2>1, Zenon DEF IdInv
    <3>3. Owns(endOf[c], id[c], c)'
      <4>1. PICK i \in Nat : i = id[c] /\ id'[c] = i
        BY <2>1, <3>1, Zenon
      <4>2. Owns(endOf[c], i, c)'
        BY <3>1, <3>2, <4>1, OwnsKept
      <4> QED BY <4>1, <4>2, Zenon
    <3>4. Prepared(c)'
      BY <3>2, Zenon DEF Prepared
    <3> QED BY <2>1, <3>3, <3>4, Zenon
  <2> QED BY <1>4, <2>1, Zenon
<1>5. ASSUME NEW e \in Ends, giving'[e].call # Nobody
      PROVE  /\ giving'[e].of = giving'[e].call /\ endOf[giving'[e].call] = e
             /\ giving'[e].id <= nextId'[e] /\ \A a \in acks'[e] : a.id # giving'[e].id
  <2>1. CASE giving'[e] = giving[e]
    <3>1. /\ giving[e].of = giving[e].call /\ endOf[giving[e].call] = e /\ giving[e].id <= nextId[e]
          /\ \A a \in acks[e] : a.id # giving[e].id
      BY <1>5, <2>1 DEF IdInv
    <3>2. giving[e].id \in Nat /\ \A a \in acks'[e] : a.id \in Nat
      <4>1. giving[e].id \in Nat
        BY Zenon DEF StateInv
      <4>2. \A a \in acks'[e] : a.id \in Nat
        BY DEF StateInv
      <4> QED BY <4>1, <4>2, Zenon
    <3>3. \A a \in acks'[e] : a \in acks[e] \/ a.id > nextId[e]
      BY Zenon DEF Grows
    <3>4. \A a \in acks'[e] : a.id # giving[e].id
      BY <1>1, <3>1, <3>2, <3>3
    <3> QED BY <1>1, <2>1, <3>1, <3>2, <3>4
  <2> QED BY <1>5, <2>1, Zenon
<1>6. ASSUME NEW e \in Ends, NEW a \in acks'[e]
      PROVE  a.call \in needAck /\ endOf[a.call] = e /\ a.id <= nextId'[e]
  <2>1. CASE a \in acks[e]
    <3>1. a.call \in needAck /\ endOf[a.call] = e /\ a.id <= nextId[e]
      BY <2>1, Zenon DEF IdInv
    <3>2. a.id \in Nat
      BY DEF StateInv
    <3> QED BY <1>1, <3>1, <3>2
  <2>2. CASE a \notin acks[e]
    BY <2>2, Zenon DEF Grows
  <2> QED BY <2>1, <2>2, Zenon
<1> QED BY <1>2, <1>3, <1>4, <1>5, <1>6, Zenon DEF IdInv

\* A step that takes no id and adds no entry.
LEMMA Shrinks ==
  ASSUME StateInv, UNCHANGED nextId, \A e \in Ends : acks'[e] \subseteq acks[e]
  PROVE  Grows
BY DEF StateInv, Grows

\* Everything that carries an id goes on carrying the call that took it.
LEMMA IdStep == StateInv /\ StateInv' /\ IdInv /\ [Next]_vars => IdInv'
<1> SUFFICES ASSUME StateInv, StateInv', IdInv, [Next]_vars PROVE IdInv'
  BY Zenon
<1>0. ready => initDone
  BY Zenon DEF IdInv
<1>1. ASSUME NEW e \in Ends, Open(e) PROVE IdInv'
  BY <1>0, <1>1, Shrinks, IdKept, Zenon DEF Open, callVars, readVars
<1>2. ASSUME NEW e \in Ends, Handover(e) PROVE IdInv'
  <2>1. Grows
    BY <1>2, Shrinks, Zenon DEF Handover
  <2>2. PICK g : g = giving[e]
    BY Zenon
  <2>3. g.call \in Calls /\ g.how \in Hows /\ g.of \in Calls \cup {Nobody} /\ Return(g.call, g.how, g.of)
    BY <1>2, <2>2, Zenon DEF Handover, StateInv, Hows
  <2>4. \A c \in Calls : pc'[c] \in {"write", "wait"} => pc[c] \in {"write", "wait"}
    BY <2>3, Returns, Zenon
  <2>5. \A x \in Ends : giving'[x].call # Nobody => giving'[x] = giving[x]
    BY <1>2 DEF Handover, StateInv, Idle
  <2>6. UNCHANGED <<initDone, ready, net, oweAck, id, acks>>
    BY <1>2, Zenon DEF Handover, connVars
  <2> QED BY <2>1, <2>4, <2>5, <2>6, IdKept, Zenon DEF IdInv
<1>3. ASSUME NEW e \in Ends, ReadAck(e) PROVE IdInv'
  <2>1. net[e] # <<>> /\ net[e] \in Seq(FrameSet) /\ net \in [Ends -> Seq(FrameSet)]
    BY <1>3, Zenon DEF ReadAck, Reads, StateInv
  <2>2. PICK f \in FrameSet : f = Head(net[e]) /\ f.kind \in {"ok", "refused"} /\ f \in Frames(net[e])
    BY <1>3, <2>1, FramesTail, Zenon DEF ReadAck, Reads
  <2>3. \A x \in Ends : Frames(net'[x]) \subseteq Frames(net[x])
    BY <1>3, <2>1, PopFrames, Zenon DEF ReadAck, Pop
  <2> DEFINE entry == {a \in acks[e] : a.id = f.id}
             given == IF entry = {} THEN Idle
                      ELSE [call |-> (CHOOSE a \in entry : TRUE).call, id |-> f.id, how |-> f.kind, of |-> f.of]
  <2>4. acks' = [acks EXCEPT ![e] = @ \ entry] /\ giving' = [giving EXCEPT ![e] = given]
    BY <1>3, <2>2, Zenon DEF ReadAck
  <2>5. \A x \in Ends : acks'[x] = IF x = e THEN acks[e] \ entry ELSE acks[x]
    BY <2>4, Zenon DEF StateInv
  <2>6. UNCHANGED <<initDone, ready, oweAck, pc, id, nextId>>
    BY <1>3, Zenon DEF ReadAck, connVars
  <2>7. Grows
    BY <2>5, <2>6, Shrinks, Zenon
  <2>8. Owns(e, f.id, f.of)
    BY <2>2, Zenon DEF IdInv, FrameInv
  <2>9. given.call # Nobody => /\ given.of = given.call /\ endOf[given.call] = e /\ given.id = f.id
    <3>1. CASE entry = {}
      BY <3>1, Zenon DEF Idle
    <3>2. CASE entry # {}
      <4>1. (CHOOSE a \in entry : TRUE) \in entry
        BY <3>2, Zenon
      <4>2. (CHOOSE a \in entry : TRUE).call = f.of
        BY <4>1, <2>8, Zenon DEF Owns
      <4>3. endOf[f.of] = e
        BY <2>8, Zenon DEF Owns
      <4> QED BY <3>2, <4>2, <4>3, Zenon
    <3> QED BY <3>1, <3>2, Zenon
  <2>10. \A a \in acks'[e] : a.id # f.id
    BY <2>5, Zenon
  <2>11. f.id <= nextId'[e]
    BY <2>6, <2>8, Zenon DEF Owns
  <2> HIDE DEF entry, given
  <2>12. \A x \in Ends : giving'[x] = IF x = e THEN given ELSE giving[x]
    BY <2>4, Zenon DEF StateInv
  <2>13. \A x \in Ends : acks'[x] \subseteq acks[x]
    BY <2>5, Zenon
  <2>14. \A x \in Ends : giving'[x].call # Nobody =>
           \/ giving'[x] = giving[x]
           \/ /\ giving'[x].of = giving'[x].call /\ endOf[giving'[x].call] = x
              /\ giving'[x].id <= nextId'[x] /\ \A a \in acks'[x] : a.id # giving'[x].id
    BY <2>9, <2>10, <2>11, <2>12, Zenon
  <2> QED BY <2>3, <2>6, <2>7, <2>13, <2>14, IdKept, Zenon DEF IdInv
<1>4. ASSUME NEW e \in Ends, ReadMsg(e) PROVE IdInv'
  <2>1. net[e] # <<>> /\ net[e] \in Seq(FrameSet) /\ net \in [Ends -> Seq(FrameSet)]
    BY <1>4, Zenon DEF ReadMsg, Reads, StateInv
  <2>2. PICK f \in FrameSet : f = Head(net[e]) /\ f.kind = "msg" /\ f \in Frames(net[e])
    BY <1>4, <2>1, FramesTail, Zenon DEF ReadMsg, Reads
  <2>3. Owns(Peer(e), f.id, f.of) /\ f.of \in Calls /\ f.id \in Nat
    BY <2>2 DEF IdInv, FrameInv, Owns, FrameSet
  <2>4. UNCHANGED <<initDone, ready, giving, pc, id, nextId, acks>>
    BY <1>4, Zenon DEF ReadMsg, connVars, callVars
  <2>5. Grows
    BY <2>4, Shrinks, Zenon
  <2>6. Owns(Peer(e), f.id, f.of)'
    BY <2>3, <2>5, OwnsKept, Peers, Zenon
  <2>7. \A x \in Ends : Frames(Pop(e)[x]) \subseteq Frames(net[x])
    BY <2>1, PopFrames, Zenon DEF Pop
  <2>8. ASSUME NEW how \in {"ok", "refused"}, net' = [Sent(e, Frame(how, f.id, f.of)) EXCEPT ![e] = Tail(@)]
        PROVE  \A x \in Ends : \A g \in Frames(net'[x]) : g \in Frames(net[x]) \/ FrameInv(x, g)'
    <3> DEFINE h == Frame(how, f.id, f.of)
    <3>1. h \in FrameSet /\ h.kind = how /\ h.id = f.id /\ h.of = f.of
      BY <2>3, Zenon DEF Frame, FrameSet
    <3>2. FrameInv(Peer(e), h)'
      BY <3>1, <2>6, Zenon DEF FrameInv
    <3> HIDE DEF h
    <3>3. /\ Sent(e, h) \in [Ends -> Seq(FrameSet)] /\ Sent(e, h)[e] = net[e]
          /\ \A x \in Ends : \A g \in Frames(Sent(e, h)[x]) : g \in Frames(net[x]) \/ (x = Peer(e) /\ g = h)
      BY <3>1, <2>1, SentFrames, Zenon
    <3>4. \A x \in Ends : Frames(net'[x]) \subseteq Frames(Sent(e, h)[x])
      BY <2>1, <2>8, <3>3, PopFrames, Zenon DEF h
    <3> QED BY <3>2, <3>3, <3>4, Zenon
  <2>9. \A x \in Ends : \A g \in Frames(net'[x]) : g \in Frames(net[x]) \/ FrameInv(x, g)'
    BY <1>4, <2>2, <2>7, <2>8, Zenon DEF ReadMsg
  <2>10. \A o \in oweAck' : o \in oweAck \/ Owns(Peer(o.at), o.id, o.of)'
    <3>1. oweAck' \subseteq oweAck \cup {[at |-> e, id |-> f.id, of |-> f.of]}
      BY <1>4, <2>2, Zenon DEF ReadMsg
    <3> QED BY <3>1, <2>6
  <2> QED BY <2>4, <2>5, <2>9, <2>10, IdKept, Zenon DEF IdInv
<1>5. ASSUME NEW e \in Ends, CloseRuns(e) PROVE IdInv'
  BY <1>0, <1>5, Shrinks, IdKept, Zenon DEF CloseRuns, callVars, readVars
<1>6. CASE InitSignal
  <2>1. nextId \in [Ends -> Nat] /\ net \in [Ends -> Seq(FrameSet)]
    BY Zenon DEF StateInv
  <2>2. "server" \in Ends /\ nextId["server"] + 2 \in Nat
    BY <2>1 DEF Ends
  <2>3. PICK f \in FrameSet : f = Frame("ready", nextId["server"] + 2, Nobody) /\ f.kind = "ready"
    <3>1. Frame("ready", nextId["server"] + 2, Nobody) \in FrameSet
      BY <2>2, Zenon DEF Frame, FrameSet
    <3>2. Frame("ready", nextId["server"] + 2, Nobody).kind = "ready"
      BY Zenon DEF Frame
    <3> QED BY <3>1, <3>2, Zenon
  <2>4. initDone' = TRUE /\ UNCHANGED <<acks, pc, id, ready, giving, oweAck>>
    BY <1>6, Zenon DEF InitSignal, readVars
  <2>5. \A e \in Ends : nextId'[e] = IF e = "server" THEN nextId["server"] + 2 ELSE nextId[e]
    BY <1>6, <2>1, Zenon DEF InitSignal
  <2>6. Grows
    BY <2>1, <2>4, <2>5 DEF Grows
  <2>7. \A x \in Ends : FrameInv(x, f)'
    BY <2>3, <2>4, Zenon DEF FrameInv
  <2>8. net' \in {net, Sent("server", f)}
    BY <1>6, <2>3, Zenon DEF InitSignal
  <2>9. \A x \in Ends : \A g \in Frames(Sent("server", f)[x]) : g \in Frames(net[x]) \/ g = f
    BY <2>1, <2>2, SentFrames
  <2>10. \A x \in Ends : \A g \in Frames(net'[x]) : g \in Frames(net[x]) \/ FrameInv(x, g)'
    BY <2>7, <2>8, <2>9, Zenon
  <2> QED BY <2>4, <2>6, <2>10, IdKept, Zenon
<1>7. CASE ReadReady
  <2>1. net["client"] # <<>> /\ "client" \in Ends /\ net \in [Ends -> Seq(FrameSet)]
    BY <1>7, Zenon DEF ReadReady, Reads, StateInv, Ends
  <2>2. Head(net["client"]) \in Frames(net["client"]) /\ Head(net["client"]).kind = "ready"
    BY <1>7, <2>1, FramesTail, Zenon DEF ReadReady, Reads
  <2>3. initDone
    BY <2>1, <2>2 DEF IdInv, FrameInv
  <2>4. \A x \in Ends : Frames(net'[x]) \subseteq Frames(net[x])
    BY <1>7, <2>1, PopFrames, Zenon DEF ReadReady, Pop
  <2>5. UNCHANGED <<initDone, acks, pc, id, giving, oweAck, nextId>>
    BY <1>7, Zenon DEF ReadReady, connVars, callVars
  <2>6. Grows
    BY <2>5, Shrinks, Zenon
  <2> QED BY <2>3, <2>4, <2>5, <2>6, IdKept, Zenon
<1>8. ASSUME NEW e \in Ends, Down(e) PROVE IdInv'
  <2>1. \A x \in Ends : Frames(net'[x]) \subseteq Frames(net[x])
    BY <1>8 DEF Down, Frames, StateInv
  <2>2. UNCHANGED <<initDone, ready, acks, pc, id, giving, oweAck, nextId>>
    BY <1>8, Zenon DEF Down, callVars, readVars
  <2>3. Grows
    BY <2>2, Shrinks, Zenon
  <2> QED BY <2>1, <2>2, <2>3, IdKept, Zenon DEF IdInv
<1>9. ASSUME NEW c \in Calls, Register(c) PROVE IdInv'
  <2>1. PICK e \in Ends : e = endOf[c]
    BY CallsAssumption, Zenon
  <2>2. nextId[e] \in Nat /\ nextId' = [nextId EXCEPT ![e] = nextId[e] + 2] /\ id' = [id EXCEPT ![c] = nextId[e] + 2]
    BY <1>9, <2>1, Zenon DEF Register, TakeId, StateInv
  <2>3. \A x \in Ends : nextId'[x] = IF x = e THEN nextId[e] + 2 ELSE nextId[x]
    BY <2>2, Zenon DEF StateInv
  <2>4. \A x \in Ends : \A a \in acks'[x] :
          a \in acks[x] \/ (x = e /\ a.id = nextId[e] + 2 /\ a.call = c /\ c \in needAck)
    BY <1>9, <2>1 DEF Register, StateInv
  <2>5. Grows
    BY <2>2, <2>3, <2>4 DEF Grows, StateInv
  <2>6. UNCHANGED <<initDone, ready, net, giving, oweAck>>
    BY <1>9, Zenon DEF Register, connVars, readVars
  <2>7. \A a \in acks[e] : a.id <= nextId[e] /\ a.id \in Nat
    BY DEF IdInv, StateInv
  <2>8. \A a \in acks'[e] : a.id = nextId[e] + 2 => a.call = c
    BY <2>2, <2>4, <2>7
  <2>9. id'[c] = nextId[e] + 2 /\ nextId'[e] = nextId[e] + 2 /\ \A d \in Calls \ {c} : id'[d] = id[d]
    BY <2>2, <2>3, Zenon DEF StateInv
  <2>10. Owns(endOf[c], id[c], c)'
    BY <2>1, <2>2, <2>8, <2>9 DEF Owns
  <2>11. Prepared(c)'
    BY <1>9, <2>6, Zenon DEF Register, Access, Prepared, IdInv
  <2>12. \A d \in Calls \ {c} : pc'[d] = pc[d]
    BY <1>9, Zenon DEF Register, StateInv
  <2>13. \A x \in Ends : \A a \in acks'[x] : a \in acks[x] \/ (a.call \in needAck /\ endOf[a.call] = x)
    BY <2>1, <2>4, Zenon
  <2>14. \A d \in Calls : pc'[d] \in {"write", "wait"} =>
           \/ pc[d] \in {"write", "wait"} /\ id'[d] = id[d]
           \/ Owns(endOf[d], id[d], d)' /\ Prepared(d)'
    BY <2>9, <2>10, <2>11, <2>12, Zenon
  <2> QED BY <2>5, <2>6, <2>13, <2>14, IdKept, Zenon DEF IdInv
<1>10. ASSUME NEW c \in Calls, WaitConnFails(c) PROVE IdInv'
  <2>1. "expired" \in Hows /\ Return(c, "expired", Nobody)
    BY <1>10, Zenon DEF WaitConnFails, Hows
  <2>2. \A d \in Calls : pc'[d] \in {"write", "wait"} => pc[d] \in {"write", "wait"}
    BY <2>1, Returns, Zenon
  <2>3. UNCHANGED <<initDone, ready, id, giving, oweAck, nextId, net>> /\ \A x \in Ends : acks'[x] \subseteq acks[x]
    BY <1>10, CallsAssumption, Zenon DEF WaitConnFails, Release, connVars, readVars, StateInv
  <2>4. Grows
    BY <2>3, Shrinks, Zenon
  <2> QED BY <2>2, <2>3, <2>4, IdKept, Zenon DEF IdInv
<1>11. ASSUME NEW c \in Calls, Write(c) PROVE IdInv'
  <2> DEFINE f == Frame("msg", id[c], c)
  <2>1. endOf[c] \in Ends /\ id[c] \in Nat /\ Peer(Peer(endOf[c])) = endOf[c]
    BY CallsAssumption, Peers, Zenon DEF StateInv
  <2>2. f \in FrameSet /\ f.kind = "msg" /\ f.id = id[c] /\ f.of = c
    BY <2>1, Zenon DEF Frame, FrameSet
  <2>3. UNCHANGED <<initDone, ready, id, giving, oweAck, nextId>> /\ \A x \in Ends : acks'[x] \subseteq acks[x]
    <3>1. UNCHANGED <<initDone, ready, id, giving, oweAck, nextId>>
      BY <1>11, Zenon DEF Write, connVars, readVars
    <3>2. acks' \in {acks, Release(c)} /\ acks \in [Ends -> SUBSET [id : Nat, call : Calls]]
      BY <1>11, Zenon DEF Write, StateInv
    <3>3. \A x \in Ends : Release(c)[x] \subseteq acks[x]
      BY <3>2, <2>1, Zenon DEF Release
    <3> QED BY <3>1, <3>2, <3>3, Zenon
  <2>4. Grows
    BY <2>3, Shrinks, Zenon
  <2>5. Owns(endOf[c], id[c], c) /\ Prepared(c)
    BY <1>11, Zenon DEF Write, IdInv
  <2>6. PICK i \in Nat : i = id[c] /\ id'[c] = i
    BY <2>1, <2>3, Zenon
  <2>7. FrameInv(Peer(endOf[c]), f)'
    <3>1. Owns(endOf[c], i, c)'
      BY <2>1, <2>4, <2>5, <2>6, OwnsKept, Zenon
    <3>2. f' = f
      BY <2>3, Zenon DEF Frame
    <3>3. Prepared(c)'
      BY <2>3, <2>5, Zenon DEF Prepared
    <3> QED BY <2>1, <2>2, <2>6, <3>1, <3>2, <3>3, Zenon DEF FrameInv
  <2>8. net' \in {net, Sent(endOf[c], f)} /\ net \in [Ends -> Seq(FrameSet)]
    BY <1>11, Zenon DEF Write, StateInv
  <2>9. f' = f
    BY <2>3, Zenon DEF Frame
  <2> HIDE DEF f
  <2>10. \A x \in Ends : \A g \in Frames(Sent(endOf[c], f)[x]) : g \in Frames(net[x]) \/ (x = Peer(endOf[c]) /\ g = f)
    BY <2>1, <2>2, <2>8, SentFrames
  <2>11. \A x \in Ends : \A g \in Frames(net'[x]) : g \in Frames(net[x]) \/ FrameInv(x, g)'
    BY <2>7, <2>8, <2>9, <2>10, Zenon
  <2>12. \A d \in Calls : pc'[d] \in {"write", "wait"} => pc[d] \in {"write", "wait"}
    <3>1. CASE pc' = [pc EXCEPT ![c] = "wait"]
      BY <1>11, <3>1, Zenon DEF Write, StateInv
    <3>2. CASE Return(c, "ok", Nobody)
      BY <3>2, Returns, Zenon DEF Hows
    <3>3. CASE Return(c, "unsent", Nobody)
      BY <3>3, Returns, Zenon DEF Hows
    <3> QED BY <1>11, <3>1, <3>2, <3>3, Zenon DEF Write
  <2> QED BY <2>3, <2>4, <2>11, <2>12, IdKept, Zenon DEF IdInv
<1>12. ASSUME NEW c \in Calls, CtxDone(c) PROVE IdInv'
  <2>1. "expired" \in Hows /\ Return(c, "expired", Nobody)
    BY <1>12, Zenon DEF CtxDone, Hows
  <2>2. \A d \in Calls : pc'[d] \in {"write", "wait"} => pc[d] \in {"write", "wait"}
    BY <2>1, Returns, Zenon
  <2>3. UNCHANGED <<initDone, ready, id, giving, oweAck, nextId, net>> /\ \A x \in Ends : acks'[x] \subseteq acks[x]
    BY <1>12, CallsAssumption, Zenon DEF CtxDone, Release, connVars, readVars, StateInv
  <2>4. Grows
    BY <2>3, Shrinks, Zenon
  <2> QED BY <2>2, <2>3, <2>4, IdKept, Zenon DEF IdInv
<1>13. ASSUME NEW c \in Calls, CloseSeen(c) PROVE IdInv'
  <2>1. "closed" \in Hows /\ Return(c, "closed", Nobody)
    BY <1>13, Zenon DEF CloseSeen, Hows
  <2>2. \A d \in Calls : pc'[d] \in {"write", "wait"} => pc[d] \in {"write", "wait"}
    BY <2>1, Returns, Zenon
  <2>3. UNCHANGED <<initDone, ready, id, giving, oweAck, nextId, net>> /\ \A x \in Ends : acks'[x] \subseteq acks[x]
    BY <1>13, CallsAssumption, Zenon DEF CloseSeen, Release, connVars, readVars, StateInv
  <2>4. Grows
    BY <2>3, Shrinks, Zenon
  <2> QED BY <2>2, <2>3, <2>4, IdKept, Zenon DEF IdInv
<1>14. ASSUME NEW c \in Calls, Expire(c) PROVE IdInv'
  BY <1>0, <1>14, Shrinks, IdKept, Zenon DEF Expire, connVars, readVars
<1>15. ASSUME NEW o \in oweAck, LateAck(o) PROVE IdInv'
  <2>1. o.at \in Ends /\ o.id \in Nat /\ o.of \in Calls /\ Peer(o.at) \in Ends
    BY Peers, Zenon DEF StateInv
  <2>2. UNCHANGED <<initDone, ready, id, giving, pc, nextId, acks>> /\ oweAck' \subseteq oweAck
    BY <1>15, Zenon DEF LateAck, connVars, callVars
  <2>3. Grows
    BY <2>2, Shrinks, Zenon
  <2>4. Owns(Peer(o.at), o.id, o.of)'
    BY <2>1, <2>3, OwnsKept, Zenon DEF IdInv
  <2>5. PICK how \in {"ok", "refused"} : net' \in {net, Sent(o.at, Frame(how, o.id, o.of))}
    BY <1>15, Zenon DEF LateAck
  <2>6. PICK f \in FrameSet : f = Frame(how, o.id, o.of) /\ f.kind = how /\ f.id = o.id /\ f.of = o.of
    <3>1. Frame(how, o.id, o.of) \in FrameSet
      BY <2>1, Zenon DEF Frame, FrameSet
    <3> QED BY <3>1, Zenon DEF Frame
  <2>7. PICK e \in Ends : e = o.at
    BY <2>1, Zenon
  <2>8. FrameInv(Peer(e), f)'
    BY <2>4, <2>6, <2>7, Zenon DEF FrameInv
  <2>9. net' \in {net, Sent(e, f)} /\ net \in [Ends -> Seq(FrameSet)]
    BY <2>5, <2>6, <2>7, Zenon DEF StateInv
  <2>10. \A x \in Ends : \A g \in Frames(Sent(e, f)[x]) : g \in Frames(net[x]) \/ (x = Peer(e) /\ g = f)
    BY <2>9, SentFrames
  <2>11. \A x \in Ends : \A g \in Frames(net'[x]) : g \in Frames(net[x]) \/ FrameInv(x, g)'
    BY <2>8, <2>9, <2>10, Zenon
  <2> QED BY <2>2, <2>3, <2>11, IdKept, Zenon DEF IdInv
<1>16. CASE UNCHANGED vars
  BY <1>0, <1>16, Shrinks, IdKept, Zenon DEF vars
<1> QED BY <1>1, <1>2, <1>3, <1>4, <1>5, <1>6, <1>7, <1>8, <1>9, <1>10, <1>11, <1>12, <1>13, <1>14, <1>15, <1>16, Zenon
    DEF Next, ReaderStep, Hangup, CallStep

\* A result is the answer a reader handed over for the call itself.
LEMMA AnswerStep == StateInv /\ IdInv /\ AnswerIsOwn /\ [Next]_vars => AnswerIsOwn'
<1> SUFFICES ASSUME StateInv, IdInv, AnswerIsOwn, [Next]_vars PROVE AnswerIsOwn'
  BY Zenon
<1>1. ASSUME NEW c \in Calls, NEW how \in Hows, NEW of \in {c, Nobody}, Return(c, how, of)
      PROVE  AnswerIsOwn'
  <2>1. \A d \in Calls : d # c => result'[d] = result[d]
    BY <1>1, Returns
  <2>2. result'[c] = result[c] \/ (result'[c].how = how /\ result'[c].of = of)
    BY <1>1, Returns, Zenon
  <2> QED BY <2>1, <2>2, Zenon DEF AnswerIsOwn
<1>2. ASSUME NEW e \in Ends, Handover(e) PROVE AnswerIsOwn'
  <2>1. PICK g : g = giving[e]
    BY Zenon
  <2>2. g.call \in Calls /\ g.how \in Hows /\ Return(g.call, g.how, g.of)
    BY <1>2, <2>1, Zenon DEF Handover, StateInv, Hows
  <2>3. g.of = g.call
    BY <1>2, <2>1, Zenon DEF Handover, IdInv
  <2> QED BY <1>1, <2>2, <2>3, Zenon
<1>3. ASSUME NEW c \in Calls, WaitConnFails(c) \/ Write(c) \/ CtxDone(c) \/ CloseSeen(c)
      PROVE  AnswerIsOwn'
  <2>1. CASE UNCHANGED result
    BY <2>1, Zenon DEF AnswerIsOwn
  <2>2. CASE \E how \in Hows : Return(c, how, Nobody)
    BY <1>1, <2>2, Zenon
  <2> QED BY <1>3, <2>1, <2>2, Zenon DEF WaitConnFails, Write, CtxDone, CloseSeen, Hows
<1>4. CASE UNCHANGED result
  BY <1>4, Zenon DEF AnswerIsOwn
<1> QED BY <1>2, <1>3, <1>4, Zenon
    DEF Next, ReaderStep, Hangup, CallStep, vars, callVars, Open, ReadAck, ReadMsg, CloseRuns,
        InitSignal, ReadReady, Down, Register, Expire, LateAck

\* A frame that meets no handler is of a call that did not wait for "ready".
LEMMA HandledStep == StateInv /\ IdInv /\ ReadyIsHandled /\ [Next]_vars => ReadyIsHandled'
<1> SUFFICES ASSUME StateInv, IdInv, ReadyIsHandled, [Next]_vars PROVE ReadyIsHandled'
  BY Zenon
<1>1. ASSUME NEW e \in Ends, ReadMsg(e) PROVE ReadyIsHandled'
  <2>1. net[e] # <<>> /\ net[e] \in Seq(FrameSet)
    BY <1>1, Zenon DEF ReadMsg, Reads, StateInv
  <2>2. PICK f \in FrameSet : f = Head(net[e]) /\ f.kind = "msg" /\ f \in Frames(net[e])
    BY <1>1, <2>1, FramesTail, Zenon DEF ReadMsg, Reads
  <2>3. endOf[f.of] = Peer(e) /\ Prepared(f.of)
    BY <2>2, Zenon DEF IdInv, FrameInv, Owns
  <2>4. ~Registered(e, f.of) => f.of \in Early \cup mute
    BY <2>3, Zenon DEF Registered, Prepared, Ends, Peer
  <2>5. lost' = lost \/ (lost' = lost \cup {f.of} /\ ~Registered(e, f.of))
    BY <1>1, <2>2, Zenon DEF ReadMsg
  <2> QED BY <2>4, <2>5, Zenon DEF ReadyIsHandled
<1>2. CASE UNCHANGED lost
  BY <1>2, Zenon DEF ReadyIsHandled
<1> QED BY <1>1, <1>2, Zenon
    DEF Next, ReaderStep, Hangup, CallStep, vars, readVars, Open, Handover, ReadAck, CloseRuns, InitSignal,
        ReadReady, Down, Register, WaitConnFails, Write, CtxDone, CloseSeen, Expire, LateAck

(***************************************************************************)
(* A call that leaves its attempt releases its entry, or the reader has    *)
(* taken it out before.                                                    *)
(***************************************************************************)
LEMMA AwaitedStep ==
  StateInv /\ CloseInv /\ IdInv /\ EntriesAreAwaited /\ [Next]_vars => EntriesAreAwaited'
<1> SUFFICES ASSUME StateInv, CloseInv, IdInv, EntriesAreAwaited, [Next]_vars PROVE EntriesAreAwaited'
  BY Zenon
<1>0. \A e \in Ends : \A a \in acks[e] : a.call \in needAck /\ a.call \in Calls /\ endOf[a.call] = e
  BY DEF IdInv, StateInv
<1>1. ASSUME NEW c \in Calls, NEW how \in Hows, NEW of \in Calls \cup {Nobody}, Return(c, how, of),
             UNCHANGED <<closeCh, id>>,
             \A e \in Ends : acks'[e] \subseteq acks[e],
             \A a \in acks'[endOf[c]] : endOf[c] \notin closeCh => a.call # c
      PROVE  EntriesAreAwaited'
  <2>1. \A d \in Calls : d # c => pc'[d] = pc[d]
    BY <1>1, Returns, Zenon
  <2>2. SUFFICES ASSUME NEW e \in Ends \ closeCh, NEW a \in acks'[e]
                 PROVE  pc'[a.call] \in {"write", "wait"} /\ id[a.call] = a.id
    BY <1>1, Zenon DEF EntriesAreAwaited
  <2>3. a \in acks[e] /\ a.call \in Calls /\ endOf[a.call] = e
    BY <1>0, <1>1, Zenon
  <2>4. a.call # c
    BY <1>1, <2>3, Zenon
  <2>5. pc[a.call] \in {"write", "wait"} /\ id[a.call] = a.id
    BY <2>3, Zenon DEF EntriesAreAwaited
  <2> QED BY <2>1, <2>3, <2>4, <2>5, Zenon
<1>2. ASSUME NEW e \in Ends, Handover(e) PROVE EntriesAreAwaited'
  <2>1. PICK g : g = giving[e]
    BY Zenon
  <2>2. /\ g.call \in Calls /\ g.how \in Hows /\ g.of \in Calls \cup {Nobody}
        /\ Return(g.call, g.how, g.of) /\ g.id = id[g.call]
    BY <1>2, <2>1, Zenon DEF Handover, StateInv, Hows
  <2>3. UNCHANGED <<closeCh, id, acks>>
    BY <1>2, Zenon DEF Handover, connVars
  <2>4. endOf[g.call] = e /\ \A a \in acks[e] : a.id # g.id
    BY <1>2, <2>1, Zenon DEF Handover, IdInv
  <2>5. \A a \in acks'[e] : e \notin closeCh => a.call # g.call
    BY <2>2, <2>3, <2>4 DEF EntriesAreAwaited
  <2> QED BY <1>1, <2>2, <2>3, <2>4, <2>5, Zenon
<1>3. ASSUME NEW c \in Calls, Register(c) PROVE EntriesAreAwaited'
  <2>1. PICK e \in Ends : e = endOf[c]
    BY CallsAssumption, Zenon
  <2>2. pc[c] = "idle" /\ UNCHANGED closeCh
    BY <1>3, Zenon DEF Register, connVars
  <2>3. pc' = [pc EXCEPT ![c] = "write"] /\ id' = [id EXCEPT ![c] = nextId[e] + 2]
    BY <1>3, <2>1, Zenon DEF Register, TakeId
  <2>4. \A x \in Ends : \A a \in acks'[x] : a \in acks[x] \/ (a.id = nextId[e] + 2 /\ a.call = c)
    BY <1>3, <2>1 DEF Register, StateInv
  <2>5. pc'[c] = "write" /\ id'[c] = nextId[e] + 2 /\ \A d \in Calls \ {c} : pc'[d] = pc[d] /\ id'[d] = id[d]
    BY <2>3, Zenon DEF StateInv
  <2>6. \A x \in Ends \ closeCh : \A a \in acks[x] : a.call \in Calls \ {c}
    BY <1>0, <2>2, Zenon DEF EntriesAreAwaited
  <2> QED BY <2>2, <2>4, <2>5, <2>6 DEF EntriesAreAwaited
<1>4. ASSUME NEW c \in Calls, WaitConnFails(c) PROVE EntriesAreAwaited'
  <2>1. pc[c] = "idle" /\ UNCHANGED <<closeCh, id, acks>> /\ Return(c, "expired", Nobody)
    BY <1>4, Zenon DEF WaitConnFails, connVars
  <2>2. endOf[c] \in Ends
    BY CallsAssumption, Zenon
  <2>3. \A a \in acks'[endOf[c]] : endOf[c] \notin closeCh => a.call # c
    BY <2>1, <2>2, Zenon DEF EntriesAreAwaited
  <2> QED BY <1>1, <2>1, <2>3, Zenon DEF Hows
<1>5. ASSUME NEW c \in Calls
      PROVE  /\ \A e \in Ends : Release(c)[e] \subseteq acks[e]
             /\ \A a \in Release(c)[endOf[c]] : endOf[c] \notin closeCh => a.call # c
  <2>1. PICK e \in Ends : e = endOf[c]
    BY CallsAssumption, Zenon
  <2>2. \A x \in Ends : Release(c)[x] = IF x = e THEN {a \in acks[e] : a.id # id[c]} ELSE acks[x]
    BY <2>1, Zenon DEF Release, StateInv
  <2>3. \A x \in Ends : Release(c)[x] \subseteq acks[x]
    BY <2>2, Zenon
  <2>4. ASSUME NEW a \in Release(c)[e], e \notin closeCh PROVE a.call # c
    <3>1. a \in acks[e] /\ a.id # id[c]
      BY <2>2, Zenon
    <3>2. id[a.call] = a.id
      BY <2>4, <3>1, Zenon DEF EntriesAreAwaited
    <3> QED BY <3>1, <3>2, Zenon
  <2> QED BY <2>1, <2>3, <2>4, Zenon
<1>6. ASSUME NEW c \in Calls, CtxDone(c) PROVE EntriesAreAwaited'
  <2>1. UNCHANGED <<closeCh, id>> /\ acks' = Release(c) /\ Return(c, "expired", Nobody)
    BY <1>6, Zenon DEF CtxDone, connVars
  <2> QED BY <1>1, <1>5, <2>1, Zenon DEF Hows
<1>7. ASSUME NEW c \in Calls, CloseSeen(c) PROVE EntriesAreAwaited'
  <2>1. UNCHANGED <<closeCh, id, acks>> /\ Return(c, "closed", Nobody) /\ endOf[c] \in closeCh
    BY <1>7, Zenon DEF CloseSeen, connVars
  <2> QED BY <1>1, <2>1, Zenon DEF Hows
<1>8. ASSUME NEW c \in Calls, Write(c) PROVE EntriesAreAwaited'
  <2>1. UNCHANGED <<closeCh, id>> /\ pc[c] = "write" /\ endOf[c] \in Ends
    BY <1>8, CallsAssumption, Zenon DEF Write, connVars
  <2>2. CASE acks' = Release(c) /\ Return(c, "unsent", Nobody)
    BY <1>1, <1>5, <2>1, <2>2, Zenon DEF Hows
  <2>3. CASE acks' = acks /\ c \notin needAck /\ Return(c, "ok", Nobody)
    <3>1. \A a \in acks'[endOf[c]] : a.call # c
      BY <1>0, <2>1, <2>3
    <3> QED BY <1>1, <2>1, <2>3, <3>1, Zenon DEF Hows
  <2>4. CASE acks' = acks /\ pc' = [pc EXCEPT ![c] = "wait"]
    <3>1. \A d \in Calls : pc[d] \in {"write", "wait"} => pc'[d] \in {"write", "wait"}
      BY <2>4, Zenon DEF StateInv
    <3> QED BY <1>0, <2>1, <2>4, <3>1, Zenon DEF EntriesAreAwaited
  <2>5. CASE conn[endOf[c]] = "up"
    BY <1>8, <2>3, <2>4, <2>5, Zenon DEF Write
  <2>6. CASE conn[endOf[c]] # "up"
    BY <1>8, <2>2, <2>6, Zenon DEF Write
  <2> QED BY <2>5, <2>6, Zenon
<1>9. ASSUME NEW e \in Ends, ReadAck(e) PROVE EntriesAreAwaited'
  <2>1. UNCHANGED <<closeCh, pc, id>> /\ \A x \in Ends : acks'[x] \subseteq acks[x]
    BY <1>9, Zenon DEF ReadAck, connVars, StateInv
  <2> QED BY <2>1, Zenon DEF EntriesAreAwaited
<1>10. ASSUME NEW e \in Ends, Down(e) PROVE EntriesAreAwaited'
  BY <1>10, Zenon DEF Down, callVars, EntriesAreAwaited
<1>11. CASE UNCHANGED <<closeCh, acks, pc, id>>
  BY <1>11, Zenon DEF EntriesAreAwaited
<1> QED BY <1>2, <1>3, <1>4, <1>6, <1>7, <1>8, <1>9, <1>10, <1>11, Zenon
    DEF Next, ReaderStep, Hangup, CallStep, vars, connVars, callVars, Open, ReadMsg, CloseRuns,
        InitSignal, ReadReady, Expire, LateAck
-----------------------------------------------------------------------------
\* Two ends without a connection, and no call made.
LEMMA InitInv == Init => Inv
<1> SUFFICES ASSUME Init PROVE Inv
  BY Zenon
<1>1. /\ nextId \in [Ends -> Nat] /\ None \in [how : Hows, of : Calls \cup {Nobody}]
      /\ Idle \in [call : Calls \cup {Nobody}, id : Nat, how : {"none", "ok", "refused"}, of : Calls \cup {Nobody}]
  BY Zenon DEF Init, None, Idle, Hows
<1>2. StateInv
  BY <1>1, EmptySeq, Zenon DEF Init, StateInv
<1>3. CloseInv
  BY Zenon DEF Init, CloseInv, CloseReportedOnce, Ends
<1>4. \A e \in Ends : Frames(net[e]) = {} /\ giving[e].call = Nobody
  BY DEF Init, Frames, Idle
<1>5. IdInv
  BY <1>4, Zenon DEF Init, IdInv
<1>6. AnswerIsOwn /\ EntriesAreAwaited /\ ReadyIsHandled
  BY Zenon DEF Init, AnswerIsOwn, EntriesAreAwaited, ReadyIsHandled, None
<1> QED BY <1>2, <1>3, <1>5, <1>6, Zenon DEF Inv

\* The inductive invariant of a connection.
THEOREM InvHolds == Spec => []Inv
<1>1. Inv /\ [Next]_vars => Inv'
  BY StateStep, CloseStep, IdStep, AnswerStep, AwaitedStep, HandledStep, Zenon DEF Inv
<1> QED BY InitInv, <1>1, PTL DEF Spec

(***************************************************************************)
(* SendMsg never returns the ack of another message: ids of next_msg_id    *)
(* are not taken twice, and an entry is taken out of acks once.            *)
(***************************************************************************)
THEOREM AnswerIsOwnHolds == Spec => []AnswerIsOwn
<1>1. Inv => AnswerIsOwn
  BY Zenon DEF Inv
<1> QED BY InvHolds, <1>1, PTL

\* acks does not leak while the connection is up: release covers every way out.
THEOREM EntriesAreAwaitedHolds == Spec => []EntriesAreAwaited
<1>1. Inv => EntriesAreAwaited
  BY Zenon DEF Inv
<1> QED BY InvHolds, <1>1, PTL

\* The close callback runs once, whichever of OnClose(cb) and the close is first.
THEOREM CloseReportedOnceHolds == Spec => []CloseReportedOnce
<1>1. Inv => CloseReportedOnce
  BY Zenon DEF Inv, CloseInv
<1> QED BY InvHolds, <1>1, PTL

\* A client that waits for "ready" finds the handlers InitSignal registers.
THEOREM ReadyIsHandledHolds == Spec => []ReadyIsHandled
<1>1. Inv => ReadyIsHandled
  BY Zenon DEF Inv
<1> QED BY InvHolds, <1>1, PTL
=============================================================================
