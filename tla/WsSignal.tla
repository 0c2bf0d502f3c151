------------------------------ MODULE WsSignal ------------------------------
(***************************************************************************)
(* The two ends of one websocket connection: WebSocketSignal               *)
(* (websocket/signal.go), the same code at the server and at the Go        *)
(* client, with the retries of SignalContext._emit (signal/model.go) and   *)
(* the handlers of InitSignal (signal/main.go).                            *)
(*                                                                         *)
(* A call of SendMsg registers an entry in acks, writes its frame and      *)
(* waits in a select.  The reader of an end takes an ack's entry out of    *)
(* acks under acks_mux, and after that hands the ack over on an unbuffered *)
(* channel: the two are separate steps, and the caller may leave its       *)
(* select in between.                                                      *)
(***************************************************************************)
EXTENDS Integers, Sequences, FiniteSets

CONSTANTS
  Calls,       \* calls of SendMsg (server: of _emit)
  endOf,       \* the end a call is made at
  needAck,     \* calls with ack = true
  Deadline,    \* calls whose context can expire
  Early,       \* client calls that do not wait for "ready"
  mute,        \* calls of events the peer has no callback for
  slow,        \* calls whose handler answers from a goroutine of its own
  Retries      \* MsgTimeoutRetries

Ends == {"client", "server"}
Peer(e) == IF e = "client" THEN "server" ELSE "client"
Nobody == "nobody"

ASSUME CallsAssumption ==
  /\ endOf \in [Calls -> Ends] /\ Nobody \notin Calls
  /\ needAck \subseteq Calls /\ Deadline \subseteq Calls
  /\ slow \subseteq Calls /\ mute \subseteq Calls
  /\ Early \subseteq {c \in Calls : endOf[c] = "client"}
ASSUME RetriesAssumption == Retries \in Nat

VARIABLES
  conn,      \* the connection at an end: new, up or down
  closeCh,   \* ends whose close_ch is closed
  closed,    \* ends with closed = true
  closeCb,   \* ends with a close_cb
  cbRuns,    \* how often the close callback ran
  initDone,  \* InitSignal has registered its handlers
  ready,     \* the client has got "ready"
  nextId,    \* next_msg_id
  acks,      \* entries of acks: [id, call]
  pc,        \* where a call is
  id,        \* msg_id of its last attempt
  tries,     \* attempts it has left
  expired,   \* calls whose context is done
  result,    \* how it ended: [how, of]
  net,       \* frames on their way to an end
  giving,    \* the ack a reader is handing over: [call, id, how, of]
  oweAck,    \* ack functions goroutines will call: [at, id, of]
  handled,   \* how often the peer's handler ran for a call
  lost       \* calls whose frame met no handler

connVars == <<conn, closeCh, closed, closeCb, cbRuns, initDone>>
callVars == <<nextId, acks, pc, id, tries, expired, result>>
readVars == <<ready, giving, oweAck, handled, lost>>
vars == <<conn, closeCh, closed, closeCb, cbRuns, initDone, ready, nextId, acks, pc, id,
          tries, expired, result, net, giving, oweAck, handled, lost>>

None == [how |-> "none", of |-> Nobody]
Idle == [call |-> Nobody, id |-> 0, how |-> "none", of |-> Nobody]

\* The entries, frames and results are well formed.
TypeOK ==
  /\ conn \in [Ends -> {"new", "up", "down"}]
  /\ closeCh \subseteq Ends /\ closed \subseteq closeCh /\ closeCb \subseteq Ends
  /\ cbRuns \in [Ends -> Nat] /\ nextId \in [Ends -> Nat]
  /\ initDone \in BOOLEAN /\ ready \in BOOLEAN
  /\ acks \in [Ends -> SUBSET [id : Nat, call : Calls]]
  /\ pc \in [Calls -> {"idle", "write", "wait", "done"}]
  /\ id \in [Calls -> Nat] /\ tries \in [Calls -> 0..Retries]
  /\ expired \subseteq Deadline /\ lost \subseteq Calls
  /\ result \in [Calls -> [how : {"none", "ok", "refused", "closed", "expired", "unsent"},
                           of : Calls \cup {Nobody}]]
  /\ \A e \in Ends : \A i \in DOMAIN net[e] :
       net[e][i] \in [kind : {"msg", "ok", "refused", "ready"}, id : Nat, of : Calls \cup {Nobody}]
  /\ giving \in [Ends -> [call : Calls \cup {Nobody}, id : Nat, how : {"none", "ok", "refused"},
                           of : Calls \cup {Nobody}]]
  /\ oweAck \subseteq [at : Ends, id : Nat, of : Calls]
  /\ handled \in [Calls -> Nat]

(***************************************************************************)
(* NewWebSocketSignal: ids are odd at the client.  accessSignal sets the   *)
(* client's close callback before it dials.                                *)
(***************************************************************************)
Init ==
  /\ conn = [e \in Ends |-> "new"]
  /\ closeCh = {} /\ closed = {} /\ closeCb = {"client"}
  /\ cbRuns = [e \in Ends |-> 0]
  /\ initDone = FALSE /\ ready = FALSE
  /\ nextId = [e \in Ends |-> IF e = "client" THEN 1 ELSE 0]
  /\ acks = [e \in Ends |-> {}]
  /\ pc = [c \in Calls |-> "idle"] /\ id = [c \in Calls |-> 0]
  /\ tries = [c \in Calls |-> IF c \in needAck /\ endOf[c] = "server" THEN Retries ELSE 0]
  /\ expired = {}
  /\ result = [c \in Calls |-> None]
  /\ net = [e \in Ends |-> <<>>]
  /\ giving = [e \in Ends |-> Idle]
  /\ oweAck = {}
  /\ handled = [c \in Calls |-> 0] /\ lost = {}
-----------------------------------------------------------------------------
Frame(kind, i, c) == [kind |-> kind, id |-> i, of |-> c]

\* WriteMessage: what is written to a connection whose peer is gone is lost.
Sent(e, f) == IF conn[Peer(e)] = "down" THEN net ELSE [net EXCEPT ![Peer(e)] = Append(@, f)]

\* OnOpen: the server's end opens before the handshake's answer is sent.
Open(e) ==
  /\ conn[e] = "new" /\ conn[Peer(e)] # "down"
  /\ e = "client" => conn["server"] = "up"
  /\ conn' = [conn EXCEPT ![e] = "up"]
  /\ UNCHANGED <<closeCh, closed, closeCb, cbRuns, initDone, callVars, net, readVars>>

\* Mutant: OnClose(cb) only stores the callback.
OnCloseStores ==
  /\ closeCb' = closeCb \cup {"server"}
  /\ UNCHANGED cbRuns

\* OnClose(cb): a callback that comes after the close runs at once.
OnClose ==
  IF "server" \in closed
    THEN /\ cbRuns' = [cbRuns EXCEPT !["server"] = @ + 1]
         /\ UNCHANGED closeCb
    ELSE /\ closeCb' = closeCb \cup {"server"}
         /\ UNCHANGED cbRuns

(***************************************************************************)
(* InitSignal: the close callback, the handlers, and then "ready".  When   *)
(* the connection is gone sending "ready" fails.                           *)
(***************************************************************************)
InitSignal ==
  /\ conn["server"] # "new" /\ ~initDone
  /\ OnClose
  /\ initDone' = TRUE
  /\ nextId' = [nextId EXCEPT !["server"] = @ + 2]
  /\ net' = IF conn["server"] = "up" THEN Sent("server", Frame("ready", nextId["server"] + 2, Nobody))
                                     ELSE net
  /\ UNCHANGED <<conn, closeCh, closed, acks, pc, id, tries, expired, result, readVars>>
-----------------------------------------------------------------------------
(***************************************************************************)
(* The end of an attempt.  _emit tries again after any error, with the     *)
(* same context.                                                           *)
(***************************************************************************)
Return(c, how, of) ==
  IF how # "ok" /\ tries[c] > 0
    THEN /\ pc' = [pc EXCEPT ![c] = "idle"]
         /\ tries' = [tries EXCEPT ![c] = @ - 1]
         /\ UNCHANGED result
    ELSE /\ pc' = [pc EXCEPT ![c] = "done"]
         /\ result' = [result EXCEPT ![c] = [how |-> how, of |-> of]]
         /\ UNCHANGED tries

\* Mutant: "ready" is not waited for.
AccessAtOnce(c) == TRUE

\* A client call goes through accessSignal, which waits for "ready".
Access(c) == endOf[c] = "client" /\ c \notin Early => ready

\* Mutant: the message id is read but not advanced.
TakeIdStuck(c) ==
  /\ id' = [id EXCEPT ![c] = nextId[endOf[c]] + 2]
  /\ UNCHANGED nextId

\* next_msg_id.Add(2)
TakeId(c) ==
  /\ nextId' = [nextId EXCEPT ![endOf[c]] = @ + 2]
  /\ id' = [id EXCEPT ![c] = nextId[endOf[c]] + 2]

(***************************************************************************)
(* SendMsg up to the write: once there is a connection it takes an id and  *)
(* registers the ack.                                                      *)
(***************************************************************************)
Register(c) ==
  LET e == endOf[c]
  IN  /\ pc[c] = "idle"
      /\ conn[e] # "new" /\ Access(c)
      /\ TakeId(c)
      /\ acks' = IF c \in needAck
                   THEN [acks EXCEPT ![e] = {a \in @ : a.id # nextId[e] + 2}
                                              \cup {[id |-> nextId[e] + 2, call |-> c]}]
                   ELSE acks
      /\ pc' = [pc EXCEPT ![c] = "write"]
      /\ UNCHANGED <<connVars, tries, expired, result, net, readVars>>

\* waitConn gives up: the context is done (there is no connection yet).
WaitConnFails(c) ==
  /\ pc[c] = "idle" /\ conn[endOf[c]] = "new" /\ c \in expired
  /\ Return(c, "expired", Nobody)
  /\ UNCHANGED <<connVars, nextId, acks, id, expired, net, readVars>>

\* Mutant: release does nothing.
ReleaseNothing(c) == acks

\* release: the entry is deleted by its id, if it is still there.
Release(c) == [acks EXCEPT ![endOf[c]] = {a \in @ : a.id # id[c]}]

\* WriteMessage; an error releases the entry.
Write(c) ==
  /\ pc[c] = "write"
  /\ IF conn[endOf[c]] = "up"
       THEN /\ net' = Sent(endOf[c], Frame("msg", id[c], c))
            /\ IF c \in needAck THEN pc' = [pc EXCEPT ![c] = "wait"] /\ UNCHANGED <<tries, result>>
                                ELSE Return(c, "ok", Nobody)
            /\ UNCHANGED acks
       ELSE /\ Return(c, "unsent", Nobody)
            /\ acks' = Release(c)
            /\ UNCHANGED net
  /\ UNCHANGED <<connVars, nextId, id, expired, readVars>>

Expire(c) ==
  /\ c \in Deadline \ expired /\ pc[c] # "done"
  /\ expired' = expired \cup {c}
  /\ UNCHANGED <<connVars, nextId, acks, pc, id, tries, result, net, readVars>>

\* Mutant: the select has no case for the context.
CtxIgnored(c) == FALSE /\ UNCHANGED vars

\* case <-ctx.Done()
CtxDone(c) ==
  /\ pc[c] = "wait" /\ c \in expired
  /\ Return(c, "expired", Nobody)
  /\ acks' = Release(c)
  /\ UNCHANGED <<connVars, nextId, id, expired, net, readVars>>

\* case <-close_ch: the entry stays in acks.
CloseSeen(c) ==
  /\ pc[c] = "wait" /\ endOf[c] \in closeCh
  /\ Return(c, "closed", Nobody)
  /\ UNCHANGED <<connVars, nextId, acks, id, expired, net, readVars>>

\* case ack_args := <-ch: the reader and the caller meet.
Handover(e) ==
  LET g == giving[e]
  IN  /\ g.call # Nobody /\ pc[g.call] = "wait" /\ g.id = id[g.call]
      /\ Return(g.call, g.how, g.of)
      /\ giving' = [giving EXCEPT ![e] = Idle]
      /\ UNCHANGED <<connVars, nextId, acks, id, expired, net, ready, oweAck, handled, lost>>
-----------------------------------------------------------------------------
Pop(e) == [net EXCEPT ![e] = Tail(@)]

\* The reader of an end takes the next frame when it is not handing over an ack.
Reads(e, kinds) ==
  /\ conn[e] = "up" /\ giving[e] = Idle
  /\ net[e] # <<>> /\ Head(net[e]).kind \in kinds

(***************************************************************************)
(* An ack: its entry is taken out of acks; an ack without one is dropped.  *)
(***************************************************************************)
ReadAck(e) ==
  LET f     == Head(net[e])
      entry == {a \in acks[e] : a.id = f.id}
  IN  /\ Reads(e, {"ok", "refused"})
      /\ net' = Pop(e)
      /\ acks' = [acks EXCEPT ![e] = @ \ entry]
      /\ giving' = [giving EXCEPT ![e] =
           IF entry = {} THEN Idle
           ELSE [call |-> (CHOOSE a \in entry : TRUE).call, id |-> f.id, how |-> f.kind, of |-> f.of]]
      /\ UNCHANGED <<connVars, nextId, pc, id, tries, expired, result, ready, oweAck, handled, lost>>

\* Callbacks are there at the client from the start, at the server after InitSignal.
Registered(e, c) == (e = "client" \/ initDone) /\ c \notin mute

(***************************************************************************)
(* A message: msg_cb runs with msg_mux held.  The handler acks before it   *)
(* returns, with a value or an error, or leaves that to a goroutine        *)
(* (publish, subscribe).  No callback of the event: nothing happens.       *)
(***************************************************************************)
ReadMsg(e) ==
  LET f   == Head(net[e])
      ack == f.of \in needAck
  IN  /\ Reads(e, {"msg"})
      /\ IF Registered(e, f.of)
           THEN /\ handled' = [handled EXCEPT ![f.of] = @ + 1]
                /\ IF ack /\ f.of \notin slow
                     THEN \E how \in {"ok", "refused"} :
                            net' = [Sent(e, Frame(how, f.id, f.of)) EXCEPT ![e] = Tail(@)]
                     ELSE net' = Pop(e)
                /\ oweAck' = IF ack /\ f.of \in slow
                               THEN oweAck \cup {[at |-> e, id |-> f.id, of |-> f.of]} ELSE oweAck
                /\ UNCHANGED lost
           ELSE /\ net' = Pop(e)
                /\ lost' = lost \cup {f.of}
                /\ UNCHANGED <<handled, oweAck>>
      /\ UNCHANGED <<connVars, callVars, ready, giving>>

ReadReady ==
  /\ Reads("client", {"ready"})
  /\ net' = Pop("client")
  /\ ready' = TRUE
  /\ UNCHANGED <<connVars, callVars, giving, oweAck, handled, lost>>

\* ack_fun from a goroutine; an error of WriteMessage is only logged.
LateAck(o) ==
  /\ o \in oweAck
  /\ oweAck' = oweAck \ {o}
  /\ \E how \in {"ok", "refused"} :
       net' = IF conn[o.at] = "up" THEN Sent(o.at, Frame(how, o.id, o.of)) ELSE net
  /\ UNCHANGED <<connVars, callVars, ready, giving, handled, lost>>
-----------------------------------------------------------------------------
(***************************************************************************)
(* The connection goes down at one end: Close (CloseAndClean), or the peer *)
(* or the network has closed it.  What was not read yet is dropped.  The   *)
(* upgrader's OnClose starts: close_ch is closed.                          *)
(***************************************************************************)
Down(e) ==
  /\ conn[e] = "up"
  /\ conn' = [conn EXCEPT ![e] = "down"]
  /\ net' = [net EXCEPT ![e] = <<>>]
  /\ closeCh' = closeCh \cup {e}
  /\ UNCHANGED <<closed, closeCb, cbRuns, initDone, callVars, readVars>>

\* The rest of the upgrader's OnClose, under close_mux.
CloseRuns(e) ==
  /\ e \in closeCh \ closed
  /\ closed' = closed \cup {e}
  /\ cbRuns' = IF e \in closeCb THEN [cbRuns EXCEPT ![e] = @ + 1] ELSE cbRuns
  /\ UNCHANGED <<conn, closeCh, closeCb, initDone, callVars, net, readVars>>

Hangup == \E e \in Ends : Down(e)

CallStep(c) ==
  Register(c) \/ WaitConnFails(c) \/ Write(c) \/ CtxDone(c) \/ CloseSeen(c)

ReaderStep(e) == Handover(e) \/ ReadAck(e) \/ ReadMsg(e)

Next ==
  \/ \E e \in Ends : Open(e) \/ ReaderStep(e) \/ CloseRuns(e)
  \/ InitSignal \/ ReadReady \/ Hangup
  \/ \E c \in Calls : CallStep(c) \/ Expire(c)
  \/ \E o \in oweAck : LateAck(o)

Spec == Init /\ [][Next]_vars

(***************************************************************************)
(* The scheduler runs every goroutine, timers fire, a handler's goroutine  *)
(* answers.  An end whose peer is down gets to know it.                    *)
(***************************************************************************)
Fairness ==
  /\ \A e \in Ends : /\ WF_vars(Open(e)) /\ WF_vars(ReaderStep(e)) /\ WF_vars(CloseRuns(e))
                     /\ WF_vars(conn[Peer(e)] = "down" /\ Down(e))
  /\ WF_vars(InitSignal) /\ WF_vars(ReadReady)
  /\ \A c \in Calls : WF_vars(CallStep(c)) /\ WF_vars(Expire(c))
  /\ WF_vars(\E o \in oweAck : LateAck(o))

FairSpec == Spec /\ Fairness
-----------------------------------------------------------------------------
(***************************************************************************)
(* SendMsg returns the answer to its own message: ids are taken with one   *)
(* atomic Add, so that an ack, late or not, of another call or of another  *)
(* end never gets to a caller.                                             *)
(***************************************************************************)
AnswerIsOwn == \A c \in Calls : result[c].how \in {"ok", "refused"} => result[c].of \in {c, Nobody}

(***************************************************************************)
(* acks does not grow with calls that are over: while the connection is    *)
(* up, an entry belongs to the attempt a caller is in.  (After the close   *)
(* SendMsg leaves its entry behind.)                                       *)
(***************************************************************************)
EntriesAreAwaited ==
  \A e \in Ends \ closeCh : \A a \in acks[e] :
    pc[a.call] \in {"write", "wait"} /\ id[a.call] = a.id

(***************************************************************************)
(* A callback given to OnClose runs exactly once once the connection is    *)
(* closed, whichever of the two comes first: the server's close callback   *)
(* is what closes the signal context.                                      *)
(***************************************************************************)
CloseReportedOnce ==
  \A e \in Ends : cbRuns[e] = IF e \in closed /\ (e = "client" \/ initDone) THEN 1 ELSE 0

(***************************************************************************)
(* A message of a client that waited for "ready" is never met by a server  *)
(* without handlers: InitSignal sends "ready" last.                        *)
(***************************************************************************)
ReadyIsHandled == \A c \in lost : c \in Early \cup mute

(***************************************************************************)
(* Every call of SendMsg with a deadline returns, even when its message    *)
(* met no handler, its answer is lost, or the reader is stuck with it.     *)
(***************************************************************************)
CallsReturn == \A c \in Deadline : pc[c] # "idle" ~> pc[c] = "done"
=============================================================================
