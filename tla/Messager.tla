------------------------------ MODULE Messager ------------------------------
(***************************************************************************)
(* The messager of each node (signal/messager.go): sockets register a      *)
(* callback per kind of message under the room patterns they may use; Emit *)
(* hands a message to the callbacks of its own node and produces it to the *)
(* Kafka topic of its kind, from which the other nodes take it.            *)
(*                                                                         *)
(* A node reads a topic as module OrderedDelivery allows: in order, and    *)
(* perhaps again.  There is a topic, a mutex and a set of On, Off, consume *)
(* and onTopic methods per kind, all of the same form.                     *)
(***************************************************************************)
EXTENDS Integers, Sequences, FiniteSets

CONSTANTS
  Nodes, Sockets, Topics, Msgs,
  nodeOf,      \* the node of a socket
  pats,        \* the room patterns of a socket
  matching,    \* the patterns that match the room of a message (module PatternMap)
  topicOf,     \* the kind of a message
  nodeFrom,    \* the node that emits it
  nodeTo,      \* Router.NodeTo, or AnyNode
  MaxReplays   \* bound: how often a node goes back in a topic

AnyNode == "any node"

ASSUME RoutesAssumption ==
  /\ nodeOf \in [Sockets -> Nodes] /\ nodeFrom \in [Msgs -> Nodes]
  /\ nodeTo \in [Msgs -> Nodes \cup {AnyNode}] /\ topicOf \in [Msgs -> Topics]
  /\ DOMAIN pats = Sockets /\ DOMAIN matching = Msgs
  /\ MaxReplays \in Nat

VARIABLES
  reg,      \* the callbacks: reg[t] holds <<pattern, socket>>
  stage,    \* Emit: "idle", "consumed" (on its node), "produced" or "failed"
  log,      \* the topics
  pos,      \* pos[n][t]: records of t that node n has handled
  replays,  \* how often a node went back
  tasks,    \* tasks[s][m]: goroutines `go fun(msg)` that did not run yet
  ran       \* ran[s][m]: how often the callback of s got m

vars == <<reg, stage, log, pos, replays, tasks, ran>>

TypeOK ==
  /\ \A t \in Topics : reg[t] \subseteq {e \in (UNION {pats[s] : s \in Sockets}) \X Sockets :
                                           e[1] \in pats[e[2]]}
  /\ stage \in [Msgs -> {"idle", "consumed", "produced", "failed"}]
  /\ \A t \in Topics : log[t] \in Seq({m \in Msgs : topicOf[m] = t})
  /\ \A n \in Nodes, t \in Topics : pos[n][t] \in 0..Len(log[t])
  /\ replays \in 0..MaxReplays
  /\ tasks \in [Sockets -> [Msgs -> Nat]] /\ ran \in [Sockets -> [Msgs -> Nat]]

Init ==
  /\ reg = [t \in Topics |-> {}]
  /\ stage = [m \in Msgs |-> "idle"]
  /\ log = [t \in Topics |-> <<>>]
  /\ pos = [n \in Nodes |-> [t \in Topics |-> 0]]
  /\ replays = 0
  /\ tasks = [s \in Sockets |-> [m \in Msgs |-> 0]]
  /\ ran = [s \in Sockets |-> [m \in Msgs |-> 0]]
-----------------------------------------------------------------------------
\* OnState, OnWant, ... : the callback under every pattern of the socket.
On(s, t) ==
  /\ reg' = [reg EXCEPT ![t] = @ \cup {<<p, s>> : p \in pats[s]}]
  /\ UNCHANGED <<stage, log, pos, replays, tasks, ran>>

\* OffState, OffWant, ...
Off(s, t) ==
  /\ reg' = [reg EXCEPT ![t] = {e \in @ : e[2] # s}]
  /\ UNCHANGED <<stage, log, pos, replays, tasks, ran>>

Registered(s, m) == \E p \in matching[m] : <<p, s>> \in reg[topicOf[m]]

\* consumeMessage: each callback once, whatever patterns of it match.
Funs(s, m, n) ==
  IF nodeOf[s] = n /\ nodeTo[m] \in {AnyNode, n} /\ Registered(s, m) THEN 1 ELSE 0

\* consumeState, consumeWant, ... : a goroutine for each callback.
Consume(m, n) == [s \in Sockets |-> [tasks[s] EXCEPT ![m] = @ + Funs(s, m, n)]]

\* Emit: the callbacks of this node ...
EmitHere(m) ==
  /\ stage[m] = "idle"
  /\ stage' = [stage EXCEPT ![m] = "consumed"]
  /\ tasks' = Consume(m, nodeFrom[m])
  /\ UNCHANGED <<reg, log, pos, replays, ran>>

\* ... then Produce.
EmitProduce(m) ==
  /\ stage[m] = "consumed"
  /\ stage' = [stage EXCEPT ![m] = "produced"]
  /\ log' = [log EXCEPT ![topicOf[m]] = Append(@, m)]
  /\ UNCHANGED <<reg, pos, replays, tasks, ran>>

\* Produce fails; what this node has consumed stays consumed.
EmitFails(m) ==
  /\ stage[m] = "consumed"
  /\ stage' = [stage EXCEPT ![m] = "failed"]
  /\ UNCHANGED <<reg, log, pos, replays, tasks, ran>>

\* Mutant: a node takes its own messages from the topic too.
ForeignOrOwn(m, n) == TRUE

\* Mutant: the test of the node is the wrong way round.
ForeignNever(m, n) == nodeFrom[m] = n

\* msg.Router.NodeFrom != m.nodeName
Foreign(m, n) == nodeFrom[m] # n

\* onTopicState, onTopicWant, ... : the worker of a topic gets the next record.
OnTopic(n, t) ==
  /\ pos[n][t] < Len(log[t])
  /\ LET m == log[t][pos[n][t] + 1]
     IN  tasks' = IF Foreign(m, n) THEN Consume(m, n) ELSE tasks
  /\ pos' = [pos EXCEPT ![n][t] = @ + 1]
  /\ UNCHANGED <<reg, stage, log, replays, ran>>

\* The node starts again at an offset it has committed (module Kafka).
GoBack(n, t) ==
  /\ replays < MaxReplays
  /\ replays' = replays + 1
  /\ \E o \in 0..(pos[n][t] - 1) : pos' = [pos EXCEPT ![n][t] = o]
  /\ UNCHANGED <<reg, stage, log, tasks, ran>>

\* A goroutine calls the callback.
Call(s, m) ==
  /\ tasks[s][m] > 0
  /\ tasks' = [tasks EXCEPT ![s][m] = @ - 1]
  /\ ran' = [ran EXCEPT ![s][m] = @ + 1]
  /\ UNCHANGED <<reg, stage, log, pos, replays>>

Next ==
  \/ \E s \in Sockets, t \in Topics : On(s, t) \/ Off(s, t)
  \/ \E m \in Msgs : EmitHere(m) \/ EmitProduce(m) \/ EmitFails(m)
  \/ \E n \in Nodes, t \in Topics : OnTopic(n, t) \/ GoBack(n, t)
  \/ \E s \in Sockets, m \in Msgs : Call(s, m)

(***************************************************************************)
(* Goroutines run, Produce returns, and a node reads on.                   *)
(***************************************************************************)
Fairness ==
  /\ \A m \in Msgs : WF_vars(EmitProduce(m) \/ EmitFails(m))
  /\ \A n \in Nodes, t \in Topics : WF_vars(OnTopic(n, t))
  /\ \A s \in Sockets, m \in Msgs : WF_vars(Call(s, m))

Spec == Init /\ [][Next]_vars /\ Fairness
-----------------------------------------------------------------------------
Unread(m, n) == \E i \in DOMAIN log[topicOf[m]] : i > pos[n][topicOf[m]] /\ log[topicOf[m]][i] = m

Got(s, m) == tasks[s][m] + ran[s][m]

(***************************************************************************)
(* A socket of the sending node gets a message once, from Emit, and not    *)
(* again when the node reads its own record, even if it reads it twice.  A *)
(* socket of another node gets it once for each time its node reads the    *)
(* record.  Both hold also when several of its patterns match the room.    *)
(***************************************************************************)
OncePerRecord ==
  \A s \in Sockets, m \in Msgs :
    Got(s, m) <= (IF nodeOf[s] = nodeFrom[m] THEN 1 ELSE 1 + replays)

(***************************************************************************)
(* A message that is produced gets to each socket of another node that is  *)
(* registered for its room, and meant, while its node has yet to read the  *)
(* record, and that stays registered.                                      *)
(***************************************************************************)
Reaches ==
  \A s \in Sockets, m \in Msgs :
    nodeOf[s] # nodeFrom[m] /\ nodeTo[m] \in {AnyNode, nodeOf[s]} =>
      (Unread(m, nodeOf[s]) /\ Registered(s, m))
         ~> (ran[s][m] > 0 \/ ~ Registered(s, m))
=============================================================================
