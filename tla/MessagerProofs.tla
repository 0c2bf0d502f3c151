--------------------------- MODULE MessagerProofs ---------------------------
(***************************************************************************)
(* Proof that a message gets to a callback once per reading of its record, *)
(* for any number of nodes, sockets, kinds and messages.                   *)
(***************************************************************************)
EXTENDS Messager, SequenceTheorems, TLAPS

\* The state is well formed.
StateInv ==
  /\ stage \in [Msgs -> {"idle", "consumed", "produced", "failed"}]
  /\ log \in [Topics -> Seq(Msgs)] /\ pos \in [Nodes -> [Topics -> Nat]]
  /\ \A n \in Nodes, t \in Topics : pos[n][t] <= Len(log[t])
  /\ replays \in Nat
  /\ tasks \in [Sockets -> [Msgs -> Nat]] /\ ran \in [Sockets -> [Msgs -> Nat]]

(***************************************************************************)
(* Emit produces a message once: it has one place in the topic of its kind *)
(* and none in another.                                                    *)
(***************************************************************************)
LogInv ==
  \A t \in Topics : \A i \in 1..Len(log[t]) :
    /\ topicOf[log[t][i]] = t /\ stage[log[t][i]] = "produced"
    /\ \A j \in 1..Len(log[t]) : log[t][i] = log[t][j] => i = j

\* Node n is past message m in the topic of its kind.
Passed(m, n) == \E i \in 1..Len(log[topicOf[m]]) : i <= pos[n][topicOf[m]] /\ log[topicOf[m]][i] = m

(***************************************************************************)
(* What a callback has got: on the node that emits, once, from Emit; on    *)
(* another, once for each time its node went back and once more if the     *)
(* node is past the record now.                                            *)
(***************************************************************************)
CountInv ==
  \A s \in Sockets, m \in Msgs :
    Got(s, m) <= IF nodeOf[s] = nodeFrom[m]
                   THEN IF stage[m] = "idle" THEN 0 ELSE 1
                   ELSE IF Passed(m, nodeOf[s]) THEN 1 + replays ELSE replays

Inv == StateInv /\ LogInv /\ CountInv
-----------------------------------------------------------------------------
\* Nothing has been emitted when the nodes start.
LEMMA InitInv == Init => Inv
<1> SUFFICES ASSUME Init PROVE Inv
  BY Zenon
<1>1. StateInv
  BY EmptySeq DEF Init, StateInv
<1>2. LogInv
  BY DEF Init, LogInv
<1>3. CountInv
  <2>1. \A s \in Sockets, m \in Msgs : Got(s, m) = 0
    BY DEF Init, Got
  <2>2. replays = 0
    BY Zenon DEF Init
  <2> QED BY <2>1, <2>2 DEF CountInv
<1> QED BY <1>1, <1>2, <1>3, Zenon DEF Inv

(***************************************************************************)
(* consumeMessage: one goroutine at most for a callback, and only on the   *)
(* node that consumes.                                                     *)
(***************************************************************************)
LEMMA ConsumeCounts ==
  ASSUME StateInv, NEW m \in Msgs, NEW n, tasks' = Consume(m, n), UNCHANGED ran
  PROVE  /\ tasks' \in [Sockets -> [Msgs -> Nat]]
         /\ \A s \in Sockets : Got(s, m)' \in Nat /\ Got(s, m)' <= Got(s, m) + 1
         /\ \A s \in Sockets, k \in Msgs : k # m \/ nodeOf[s] # n => Got(s, k)' = Got(s, k)
<1>1. tasks \in [Sockets -> [Msgs -> Nat]] /\ ran \in [Sockets -> [Msgs -> Nat]]
  BY Zenon DEF StateInv
<1>2. \A s \in Sockets : Funs(s, m, n) \in {0, 1} /\ (nodeOf[s] # n => Funs(s, m, n) = 0)
  BY Zenon DEF Funs
<1>3. tasks' \in [Sockets -> [Msgs -> Nat]]
  BY <1>1, <1>2 DEF Consume
<1>4. \A s \in Sockets : tasks'[s][m] = tasks[s][m] + Funs(s, m, n)
  BY <1>1, Zenon DEF Consume
<1>5. \A s \in Sockets, k \in Msgs : k # m => tasks'[s][k] = tasks[s][k]
  BY <1>1, Zenon DEF Consume
<1>6. \A s \in Sockets, k \in Msgs : tasks[s][k] \in Nat /\ ran[s][k] \in Nat /\ tasks'[s][k] \in Nat
  BY <1>1, <1>3, Zenon
<1> HIDE DEF Consume
<1>7. \A s \in Sockets : Got(s, m)' \in Nat /\ Got(s, m)' <= Got(s, m) + 1
  BY <1>2, <1>4, <1>6 DEF Got
<1>8. \A s \in Sockets, k \in Msgs : k # m \/ nodeOf[s] # n => Got(s, k)' = Got(s, k)
  BY <1>2, <1>4, <1>5, <1>6 DEF Got
<1> QED BY <1>3, <1>7, <1>8, Zenon

\* What was got is a number.
LEMMA GotNat ==
  ASSUME StateInv, NEW s \in Sockets, NEW m \in Msgs
  PROVE  Got(s, m) \in Nat
BY DEF StateInv, Got

\* A step that counts nothing and after which no node is past less.
LEMMA CountKept ==
  ASSUME Inv, UNCHANGED replays,
         \A s \in Sockets, m \in Msgs : Got(s, m)' = Got(s, m),
         \A m \in Msgs : stage[m] # "idle" => stage'[m] # "idle",
         \A s \in Sockets, m \in Msgs : Passed(m, nodeOf[s]) => Passed(m, nodeOf[s])'
  PROVE  CountInv'
<1>1. replays \in Nat
  BY Zenon DEF Inv, StateInv
<1> SUFFICES ASSUME NEW s \in Sockets, NEW m \in Msgs
             PROVE  Got(s, m)' <= IF nodeOf[s] = nodeFrom[m]
                      THEN IF stage'[m] = "idle" THEN 0 ELSE 1
                      ELSE IF Passed(m, nodeOf[s])' THEN 1 + replays' ELSE replays'
  BY Zenon DEF CountInv
<1>2. Got(s, m) \in Nat
  BY GotNat, Zenon DEF Inv
<1>3. Got(s, m) <= IF nodeOf[s] = nodeFrom[m]
                      THEN IF stage[m] = "idle" THEN 0 ELSE 1
                      ELSE IF Passed(m, nodeOf[s]) THEN 1 + replays ELSE replays
  BY Zenon DEF Inv, CountInv
<1>4. Got(s, m)' = Got(s, m) /\ (stage[m] # "idle" => stage'[m] # "idle") /\ replays' = replays
  BY Zenon
<1>5. Passed(m, nodeOf[s]) => Passed(m, nodeOf[s])'
  BY Zenon
<1> QED BY <1>1, <1>2, <1>3, <1>4, <1>5

\* Produce puts the message at the end of its topic.
LEMMA Produced ==
  ASSUME StateInv, NEW m \in Msgs, EmitProduce(m)
  PROVE  LET t == topicOf[m]
         IN  /\ t \in Topics /\ log' \in [Topics -> Seq(Msgs)]
             /\ \A u \in Topics : u # t => log'[u] = log[u]
             /\ Len(log[t]) \in Nat /\ Len(log'[t]) = Len(log[t]) + 1
             /\ \A i \in 1..Len(log[t]) : log'[t][i] = log[t][i]
             /\ log'[t][Len(log[t]) + 1] = m
<1> DEFINE t == topicOf[m]
<1>1. t \in Topics /\ log[t] \in Seq(Msgs) /\ log \in [Topics -> Seq(Msgs)]
  BY RoutesAssumption, Zenon DEF StateInv
<1>2. log' = [log EXCEPT ![t] = Append(log[t], m)]
  BY Zenon DEF EmitProduce
<1>3. Append(log[t], m) \in Seq(Msgs)
  BY <1>1, AppendProperties, Zenon
<1>4. log' \in [Topics -> Seq(Msgs)] /\ log'[t] = Append(log[t], m) /\ \A u \in Topics : u # t => log'[u] = log[u]
  BY <1>1, <1>2, <1>3, Zenon
<1>5. /\ Len(log[t]) \in Nat /\ Len(Append(log[t], m)) = Len(log[t]) + 1
      /\ \A i \in 1..Len(log[t]) : Append(log[t], m)[i] = log[t][i]
      /\ Append(log[t], m)[Len(log[t]) + 1] = m
  BY <1>1, AppendProperties, LenProperties
<1> QED BY <1>1, <1>4, <1>5, Zenon

\* The state stays well formed.
LEMMA StateStep == Inv /\ [Next]_vars => StateInv'
<1> SUFFICES ASSUME Inv, [Next]_vars PROVE StateInv'
  BY Zenon
<1> USE DEF Inv
<1>1. ASSUME NEW s \in Sockets, NEW t \in Topics, On(s, t) \/ Off(s, t) PROVE StateInv'
  BY <1>1, Zenon DEF On, Off, StateInv
<1>2. ASSUME NEW m \in Msgs, EmitHere(m) PROVE StateInv'
  <2>1. tasks' \in [Sockets -> [Msgs -> Nat]]
    BY <1>2, ConsumeCounts, Zenon DEF EmitHere
  <2> QED BY <1>2, <2>1, Zenon DEF EmitHere, StateInv
<1>3. ASSUME NEW m \in Msgs, EmitProduce(m) PROVE StateInv'
  <2>1. log' \in [Topics -> Seq(Msgs)]
    BY <1>3, Produced, Zenon
  <2>2. \A t \in Topics : Len(log[t]) \in Nat /\ Len(log'[t]) \in Nat /\ Len(log[t]) <= Len(log'[t])
    <3>1. \A t \in Topics : Len(log[t]) \in Nat
      BY LenProperties, Zenon DEF StateInv
    <3> QED BY <1>3, <3>1, Produced
  <2>3. \A n \in Nodes, t \in Topics : pos[n][t] \in Nat /\ pos[n][t] <= Len(log'[t])
    BY <2>2 DEF StateInv
  <2> QED BY <1>3, <2>1, <2>3, Zenon DEF EmitProduce, StateInv
<1>4. ASSUME NEW m \in Msgs, EmitFails(m) PROVE StateInv'
  BY <1>4, Zenon DEF EmitFails, StateInv
<1>5. ASSUME NEW n \in Nodes, NEW t \in Topics, OnTopic(n, t) PROVE StateInv'
  <2> DEFINE m == log[t][pos[n][t] + 1]
  <2>1. log[t] \in Seq(Msgs) /\ Len(log[t]) \in Nat /\ pos[n][t] \in Nat
    BY LenProperties, Zenon DEF StateInv
  <2>2. m \in Msgs
    BY <1>5, <2>1, ElementOfSeq DEF OnTopic
  <2>3. tasks' \in [Sockets -> [Msgs -> Nat]]
    BY <1>5, <2>2, ConsumeCounts, Zenon DEF OnTopic, StateInv
  <2> QED BY <1>5, <2>1, <2>3 DEF OnTopic, StateInv
<1>6. ASSUME NEW n \in Nodes, NEW t \in Topics, GoBack(n, t) PROVE StateInv'
  <2>1. PICK o \in 0..(pos[n][t] - 1) : pos' = [pos EXCEPT ![n][t] = o]
    BY <1>6, Zenon DEF GoBack
  <2>2. \A u \in Topics : Len(log[u]) \in Nat
    BY LenProperties, Zenon DEF StateInv
  <2> QED BY <1>6, <2>1, <2>2 DEF GoBack, StateInv
<1>7. ASSUME NEW s \in Sockets, NEW m \in Msgs, Call(s, m) PROVE StateInv'
  BY <1>7 DEF Call, StateInv
<1>8. CASE UNCHANGED vars
  BY <1>8, Zenon DEF vars, StateInv
<1> QED BY <1>1, <1>2, <1>3, <1>4, <1>5, <1>6, <1>7, <1>8, Zenon DEF Next

\* A message is produced once, into the topic of its kind.
LEMMA LogStep == Inv /\ [Next]_vars => LogInv'
<1> SUFFICES ASSUME Inv, [Next]_vars PROVE LogInv'
  BY Zenon
<1> USE DEF Inv
<1>0. \A t \in Topics : \A i \in 1..Len(log[t]) : log[t][i] \in Msgs
  BY ElementOfSeq, Zenon DEF StateInv
<1>1. ASSUME NEW m \in Msgs, EmitProduce(m) PROVE LogInv'
  <2> DEFINE t == topicOf[m]
  <2>1. stage[m] # "produced" /\ stage' = [stage EXCEPT ![m] = "produced"] /\ DOMAIN stage = Msgs
    BY <1>1, Zenon DEF EmitProduce, StateInv
  <2>2. \A u \in Topics : \A i \in 1..Len(log[u]) : log[u][i] # m
    BY <2>1 DEF LogInv
  <2>3. \A u \in Topics : \A i \in 1..Len(log[u]) : stage'[log[u][i]] = "produced"
    BY <2>1, <1>0, Zenon DEF LogInv
  <2>4. stage'[m] = "produced"
    BY <2>1, Zenon
  <2>5. ASSUME NEW u \in Topics, u # t, NEW i \in 1..Len(log'[u])
        PROVE  /\ topicOf[log'[u][i]] = u /\ stage'[log'[u][i]] = "produced"
               /\ \A j \in 1..Len(log'[u]) : log'[u][i] = log'[u][j] => i = j
    BY <1>1, <2>3, <2>5, Produced DEF LogInv
  <2>6. ASSUME NEW i \in 1..Len(log'[t])
        PROVE  /\ topicOf[log'[t][i]] = t /\ stage'[log'[t][i]] = "produced"
               /\ \A j \in 1..Len(log'[t]) : log'[t][i] = log'[t][j] => i = j
    <3> DEFINE k == Len(log[t])
    <3>1. t \in Topics /\ k \in Nat /\ Len(log'[t]) = k + 1
      BY <1>1, Produced, Zenon
    <3>2. \A j \in 1..(k + 1) : log'[t][j] = IF j = k + 1 THEN m ELSE log[t][j]
      BY <1>1, <3>1, Produced
    <3>3. \A j \in 1..(k + 1) : j = k + 1 \/ j \in 1..k
      BY <3>1
    <3>4. \A j \in 1..k : topicOf[log[t][j]] = t /\ stage'[log[t][j]] = "produced" /\ log[t][j] # m
      BY <2>2, <2>3, <3>1 DEF LogInv
    <3>5. \A j, l \in 1..k : log[t][j] = log[t][l] => j = l
      BY <3>1, Zenon DEF LogInv
    <3> HIDE DEF k
    <3>6. topicOf[log'[t][i]] = t /\ stage'[log'[t][i]] = "produced"
      BY <2>4, <3>1, <3>2, <3>3, <3>4, Zenon
    <3>7. \A j \in 1..(k + 1) : log'[t][i] = log'[t][j] => i = j
      BY <3>1, <3>2, <3>3, <3>4, <3>5, Zenon
    <3> QED BY <3>1, <3>6, <3>7, Zenon
  <2> QED BY <2>5, <2>6 DEF LogInv
<1>2. CASE UNCHANGED log /\ \A m \in Msgs : stage[m] = "produced" => stage'[m] = "produced"
  BY <1>0, <1>2 DEF LogInv
<1> QED BY <1>1, <1>2, Zenon DEF Next, vars, On, Off, EmitHere, EmitFails, OnTopic, GoBack, Call, StateInv

\* Each step counts a message at most once, and only where a record is passed.
LEMMA CountStep == Inv /\ [Next]_vars => CountInv'
<1> SUFFICES ASSUME Inv, [Next]_vars PROVE CountInv'
  BY Zenon
<1>0. replays \in Nat /\ \A s \in Sockets, k \in Msgs : Got(s, k) \in Nat
  BY GotNat, Zenon DEF Inv, StateInv
<1>1. ASSUME NEW s \in Sockets, NEW t \in Topics, On(s, t) \/ Off(s, t) PROVE CountInv'
  BY <1>1, CountKept, Zenon DEF On, Off, Got, Passed
<1>2. ASSUME NEW m \in Msgs, EmitHere(m) PROVE CountInv'
  <2> DEFINE n == nodeFrom[m]
  <2>1. UNCHANGED <<log, pos, replays>> /\ stage[m] = "idle"
    BY <1>2, Zenon DEF EmitHere
  <2>2. \A k \in Msgs : stage'[k] = IF k = m THEN "consumed" ELSE stage[k]
    BY <1>2, Zenon DEF EmitHere, Inv, StateInv
  <2>3. \A s \in Sockets : Got(s, m)' \in Nat /\ Got(s, m)' <= Got(s, m) + 1
    BY <1>2, ConsumeCounts, Zenon DEF EmitHere, Inv
  <2>4. \A s \in Sockets, k \in Msgs : k # m \/ nodeOf[s] # n => Got(s, k)' = Got(s, k)
    BY <1>2, ConsumeCounts, Zenon DEF EmitHere, Inv
  <2>5. \A k \in Msgs, x \in Nodes : Passed(k, x)' = Passed(k, x)
    BY <2>1, Zenon DEF Passed
  <2>6. \A s \in Sockets : nodeOf[s] \in Nodes
    BY RoutesAssumption, Zenon
  <2>7. \A s \in Sockets : nodeOf[s] = n => Got(s, m) <= 0
    BY <2>1, Zenon DEF Inv, CountInv
  <2> QED BY <1>0, <2>1, <2>2, <2>3, <2>4, <2>5, <2>6, <2>7 DEF Inv, CountInv
<1>3. ASSUME NEW m \in Msgs, EmitProduce(m) PROVE CountInv'
  <2>1. \A s \in Sockets, k \in Msgs : Got(s, k)' = Got(s, k)
    BY <1>3, Zenon DEF EmitProduce, Got
  <2>2. \A k \in Msgs : stage[k] # "idle" => stage'[k] # "idle"
    BY <1>3, Zenon DEF EmitProduce, Inv, StateInv
  <2>3. ASSUME NEW s \in Sockets, NEW k \in Msgs, Passed(k, nodeOf[s]) PROVE Passed(k, nodeOf[s])'
    <3>1. PICK i \in 1..Len(log[topicOf[k]]) : i <= pos[nodeOf[s]][topicOf[k]] /\ log[topicOf[k]][i] = k
      BY <2>3, Zenon DEF Passed
    <3>2. topicOf[k] \in Topics /\ topicOf[m] \in Topics
      BY RoutesAssumption, Zenon
    <3>3. i \in 1..Len(log'[topicOf[k]]) /\ log'[topicOf[k]][i] = k
      <4>1. CASE topicOf[k] = topicOf[m]
        <5>1. /\ Len(log[topicOf[m]]) \in Nat /\ Len(log'[topicOf[m]]) = Len(log[topicOf[m]]) + 1
              /\ log'[topicOf[m]][i] = log[topicOf[m]][i]
          BY <1>3, <3>1, <4>1, Produced, Zenon DEF Inv
        <5> QED BY <5>1, <3>1, <4>1
      <4>2. CASE topicOf[k] # topicOf[m]
        <5>1. log'[topicOf[k]] = log[topicOf[k]]
          BY <1>3, <3>2, <4>2, Produced, Zenon DEF Inv
        <5> QED BY <5>1, <3>1, Zenon
      <4> QED BY <4>1, <4>2, Zenon
    <3>4. pos' = pos
      BY <1>3, Zenon DEF EmitProduce
    <3> QED BY <3>1, <3>3, <3>4, Zenon DEF Passed
  <2>4. UNCHANGED replays
    BY <1>3, Zenon DEF EmitProduce
  <2> QED BY <2>1, <2>2, <2>3, <2>4, CountKept, Zenon
<1>4. ASSUME NEW m \in Msgs, EmitFails(m) PROVE CountInv'
  <2>1. \A k \in Msgs : stage[k] # "idle" => stage'[k] # "idle"
    BY <1>4, Zenon DEF EmitFails, Inv, StateInv
  <2> QED BY <1>4, <2>1, CountKept, Zenon DEF EmitFails, Got, Passed
<1>5. ASSUME NEW n \in Nodes, NEW t \in Topics, OnTopic(n, t) PROVE CountInv'
  <2>1. PICK i \in 1..Len(log[t]) : i = pos[n][t] + 1
    BY <1>5, LenProperties DEF OnTopic, Inv, StateInv
  <2>2. PICK m \in Msgs : m = log[t][i]
    BY <2>1, ElementOfSeq, Zenon DEF Inv, StateInv
  <2>3. UNCHANGED <<stage, log, replays, ran>> /\ tasks' = IF Foreign(m, n) THEN Consume(m, n) ELSE tasks
    BY <1>5, <2>1, <2>2, Zenon DEF OnTopic
  <2>4. \A x \in Nodes, u \in Topics : /\ pos[x][u] \in Nat
                                       /\ pos'[x][u] = IF x = n /\ u = t THEN pos[n][t] + 1 ELSE pos[x][u]
    BY <1>5, Zenon DEF OnTopic, Inv, StateInv
  <2>5. topicOf[m] = t
    BY <2>2, Zenon DEF Inv, LogInv
  <2>6. \A k \in Msgs : topicOf[k] \in Topics
    BY RoutesAssumption, Zenon
  <2>7. \A s \in Sockets : nodeOf[s] \in Nodes
    BY RoutesAssumption, Zenon
  <2>8. \A k \in Msgs, x \in Nodes : Passed(k, x) => Passed(k, x)'
    BY <2>3, <2>4, <2>6 DEF Passed
  <2>9. CASE ~Foreign(m, n)
    <3>1. \A s \in Sockets, k \in Msgs : Got(s, k)' = Got(s, k)
      BY <2>3, <2>9, Zenon DEF Got
    <3> QED BY <3>1, <2>3, <2>7, <2>8, CountKept, Zenon
  <2>10. CASE Foreign(m, n)
    <3>1. \A s \in Sockets : Got(s, m)' \in Nat /\ Got(s, m)' <= Got(s, m) + 1
      BY <2>3, <2>10, ConsumeCounts, Zenon DEF Inv
    <3>2. \A s \in Sockets, k \in Msgs : k # m \/ nodeOf[s] # n => Got(s, k)' = Got(s, k)
      BY <2>3, <2>10, ConsumeCounts, Zenon DEF Inv
    <3>3. Passed(m, n)'
      BY <2>1, <2>2, <2>3, <2>4, <2>5 DEF Passed
    <3>4. ~Passed(m, n)
      <4>1. \A j \in 1..Len(log[t]) : log[t][j] = log[t][i] => j = i
        BY Zenon DEF Inv, LogInv
      <4>2. ~(i <= pos[n][t])
        BY <2>1, <2>4
      <4> QED BY <4>1, <4>2, <2>2, <2>5, Zenon DEF Passed
    <3>5. ASSUME NEW s \in Sockets, NEW k \in Msgs
          PROVE  Got(s, k)' <= IF nodeOf[s] = nodeFrom[k]
                      THEN IF stage'[k] = "idle" THEN 0 ELSE 1
                      ELSE IF Passed(k, nodeOf[s])' THEN 1 + replays' ELSE replays'
      <4>1. Got(s, k) <= IF nodeOf[s] = nodeFrom[k]
                      THEN IF stage[k] = "idle" THEN 0 ELSE 1
                      ELSE IF Passed(k, nodeOf[s]) THEN 1 + replays ELSE replays
        BY Zenon DEF Inv, CountInv
      <4>2. CASE k = m /\ nodeOf[s] = n
        <5>1. nodeOf[s] # nodeFrom[k]
          BY <4>2, <2>10, Zenon DEF Foreign
        <5>2. Got(s, k) <= replays
          BY <4>1, <4>2, <5>1, <3>4, Zenon
        <5>3. Got(s, k)' \in Nat /\ Got(s, k)' <= Got(s, k) + 1 /\ Got(s, k) \in Nat
          BY <4>2, <3>1, <1>0, Zenon
        <5>4. Passed(k, nodeOf[s])'
          BY <4>2, <3>3, Zenon
        <5> QED BY <5>1, <5>2, <5>3, <5>4, <1>0, <2>3
      <4>3. CASE k # m \/ nodeOf[s] # n
        <5>1. Got(s, k)' = Got(s, k) /\ Got(s, k) \in Nat
          BY <4>3, <3>2, <1>0, Zenon
        <5>2. Passed(k, nodeOf[s]) => Passed(k, nodeOf[s])'
          BY <2>7, <2>8, Zenon
        <5> QED BY <5>1, <5>2, <4>1, <1>0, <2>3
      <4> QED BY <4>2, <4>3, Zenon
    <3> QED BY <3>5, Zenon DEF CountInv
  <2> QED BY <2>9, <2>10, Zenon
<1>6. ASSUME NEW n \in Nodes, NEW t \in Topics, GoBack(n, t) PROVE CountInv'
  <2>1. UNCHANGED <<stage, log, tasks, ran>> /\ replays' = replays + 1
    BY <1>6, Zenon DEF GoBack
  <2>2. \A s \in Sockets, k \in Msgs : Got(s, k)' = Got(s, k)
    BY <2>1, Zenon DEF Got
  <2>3. ASSUME NEW s \in Sockets, NEW k \in Msgs
        PROVE  Got(s, k) <= IF nodeOf[s] = nodeFrom[k]
                      THEN IF stage[k] = "idle" THEN 0 ELSE 1 ELSE 1 + replays
    BY <1>0 DEF Inv, CountInv
  <2> QED BY <1>0, <2>1, <2>2, <2>3 DEF CountInv
<1>7. ASSUME NEW s \in Sockets, NEW m \in Msgs, Call(s, m) PROVE CountInv'
  <2>1. \A u \in Sockets, k \in Msgs : Got(u, k)' = Got(u, k)
    BY <1>7 DEF Call, Got, Inv, StateInv
  <2> QED BY <1>7, <2>1, CountKept, Zenon DEF Call, Passed
<1>8. CASE UNCHANGED vars
  BY <1>8, CountKept, Zenon DEF vars, Got, Passed
<1> QED BY <1>1, <1>2, <1>3, <1>4, <1>5, <1>6, <1>7, <1>8, Zenon DEF Next
-----------------------------------------------------------------------------
\* The inductive invariant of the messagers.
THEOREM InvHolds == Spec => []Inv
<1>1. Inv /\ [Next]_vars => Inv'
  BY StateStep, LogStep, CountStep, Zenon DEF Inv
<1> QED BY InitInv, <1>1, PTL DEF Spec

(***************************************************************************)
(* The NodeFrom test of the workers and the one place of a message in its  *)
(* topic: no callback of the sending node gets a message twice, and one of *)
(* another node no more often than its node reads the record.              *)
(***************************************************************************)
THEOREM OncePerRecordHolds == Spec => []OncePerRecord
<1>1. Inv => OncePerRecord
  <2> SUFFICES ASSUME Inv, NEW s \in Sockets, NEW m \in Msgs
               PROVE  Got(s, m) <= (IF nodeOf[s] = nodeFrom[m] THEN 1 ELSE 1 + replays)
    BY Zenon DEF OncePerRecord
  <2>1. replays \in Nat /\ Got(s, m) \in Nat
    BY GotNat, Zenon DEF Inv, StateInv
  <2> QED BY <2>1 DEF Inv, CountInv
<1> QED BY InvHolds, <1>1, PTL
=============================================================================
