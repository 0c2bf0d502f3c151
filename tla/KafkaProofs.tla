----------------------------- MODULE KafkaProofs -----------------------------
(***************************************************************************)
(* Proofs about module Kafka, for every length of the log, capacity of the *)
(* queue and number of assignments.                                        *)
(*                                                                         *)
(* That a node passes over no record is not inductive: it depends on what  *)
(* the goroutine of the current assignment still has in its batch and in   *)
(* its queue, and on what Poll holds for it.  ChainInv says that these     *)
(* follow each other without a gap, from the first offset that may be new  *)
(* to the worker up to the last offset fetched.  LifeInv says which        *)
(* assignment that goroutine belongs to.                                   *)
(***************************************************************************)
EXTENDS Kafka, SequenceTheorems, TLAPS

\* A goroutine of the process.
Active(g) == st[g] \in {"select", "work"}

\* Every offset up to x is in H.
Done(x, H) == 1..x \subseteq H

Last(b) == b[Len(b)]

\* A batch of records that follow each other in a log that ends at offset n.
Run(b, n) ==
  /\ b \in Seq(Nat) /\ b # <<>>
  /\ \A i \in 1..Len(b) : b[i] = b[1] + (i - 1) /\ b[i] \in 1..n

\* A queue of batches without a gap, its first and its last offset.
Chained(q, n) ==
  /\ q \in Seq(Seq(Nat))
  /\ \A k \in 1..Len(q) : Run(q[k], n)
  /\ \A k \in 1..(Len(q) - 1) : q[k + 1][1] = Last(q[k]) + 1
First(q) == q[1][1]
End(q) == Last(q[Len(q)])

(***************************************************************************)
(* The batch c and the queue q of a goroutine: no gap between them, and    *)
(* what comes before the next record to work on has been handled.          *)
(***************************************************************************)
NoGap(c, q, H, n) ==
  /\ c # <<>> => Run(c, n) /\ Done(c[1] - 1, H)
  /\ Chained(q, n)
  /\ q # <<>> => IF c = <<>> THEN Done(First(q) - 1, H) ELSE First(q) = Last(c) + 1

\* They end at offset x: what comes after it is for the goroutine to come.
EndsAt(c, q, H, x) ==
  IF q # <<>> THEN End(q) = x ELSE IF c # <<>> THEN Last(c) = x ELSE Done(x, H)

(***************************************************************************)
(* Only the goroutine of the last assignment may be running: it is the one *)
(* Poll passes records to, or it has been told to quit and killConsumers   *)
(* waits for it.                                                           *)
(***************************************************************************)
LifeInv ==
  /\ gen \in 0..MaxGens /\ cons \in {None, gen}
  /\ phase \in {"open", "revoke", "lose"}
  /\ st \in [Gens -> {"none", "select", "work", "done"}] /\ quit \in [Gens -> BOOLEAN]
  /\ \A g \in Gens : Active(g) => g = gen /\ (quit[g] <=> phase # "open")
  /\ \A g \in Gens : Active(g) /\ phase = "open" => cons = g
  /\ cons # None => phase = "open" /\ Active(gen)
  /\ \A g \in Gens : g > gen => st[g] = "none" /\ ~quit[g]
  /\ polled # <<>> => cons # None

(***************************************************************************)
(* What a running goroutine holds, what Poll holds for it and the end of   *)
(* the last fetch follow each other without a gap.  What is marked or      *)
(* committed has been handled.                                             *)
(***************************************************************************)
ChainInv ==
  /\ produced \in Nat /\ fetched \in 0..produced
  /\ committed \in 0..produced /\ marked \in 0..produced
  /\ Done(committed, handled) /\ Done(marked, handled)
  /\ cur \in [Gens -> Seq(Nat)] /\ recs \in [Gens -> Seq(Seq(Nat))]
  /\ \A g \in Gens : st[g] = "none" => cur[g] = <<>> /\ recs[g] = <<>>
  /\ \A g \in Gens : Active(g) => /\ st[g] = "work" <=> cur[g] # <<>>
                                  /\ NoGap(cur[g], recs[g], handled, produced)
  /\ cons # None =>
       IF polled = <<>> THEN EndsAt(cur[cons], recs[cons], handled, fetched)
       ELSE /\ Run(polled, produced) /\ Last(polled) = fetched
            /\ EndsAt(cur[cons], recs[cons], handled, polled[1] - 1)

\* The worker has seen a prefix of the log.
PrefixInv == handled \subseteq 1..produced /\ \A o \in handled : Done(o, handled)

Inv == LifeInv /\ ChainInv /\ PrefixInv
-----------------------------------------------------------------------------
\* Records produced later leave a run of the log one.
LEMMA RunGrows ==
  ASSUME NEW b, NEW m \in Nat, NEW n \in Nat, m <= n, Run(b, m)
  PROVE  Run(b, n)
BY DEF Run

\* Records produced later leave a queue without a gap.
LEMMA ChainGrows ==
  ASSUME NEW q, NEW m \in Nat, NEW n \in Nat, m <= n, Chained(q, m)
  PROVE  Chained(q, n)
BY RunGrows, Zenon DEF Chained

\* A batch has a first and a last record, offsets of the log.
LEMMA RunEnds ==
  ASSUME NEW n \in Nat, NEW b, Run(b, n)
  PROVE  /\ b \in Seq(Nat) /\ Len(b) \in Nat /\ Len(b) >= 1
         /\ Head(b) = b[1] /\ b[1] \in 1..n
         /\ Last(b) \in 1..n /\ Last(b) >= b[1]
<1>1. b \in Seq(Nat) /\ b # <<>>
  BY Zenon DEF Run
<1>2. Len(b) \in Nat \ {0}
  BY <1>1, EmptySeq, Zenon
<1>3. 1 \in 1..Len(b) /\ Len(b) \in 1..Len(b)
  BY <1>2
<1>4. b[1] \in 1..n /\ Last(b) \in 1..n /\ Last(b) = b[1] + (Len(b) - 1)
  BY <1>3, Zenon DEF Run, Last
<1> QED BY <1>1, <1>2, <1>4

\* EachRecord takes the records of a batch one by one: what is left is a run,
\* ends where the batch ended and starts one offset later.
LEMMA RunTail ==
  ASSUME NEW n \in Nat, NEW b, Run(b, n)
  PROVE  /\ Len(b) = 1 => Tail(b) = <<>> /\ Last(b) = b[1]
         /\ Len(b) # 1 => /\ Run(Tail(b), n) /\ Tail(b) # <<>>
                          /\ Last(Tail(b)) = Last(b) /\ Tail(b)[1] = b[1] + 1
<1> DEFINE c == Tail(b)
           m == Len(b)
<1>1. m \in Nat /\ m >= 1
  BY RunEnds, Zenon
<1>2. c \in Seq(Nat) /\ Len(c) = m - 1 /\ \A i \in 1..Len(c) : c[i] = b[i + 1]
  BY HeadTailProperties, Zenon DEF Run
<1>3. \A i \in 1..m : b[i] = b[1] + (i - 1) /\ b[i] \in 1..n
  BY Zenon DEF Run
<1>4. Last(b) = b[m]
  BY Zenon DEF Last
<1>5. CASE m = 1
  <2>1. Len(c) = 0
    BY <1>2, <1>5
  <2>2. c = <<>>
    BY <1>2, <2>1, EmptySeq, Zenon
  <2> QED BY <2>2, <1>4, <1>5, Zenon
<1>6. CASE m # 1
  <2> HIDE DEF c, m
  <2>1. m > 1
    BY <1>1, <1>6
  <2>2. c # <<>>
    <3>1. Len(c) # 0
      BY <1>1, <1>2, <2>1
    <3> QED BY <1>2, <3>1, EmptySeq, Zenon
  <2>3. c[1] = b[2] /\ b[2] = b[1] + 1 /\ b[1] \in Nat
    BY <1>1, <1>2, <1>3, <2>1
  <2>4. ASSUME NEW i \in 1..Len(c)
        PROVE  c[i] = c[1] + (i - 1) /\ c[i] \in 1..n
    <3>1. i + 1 \in 1..m /\ i \in Nat
      BY <1>1, <1>2
    <3>2. c[i] = b[i + 1] /\ b[i + 1] = b[1] + i /\ b[i + 1] \in 1..n
      BY <1>2, <1>3, <3>1
    <3> QED BY <3>1, <3>2, <2>3
  <2>5. c[Len(c)] = b[m]
    BY <1>1, <1>2, <2>1
  <2> QED BY <1>2, <1>4, <1>6, <2>2, <2>3, <2>4, <2>5, Zenon DEF Run, Last, c, m
<1> QED BY <1>5, <1>6, Zenon

\* The records of a poll are a run that ends at the last offset fetched.
LEMMA RunOfPoll ==
  ASSUME NEW n \in Nat, NEW f \in 0..n, NEW e \in (f + 1)..n
  PROVE  LET b == [i \in 1..(e - f) |-> f + i]
         IN  Run(b, n) /\ Last(b) = e /\ b[1] = f + 1
<1> DEFINE b == [i \in 1..(e - f) |-> f + i]
<1>1. b \in Seq(Nat) /\ Len(b) = e - f /\ b # <<>>
  OBVIOUS
<1> QED BY <1>1 DEF Run, Last

\* The first batch of a queue and the rest of it.
LEMMA ChainTail ==
  ASSUME NEW n \in Nat, NEW q, Chained(q, n), q # <<>>
  PROVE  /\ Run(Head(q), n) /\ Head(q)[1] = First(q) /\ Chained(Tail(q), n)
         /\ Tail(q) = <<>> => Last(Head(q)) = End(q)
         /\ Tail(q) # <<>> => First(Tail(q)) = Last(Head(q)) + 1 /\ End(Tail(q)) = End(q)
<1> DEFINE r == Tail(q)
           m == Len(q)
<1>1. q \in Seq(Seq(Nat)) /\ m \in Nat \ {0}
  BY EmptySeq, Zenon DEF Chained
<1>2. r \in Seq(Seq(Nat)) /\ Len(r) = m - 1 /\ (\A k \in 1..Len(r) : r[k] = q[k + 1]) /\ Head(q) = q[1]
  BY <1>1, HeadTailProperties
<1>3. \A k \in 1..m : Run(q[k], n)
  BY Zenon DEF Chained
<1>4. \A k \in 1..(m - 1) : q[k + 1][1] = Last(q[k]) + 1
  BY Zenon DEF Chained
<1>5. r # <<>> => Len(r) \in Nat \ {0}
  BY <1>2, EmptySeq, Zenon
<1>6. r = <<>> => Len(r) = 0
  BY EmptySeq, Zenon
<1> HIDE DEF r, m
<1>7. Run(Head(q), n) /\ Head(q)[1] = First(q)
  BY <1>1, <1>2, <1>3 DEF First
<1>8. Chained(r, n)
  <2>1. \A k \in 1..Len(r) : Run(r[k], n)
    BY <1>1, <1>2, <1>3
  <2>2. ASSUME NEW k \in 1..(Len(r) - 1) PROVE r[k + 1][1] = Last(r[k]) + 1
    <3>1. k + 1 \in 1..(m - 1) /\ k \in 1..Len(r) /\ k + 1 \in 1..Len(r)
      BY <1>1, <1>2
    <3>2. r[k + 1] = q[k + 1 + 1] /\ r[k] = q[k + 1]
      BY <1>2, <3>1, Zenon
    <3> QED BY <1>4, <3>1, <3>2, Zenon
  <2> QED BY <1>2, <2>1, <2>2, Zenon DEF Chained
<1>9. r = <<>> => Last(Head(q)) = End(q)
  <2>1. r = <<>> => m = 1
    BY <1>1, <1>2, <1>6
  <2> QED BY <2>1, <1>2, Zenon DEF End, m
<1>10. ASSUME r # <<>>
       PROVE  First(r) = Last(Head(q)) + 1 /\ End(r) = End(q)
  <2>1. m - 1 \in Nat \ {0}
    BY <1>2, <1>5, <1>10, Zenon
  <2>2. r[1] = q[2] /\ q[2][1] = Last(q[1]) + 1 /\ r[Len(r)] = q[m]
    BY <1>1, <1>2, <1>4, <2>1
  <2> QED BY <2>2, <1>2, Zenon DEF First, End, m
<1> QED BY <1>7, <1>8, <1>9, <1>10, Zenon DEF r

\* recs <- p: a batch that starts after the end of the queue.
LEMMA ChainAppend ==
  ASSUME NEW n \in Nat, NEW q, Chained(q, n), NEW b, Run(b, n),
         q # <<>> => b[1] = End(q) + 1
  PROVE  /\ Chained(Append(q, b), n) /\ Append(q, b) # <<>> /\ End(Append(q, b)) = Last(b)
         /\ First(Append(q, b)) = IF q = <<>> THEN b[1] ELSE First(q)
<1> DEFINE r == Append(q, b)
           m == Len(q)
<1>1. q \in Seq(Seq(Nat)) /\ m \in Nat /\ b \in Seq(Nat)
  BY LenProperties, Zenon DEF Chained, Run
<1>2. r \in Seq(Seq(Nat)) /\ Len(r) = m + 1 /\ (\A k \in 1..m : r[k] = q[k]) /\ r[m + 1] = b
  BY <1>1, AppendProperties
<1>3. \A k \in 1..m : Run(q[k], n)
  BY Zenon DEF Chained
<1>4. \A k \in 1..(m - 1) : q[k + 1][1] = Last(q[k]) + 1
  BY Zenon DEF Chained
<1>5. q # <<>> => m \in Nat \ {0}
  BY <1>1, EmptySeq, Zenon
<1>6. q = <<>> => m = 0
  OBVIOUS
<1>7. r # <<>>
  BY <1>1, AppendProperties
<1>8. q # <<>> => End(q) = Last(q[m])
  BY Zenon DEF End
<1> HIDE DEF r, m
<1>9. ASSUME NEW k \in 1..Len(r) PROVE Run(r[k], n)
  <2>1. k \in 1..m \/ k = m + 1
    BY <1>1, <1>2
  <2>2. CASE k \in 1..m
    BY <2>2, <1>2, <1>3, Zenon
  <2>3. CASE k = m + 1
    BY <2>3, <1>2, Zenon
  <2> QED BY <2>1, <2>2, <2>3, Zenon
<1>10. ASSUME NEW k \in 1..(Len(r) - 1) PROVE r[k + 1][1] = Last(r[k]) + 1
  <2>1. k \in 1..m /\ m # 0
    BY <1>1, <1>2
  <2>2. CASE k = m
    <3>1. r[k + 1] = b /\ r[k] = q[m]
      BY <1>2, <2>1, <2>2, Zenon
    <3> QED BY <3>1, <2>1, <1>6, <1>8, Zenon
  <2>3. CASE k # m
    <3>1. k \in 1..(m - 1) /\ k + 1 \in 1..m
      BY <2>1, <2>3, <1>1
    <3> QED BY <3>1, <2>1, <1>2, <1>4, Zenon
  <2> QED BY <2>2, <2>3, Zenon
<1>11. Chained(r, n)
  BY <1>2, <1>9, <1>10, Zenon DEF Chained
<1>12. End(r) = Last(b)
  BY <1>2, Zenon DEF End
<1>13. First(r) = IF q = <<>> THEN b[1] ELSE First(q)
  <2>1. CASE q = <<>>
    BY <2>1, <1>6, <1>2 DEF First
  <2>2. CASE q # <<>>
    <3>1. 1 \in 1..m
      BY <2>2, <1>5, <1>1
    <3> QED BY <3>1, <2>2, <1>2, Zenon DEF First
  <2> QED BY <2>1, <2>2, Zenon
<1> QED BY <1>7, <1>11, <1>12, <1>13, Zenon DEF r

\* Records produced, and records handled, later leave no gap.
LEMMA NoGapGrows ==
  ASSUME NEW c, NEW q, NEW H, NEW I, H \subseteq I,
         NEW m \in Nat, NEW n \in Nat, m <= n, NoGap(c, q, H, m)
  PROVE  NoGap(c, q, I, n) /\ \A x : EndsAt(c, q, H, x) => EndsAt(c, q, I, x)
<1>1. \A x : Done(x, H) => Done(x, I)
  BY Zenon DEF Done
<1>2. c # <<>> => Run(c, n) /\ Done(c[1] - 1, I)
  BY <1>1, RunGrows, Zenon DEF NoGap
<1>3. Chained(q, n)
  BY ChainGrows, Zenon DEF NoGap
<1>4. q # <<>> => IF c = <<>> THEN Done(First(q) - 1, I) ELSE First(q) = Last(c) + 1
  BY <1>1, Zenon DEF NoGap
<1> QED BY <1>1, <1>2, <1>3, <1>4, Zenon DEF NoGap, EndsAt

\* case p := <-pc.recs takes the next batch, which leaves no gap.
LEMMA NoGapTake ==
  ASSUME NEW q, NEW H, NEW n \in Nat, q # <<>>, NoGap(<<>>, q, H, n)
  PROVE  /\ Head(q) # <<>> /\ NoGap(Head(q), Tail(q), H, n)
         /\ \A x : EndsAt(<<>>, q, H, x) => EndsAt(Head(q), Tail(q), H, x)
<1>1. Chained(q, n) /\ Done(First(q) - 1, H)
  BY Zenon DEF NoGap
<1>2. Run(Head(q), n) /\ Head(q) # <<>> /\ Done(Head(q)[1] - 1, H) /\ Chained(Tail(q), n)
  BY <1>1, ChainTail, Zenon DEF Run
<1>3. Tail(q) = <<>> => Last(Head(q)) = End(q)
  BY <1>1, ChainTail, Zenon
<1>4. Tail(q) # <<>> => First(Tail(q)) = Last(Head(q)) + 1 /\ End(Tail(q)) = End(q)
  BY <1>1, ChainTail, Zenon
<1>5. NoGap(Head(q), Tail(q), H, n)
  BY <1>2, <1>4, Zenon DEF NoGap
<1> QED BY <1>2, <1>3, <1>4, <1>5, Zenon DEF EndsAt

\* recs <- p of the records after the last the goroutine was given.
LEMMA NoGapAdd ==
  ASSUME NEW c, NEW q, NEW H, NEW n \in Nat, NoGap(c, q, H, n),
         NEW b, Run(b, n), EndsAt(c, q, H, b[1] - 1)
  PROVE  NoGap(c, Append(q, b), H, n) /\ EndsAt(c, Append(q, b), H, Last(b))
<1> DEFINE r == Append(q, b)
<1>1. b[1] \in 1..n
  BY RunEnds, Zenon
<1>2. Chained(q, n)
  BY Zenon DEF NoGap
<1>3. q # <<>> => b[1] = End(q) + 1
  BY <1>1 DEF EndsAt
<1>4. Chained(r, n) /\ r # <<>> /\ End(r) = Last(b)
  BY <1>2, <1>3, ChainAppend, Zenon
<1>5. First(r) = IF q = <<>> THEN b[1] ELSE First(q)
  BY <1>2, <1>3, ChainAppend, Zenon
<1> HIDE DEF r
<1>6. IF c = <<>> THEN Done(First(r) - 1, H) ELSE First(r) = Last(c) + 1
  <2>1. CASE q # <<>>
    BY <2>1, <1>5, Zenon DEF NoGap
  <2>2. CASE q = <<>> /\ c = <<>>
    BY <2>2, <1>5, Zenon DEF EndsAt
  <2>3. CASE q = <<>> /\ c # <<>>
    <3>1. Last(c) = b[1] - 1
      BY <2>3, Zenon DEF EndsAt
    <3> QED BY <3>1, <1>1, <1>5, <2>3
  <2> QED BY <2>1, <2>2, <2>3, Zenon
<1>7. NoGap(c, r, H, n)
  BY <1>4, <1>6, Zenon DEF NoGap
<1>8. EndsAt(c, r, H, Last(b))
  BY <1>4, Zenon DEF EndsAt
<1> QED BY <1>7, <1>8, Zenon DEF r

\* A record is handled after all that precede it, and extends what is done.
LEMMA DoneNext ==
  ASSUME NEW o \in Nat, NEW H, Done(o - 1, H)
  PROVE  Done(o, H \cup {o})
<1> SUFFICES ASSUME NEW i \in 1..o PROVE i \in H \cup {o}
  BY Zenon DEF Done
<1>1. i = o \/ i \in 1..(o - 1)
  OBVIOUS
<1> QED BY <1>1, Zenon DEF Done

\* pc.worker gets the next record of the batch, and the rest has no gap.
LEMMA NoGapWork ==
  ASSUME NEW c, NEW q, NEW H, NEW n \in Nat, NoGap(c, q, H, n), c # <<>>
  PROVE  LET o == Head(c)
             I == H \cup {o}
         IN  /\ o \in 1..n /\ Done(o - 1, H) /\ Done(o, I)
             /\ Tail(c) \in Seq(Nat) /\ (Tail(c) # <<>> <=> Len(c) # 1)
             /\ NoGap(Tail(c), q, I, n)
             /\ \A x : EndsAt(c, q, H, x) => EndsAt(Tail(c), q, I, x)
<1> DEFINE o == Head(c)
           I == H \cup {o}
           d == Tail(c)
<1>1. Run(c, n) /\ Done(c[1] - 1, H) /\ Chained(q, n)
  BY Zenon DEF NoGap
<1>2. o = c[1] /\ o \in 1..n /\ Last(c) \in 1..n /\ c \in Seq(Nat)
  BY <1>1, RunEnds, Zenon
<1>3. Done(o - 1, H) /\ Done(o, I)
  BY <1>1, <1>2, DoneNext
<1>4. Len(c) = 1 => d = <<>> /\ Last(c) = c[1]
  BY <1>1, RunTail, Zenon
<1>5. Len(c) # 1 => Run(d, n) /\ d # <<>> /\ Last(d) = Last(c) /\ d[1] = c[1] + 1
  BY <1>1, RunTail, Zenon
<1>6. d \in Seq(Nat)
  BY <1>1, <1>2, HeadTailProperties, Zenon DEF Run
<1>7. q # <<>> => First(q) = Last(c) + 1
  BY Zenon DEF NoGap
<1>8. \A x : Done(x, H) => Done(x, I)
  BY Zenon DEF Done
<1> HIDE DEF I, d, o
<1>9. CASE Len(c) = 1
  <2>1. d = <<>> /\ (q # <<>> => First(q) - 1 = o)
    BY <1>2, <1>4, <1>7, <1>9
  <2>2. NoGap(d, q, I, n)
    BY <2>1, <1>1, <1>3, Zenon DEF NoGap
  <2>3. \A x : EndsAt(c, q, H, x) => EndsAt(d, q, I, x)
    BY <2>1, <1>2, <1>3, <1>4, <1>9, Zenon DEF EndsAt
  <2> QED BY <2>1, <2>2, <2>3, <1>2, <1>3, <1>6, <1>9, Zenon DEF I, d, o
<1>10. CASE Len(c) # 1
  <2>1. Run(d, n) /\ d # <<>> /\ Last(d) = Last(c) /\ d[1] - 1 = o
    BY <1>2, <1>5, <1>10
  <2>2. NoGap(d, q, I, n)
    BY <2>1, <1>1, <1>3, <1>7, Zenon DEF NoGap
  <2>3. \A x : EndsAt(c, q, H, x) => EndsAt(d, q, I, x)
    BY <2>1, Zenon DEF EndsAt
  <2> QED BY <2>1, <2>2, <2>3, <1>2, <1>3, <1>6, <1>10, Zenon DEF I, d, o
<1> QED BY <1>9, <1>10, Zenon
-----------------------------------------------------------------------------
\* Nothing is assigned, fetched or handled when the node starts.
LEMMA InitInv == Init => Inv
<1> SUFFICES ASSUME Init PROVE Inv
  BY Zenon
<1>1. LifeInv
  BY KafkaAssumption DEF Init, LifeInv, Active, Gens, None
<1>2. ChainInv
  BY EmptySeq DEF Init, ChainInv, Active, Done, None
<1>3. PrefixInv
  BY Zenon DEF Init, PrefixInv
<1> QED BY <1>1, <1>2, <1>3, Zenon DEF Inv

(***************************************************************************)
(* The life of the pconsumers: killConsumers tells the one that runs to    *)
(* quit, its callback ends when that one is done, and a crash ends all.    *)
(***************************************************************************)
LEMMA LifeStep == LifeInv /\ [Next]_vars => LifeInv'
<1> SUFFICES ASSUME LifeInv, [Next]_vars PROVE LifeInv'
  BY Zenon
<1> USE KafkaAssumption DEF LifeInv, Active, Gens, None
<1>1. CASE Produce
  BY <1>1, Zenon DEF Produce, pcVars
<1>2. CASE Assigned
  BY <1>2 DEF Assigned
<1>3. CASE Poll
  BY <1>3, Zenon DEF Poll, pcVars
<1>4. CASE PassOn
  BY <1>4, Zenon DEF PassOn
<1>5. CASE AutoCommit
  BY <1>5, Zenon DEF AutoCommit, pcVars
<1>6. CASE CallbackEnds
  BY <1>6, Zenon DEF CallbackEnds, Killed, pcVars
<1>7. CASE Crash
  BY <1>7 DEF Crash
<1>8. ASSUME NEW g \in Gens, Take(g) PROVE LifeInv'
  BY <1>8, Zenon DEF Take
<1>9. ASSUME NEW g \in Gens, Work(g) PROVE LifeInv'
  BY <1>9, Zenon DEF Work
<1>10. ASSUME NEW g \in Gens, Quit(g) PROVE LifeInv'
  BY <1>10, Zenon DEF Quit
<1>11. ASSUME NEW p \in {"revoke", "lose"}, KillConsumers(p) PROVE LifeInv'
  BY <1>11, Zenon DEF KillConsumers, RebalanceAllowed
<1>12. CASE UNCHANGED vars
  BY <1>12, Zenon DEF vars, pcVars
<1> QED BY <1>1, <1>2, <1>3, <1>4, <1>5, <1>6, <1>7, <1>8, <1>9, <1>10, <1>11, <1>12, Zenon DEF Next

(***************************************************************************)
(* The record a goroutine works on: it is the one after those handled, or  *)
(* it has been handled before.                                             *)
(***************************************************************************)
LEMMA WorkOnNext ==
  ASSUME Inv, NEW g \in Gens, st[g] = "work"
  PROVE  LET o == Head(cur[g])
             I == handled \cup {o}
         IN  /\ cur[g] # <<>> /\ o \in 1..produced /\ Done(o - 1, handled) /\ Done(o, I)
             /\ Tail(cur[g]) \in Seq(Nat) /\ (Tail(cur[g]) # <<>> <=> Len(cur[g]) # 1)
             /\ NoGap(Tail(cur[g]), recs[g], I, produced)
             /\ \A x : EndsAt(cur[g], recs[g], handled, x) => EndsAt(Tail(cur[g]), recs[g], I, x)
<1>1. cur[g] # <<>> /\ NoGap(cur[g], recs[g], handled, produced) /\ produced \in Nat
  BY Zenon DEF Inv, ChainInv, Active
<1> QED BY <1>1, NoGapWork, Zenon

\* The worker goes on seeing a prefix of the log.
LEMMA PrefixStep == Inv /\ [Next]_vars => PrefixInv'
<1> SUFFICES ASSUME Inv, [Next]_vars PROVE PrefixInv'
  BY Zenon
<1> USE DEF Inv, PrefixInv
<1>0. produced \in Nat
  BY Zenon DEF ChainInv
<1>1. CASE Produce
  BY <1>0, <1>1 DEF Produce
<1>2. ASSUME NEW g \in Gens, Work(g) PROVE PrefixInv'
  <2> DEFINE o == Head(cur[g])
  <2>1. o \in 1..produced /\ Done(o, handled \cup {o})
    BY <1>2, WorkOnNext, Zenon DEF Work
  <2>2. handled' = handled \cup {o} /\ produced' = produced
    BY <1>2, Zenon DEF Work
  <2>3. \A i \in handled : Done(i, handled')
    BY <2>2, Zenon DEF Done
  <2> QED BY <2>1, <2>2, <2>3, Zenon
<1>3. CASE UNCHANGED <<produced, handled>>
  BY <1>3, Zenon
<1> QED BY <1>1, <1>2, <1>3, Zenon DEF Next, vars, Assigned, Poll, PassOn, AutoCommit, CallbackEnds,
                                 Crash, Take, Quit, KillConsumers

(***************************************************************************)
(* No step opens a gap between what a goroutine holds, what Poll holds and *)
(* the end of the last fetch.                                              *)
(***************************************************************************)
LEMMA ChainStep == Inv /\ [Next]_vars => ChainInv'
<1> SUFFICES ASSUME Inv, [Next]_vars PROVE ChainInv'
  BY Zenon
<1> USE DEF Inv
<1>0. produced \in Nat /\ cons \in {None, gen} /\ gen \in 0..MaxGens
  BY Zenon DEF ChainInv, LifeInv
<1>1. CASE Produce
  <2>1. produced' \in Nat /\ produced <= produced' /\ handled \subseteq handled'
    BY <1>0, <1>1 DEF Produce
  <2>2. UNCHANGED <<committed, marked, cons, fetched, polled, st, recs, cur, handled>>
    BY <1>1, Zenon DEF Produce, pcVars
  <2>3. \A g \in Gens : Active(g)' => NoGap(cur[g], recs[g], handled, produced)'
    BY <2>1, <2>2, <1>0, NoGapGrows, Zenon DEF ChainInv, Active
  <2>4. polled # <<>> /\ cons # None => Run(polled, produced')
    BY <2>1, <1>0, RunGrows, Zenon DEF ChainInv
  <2> QED BY <2>1, <2>2, <2>3, <2>4, <1>0 DEF ChainInv, Active
<1>2. CASE Assigned
  <2>1. gen + 1 \in Gens /\ cons' = gen + 1 /\ st[gen + 1] = "none" /\ polled = <<>>
    BY <1>0, <1>2, KafkaAssumption DEF Assigned, LifeInv, Gens, None
  <2>2. UNCHANGED <<produced, committed, polled, recs, cur, handled>>
    BY <1>2, Zenon DEF Assigned
  <2>3. fetched' = committed /\ marked' = committed
    BY <1>2, Zenon DEF Assigned, ResumeAt
  <2>4. cur[gen + 1] = <<>> /\ recs[gen + 1] = <<>>
    BY <2>1, Zenon DEF ChainInv
  <2>5. NoGap(<<>>, <<>>, handled, produced) /\ EndsAt(<<>>, <<>>, handled, committed)
    BY EmptySeq DEF NoGap, EndsAt, Chained, ChainInv
  <2>6. st' = [st EXCEPT ![gen + 1] = "select"] /\ st \in [Gens -> {"none", "select", "work", "done"}]
    BY <1>2, Zenon DEF Assigned, LifeInv
  <2>7. \A g \in Gens : st'[g] = IF g = gen + 1 THEN "select" ELSE st[g]
    BY <2>6, Zenon
  <2> QED BY <2>1, <2>2, <2>3, <2>4, <2>5, <2>7, Zenon DEF ChainInv, Active
<1>3. CASE Poll
  <2>1. PICK end \in (fetched + 1)..produced :
           polled' = [i \in 1..(end - fetched) |-> fetched + i] /\ fetched' = end
    BY <1>3, Zenon DEF Poll
  <2>2. UNCHANGED <<produced, committed, marked, cons, st, recs, cur, handled>> /\ polled = <<>> /\ cons # None
    BY <1>3, Zenon DEF Poll, pcVars
  <2>3. fetched \in 0..produced /\ EndsAt(cur[cons], recs[cons], handled, fetched)
    BY <2>2, Zenon DEF ChainInv
  <2>4. Run(polled', produced) /\ Last(polled') = end /\ polled'[1] = fetched + 1
    BY <1>0, <2>1, <2>3, RunOfPoll, Zenon
  <2>5. polled' # <<>> /\ end \in 0..produced /\ polled'[1] - 1 = fetched
    BY <2>3, <2>4, <1>0 DEF Run
  <2> QED BY <2>1, <2>2, <2>3, <2>4, <2>5, Zenon DEF ChainInv, Active
<1>4. CASE PassOn
  <2>1. UNCHANGED <<produced, committed, marked, cons, fetched, st, cur, handled>>
    BY <1>4, Zenon DEF PassOn
  <2>2. polled # <<>> /\ cons = gen /\ cons \in Gens /\ cons # None /\ Active(cons)
    BY <1>0, <1>4 DEF PassOn, LifeInv, Gens, None
  <2>3. recs \in [Gens -> Seq(Seq(Nat))] /\ recs' = [recs EXCEPT ![cons] = Append(recs[cons], polled)] /\ polled' = <<>>
    BY <1>4, Zenon DEF PassOn, ChainInv
  <2>4. /\ NoGap(cur[cons], recs[cons], handled, produced) /\ Run(polled, produced)
        /\ Last(polled) = fetched /\ EndsAt(cur[cons], recs[cons], handled, polled[1] - 1)
    BY <2>2, Zenon DEF ChainInv
  <2>5. /\ NoGap(cur[cons], Append(recs[cons], polled), handled, produced)
        /\ EndsAt(cur[cons], Append(recs[cons], polled), handled, fetched)
    BY <2>4, <1>0, NoGapAdd, Zenon
  <2>6. Append(recs[cons], polled) \in Seq(Seq(Nat))
    BY <2>5, Zenon DEF NoGap, Chained
  <2>7. recs' \in [Gens -> Seq(Seq(Nat))] /\ \A g \in Gens : recs'[g] = IF g = cons THEN Append(recs[cons], polled) ELSE recs[g]
    BY <2>2, <2>3, <2>6, Zenon
  <2> QED BY <2>1, <2>2, <2>3, <2>5, <2>7, Zenon DEF ChainInv, Active
<1>5. CASE AutoCommit
  BY <1>5, Zenon DEF AutoCommit, pcVars, ChainInv, Active
<1>6. CASE CallbackEnds
  <2>1. committed' \in {committed, marked} /\ marked' = committed'
    BY <1>6, Zenon DEF CallbackEnds
  <2>2. UNCHANGED <<produced, cons, fetched, polled, st, recs, cur, handled>>
    BY <1>6, Zenon DEF CallbackEnds, pcVars
  <2> QED BY <2>1, <2>2, Zenon DEF ChainInv, Active
<1>7. CASE Crash
  <2>1. UNCHANGED <<produced, committed, fetched, handled>> /\ cons' = None /\ marked' = committed
    BY <1>7, Zenon DEF Crash
  <2>2. recs' = [g \in Gens |-> <<>>] /\ cur' = [g \in Gens |-> <<>>]
    BY <1>7, Zenon DEF Crash
  <2>3. \A g \in Gens : ~Active(g)'
    BY <1>7, Zenon DEF Crash, Active
  <2> QED BY <2>1, <2>2, <2>3, EmptySeq, Zenon DEF ChainInv
<1>8. ASSUME NEW g \in Gens, Take(g) PROVE ChainInv'
  <2>1. UNCHANGED <<produced, committed, marked, cons, fetched, polled, handled>>
    BY <1>8, Zenon DEF Take
  <2>2. st[g] = "select" /\ cur[g] = <<>> /\ recs[g] # <<>> /\ NoGap(<<>>, recs[g], handled, produced)
    BY <1>8, Zenon DEF Take, ChainInv, Active
  <2>3. Head(recs[g]) # <<>> /\ NoGap(Head(recs[g]), Tail(recs[g]), handled, produced)
    BY <2>2, <1>0, NoGapTake, Zenon
  <2>4. \A x : EndsAt(cur[g], recs[g], handled, x) => EndsAt(Head(recs[g]), Tail(recs[g]), handled, x)
    BY <2>2, <1>0, NoGapTake, Zenon
  <2>5. Head(recs[g]) \in Seq(Nat) /\ Tail(recs[g]) \in Seq(Seq(Nat))
    BY <2>3, Zenon DEF NoGap, Chained, Run
  <2>6. /\ st' = [st EXCEPT ![g] = "work"] /\ cur' = [cur EXCEPT ![g] = Head(recs[g])]
        /\ recs' = [recs EXCEPT ![g] = Tail(recs[g])]
        /\ st \in [Gens -> {"none", "select", "work", "done"}]
        /\ cur \in [Gens -> Seq(Nat)] /\ recs \in [Gens -> Seq(Seq(Nat))]
    BY <1>8, Zenon DEF Take, LifeInv, ChainInv
  <2>7. cur' \in [Gens -> Seq(Nat)] /\ recs' \in [Gens -> Seq(Seq(Nat))]
    BY <2>5, <2>6, Zenon
  <2>8. \A h \in Gens : /\ st'[h] = IF h = g THEN "work" ELSE st[h]
                        /\ cur'[h] = IF h = g THEN Head(recs[g]) ELSE cur[h]
                        /\ recs'[h] = IF h = g THEN Tail(recs[g]) ELSE recs[h]
    BY <2>6, Zenon
  <2>9. cons # None => cons \in Gens
    BY <1>0 DEF Gens, None
  <2> QED BY <2>1, <2>3, <2>4, <2>7, <2>8, <2>9, Zenon DEF ChainInv, Active
<1>9. ASSUME NEW g \in Gens, Work(g) PROVE ChainInv'
  <2> DEFINE o == Head(cur[g])
             I == handled \cup {o}
  <2>1. UNCHANGED <<produced, committed, cons, fetched, polled, recs>> /\ handled' = I
    BY <1>9, Zenon DEF Work
  <2>2. /\ o \in 1..produced /\ Done(o, I) /\ Tail(cur[g]) \in Seq(Nat)
        /\ Tail(cur[g]) # <<>> <=> Len(cur[g]) # 1
        /\ NoGap(Tail(cur[g]), recs[g], I, produced)
    BY <1>9, WorkOnNext, Zenon DEF Work
  <2>3. \A x : EndsAt(cur[g], recs[g], handled, x) => EndsAt(Tail(cur[g]), recs[g], I, x)
    BY <1>9, WorkOnNext, Zenon DEF Work
  <2>4. \A x : Done(x, handled) => Done(x, I)
    BY Zenon DEF Done
  <2>5. marked' \in 0..produced /\ Done(marked', I)
    <3>1. marked' \in {marked, o}
      BY <1>9, Zenon DEF Work, Mark
    <3>2. marked \in 0..produced /\ Done(marked, handled)
      BY Zenon DEF ChainInv
    <3>3. o \in 0..produced
      BY <2>2, <1>0
    <3> HIDE DEF o, I
    <3> QED BY <3>1, <3>2, <3>3, <2>2, <2>4, Zenon
  <2>6. /\ cur' = [cur EXCEPT ![g] = Tail(cur[g])]
        /\ st' = [st EXCEPT ![g] = IF Len(cur[g]) = 1 THEN "select" ELSE "work"]
        /\ st \in [Gens -> {"none", "select", "work", "done"}] /\ cur \in [Gens -> Seq(Nat)]
    BY <1>9, Zenon DEF Work, LifeInv, ChainInv
  <2>7. cur' \in [Gens -> Seq(Nat)]
    BY <2>2, <2>6, Zenon
  <2>8. \A h \in Gens : /\ st'[h] = IF h = g THEN IF Len(cur[g]) = 1 THEN "select" ELSE "work" ELSE st[h]
                        /\ cur'[h] = IF h = g THEN Tail(cur[g]) ELSE cur[h]
    BY <2>6, Zenon
  <2>9. \A h \in Gens : Active(h)' => h = g
    BY <2>8, <1>9 DEF Work, LifeInv, Active
  <2>10. cons # None => cons = g
    BY <1>0, <1>9, Zenon DEF Work, LifeInv, Active, Gens, None
  <2>11. cons # None /\ polled = <<>> => EndsAt(cur'[cons], recs[cons], I, fetched)
    BY <2>3, <2>8, <2>10, Zenon DEF ChainInv
  <2>12. cons # None /\ polled # <<>> => EndsAt(cur'[cons], recs[cons], I, polled[1] - 1)
    BY <2>3, <2>8, <2>10, Zenon DEF ChainInv
  <2>13. \A h \in Gens : Active(h)' => (st'[h] = "work" <=> cur'[h] # <<>>) /\ NoGap(cur'[h], recs[h], I, produced)
    BY <2>2, <2>8, <2>9, Zenon
  <2>14. \A h \in Gens : st'[h] = "none" => cur'[h] = <<>> /\ recs[h] = <<>>
    BY <2>8, Zenon DEF ChainInv
  <2> HIDE DEF I
  <2> QED BY <2>1, <2>4, <2>5, <2>7, <2>11, <2>12, <2>13, <2>14, Zenon DEF ChainInv
<1>10. ASSUME NEW g \in Gens, Quit(g) PROVE ChainInv'
  <2>1. UNCHANGED <<produced, committed, marked, cons, fetched, polled, recs, cur, handled>>
    BY <1>10, Zenon DEF Quit
  <2>2. \A h \in Gens : st'[h] = IF h = g THEN "done" ELSE st[h]
    BY <1>10, Zenon DEF Quit, LifeInv
  <2> QED BY <2>1, <2>2, Zenon DEF ChainInv, Active
<1>11. ASSUME NEW p \in {"revoke", "lose"}, KillConsumers(p) PROVE ChainInv'
  BY <1>11, Zenon DEF KillConsumers, ChainInv, Active
<1>12. CASE UNCHANGED vars
  BY <1>12, Zenon DEF vars, pcVars, ChainInv, Active
<1> QED BY <1>1, <1>2, <1>3, <1>4, <1>5, <1>6, <1>7, <1>8, <1>9, <1>10, <1>11, <1>12, Zenon DEF Next
-----------------------------------------------------------------------------
\* The inductive invariant of the consumption of a partition.
THEOREM InvHolds == Spec => []Inv
<1>1. Inv /\ [Next]_vars => Inv'
  BY LifeStep, ChainStep, PrefixStep, Zenon DEF Inv
<1> QED BY InitInv, <1>1, PTL DEF Spec

(***************************************************************************)
(* Poll finds the pconsumer it indexes: no rebalance comes between the     *)
(* fetch and s.consumers[tp].recs <- p.                                    *)
(***************************************************************************)
THEOREM ConsumerExistsHolds == Spec => []ConsumerExists
<1>1. Inv => ConsumerExists
  BY Zenon DEF Inv, LifeInv, ConsumerExists
<1> QED BY InvHolds, <1>1, PTL

(***************************************************************************)
(* One goroutine at a time: the wg.Wait of killConsumers ends the last one *)
(* before assigned starts the next.                                        *)
(***************************************************************************)
THEOREM OneWorkerHolds == Spec => []OneWorker
<1>1. Inv => OneWorker
  BY Zenon DEF Inv, LifeInv, Active, OneWorker
<1> QED BY InvHolds, <1>1, PTL

(***************************************************************************)
(* What the group has committed has been handled: a restart passes over no *)
(* record.                                                                 *)
(***************************************************************************)
CommittedIsHandled == Done(committed, handled)

\* MarkCommitRecords comes after EachRecord, and only marks are committed.
THEOREM CommittedIsHandledHolds == Spec => []CommittedIsHandled
<1>1. Inv => CommittedIsHandled
  BY Zenon DEF Inv, ChainInv, CommittedIsHandled
<1> QED BY InvHolds, <1>1, PTL

(***************************************************************************)
(* The steps of a node are steps of an ordered delivery: a worker that     *)
(* sees a record for the first time has seen all before it.                *)
(***************************************************************************)
THEOREM StepsDeliver == Spec => Delivery!Init /\ [][Delivery!Next]_<<produced, handled>>
<1>1. Init => Delivery!Init
  BY Zenon DEF Init, Delivery!Init
<1>2. ASSUME Inv, [Next]_vars
      PROVE  [Delivery!Next]_<<produced, handled>>
  <2>1. CASE Produce
    BY <2>1, Zenon DEF Produce, Delivery!Next, Delivery!Produce
  <2>2. ASSUME NEW g \in Gens, Work(g)
        PROVE  [Delivery!Next]_<<produced, handled>>
    <3> DEFINE o == Head(cur[g])
    <3>1. o \in 1..produced /\ Done(o - 1, handled)
      BY <1>2, <2>2, WorkOnNext, Zenon DEF Work
    <3>2. handled' = handled \cup {o} /\ produced' = produced
      BY <2>2, Zenon DEF Work
    <3>3. CASE o \in handled
      BY <3>2, <3>3, Zenon
    <3>4. CASE o \notin handled
      BY <3>1, <3>2, <3>4, Zenon DEF Done, Delivery!Next, Delivery!Handle
    <3> QED BY <3>3, <3>4, Zenon
  <2>3. CASE UNCHANGED <<produced, handled>>
    BY <2>3, Zenon
  <2> QED BY <1>2, <2>1, <2>2, <2>3, Zenon DEF Next, vars, Assigned, Poll, PassOn, AutoCommit, CallbackEnds,
                                 Crash, Take, Quit, KillConsumers
<1> QED BY InvHolds, <1>1, <1>2, PTL DEF Spec
=============================================================================
