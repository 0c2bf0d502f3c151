--------------------------- MODULE RecordingProofs ---------------------------
(***************************************************************************)
(* The end of a track and the document of a recording: the safety          *)
(* properties of Recording, proved for any finite set of tracks, any       *)
(* forwarders and any channel capacity.                                    *)
(*                                                                         *)
(* A consumer is on the list of its track until it has been told the end,  *)
(* and then never again; so the recorder's end is the last that the track  *)
(* puts into pktCh, and the tracks counted in closedTrackNum are exactly   *)
(* those whose end has gone through the channel.  The contexts of a        *)
(* segmenter are numbered, and only the first inserts.                     *)
(***************************************************************************)
EXTENDS Recording, SequenceTheorems, FiniteSetTheorems, TLAPS

In(c, s) == \E i \in 1 .. Len(s) : s[i] = c
Once(s) == \A i, j \in 1 .. Len(s) : s[i] = s[j] => i = j

Readers(t) == [at : {"none", "idle", "calling"}, todo : Seq(Consumers(t)), end : BOOLEAN]
Items == [track : Tracks, end : BOOLEAN]
Contexts == [gen : Gens, n : Nat, first : BOOLEAN, last : BOOLEAN]

\* The fields of the tracks and of pktCh.
StateInv ==
  /\ DOMAIN consumers = Tracks /\ DOMAIN reader = Tracks /\ DOMAIN eofs = Tracks
  /\ \A t \in Tracks : /\ consumers[t] \in Seq(Consumers(t))
                       /\ reader[t] \in Readers(t)
                       /\ eofs[t] \in [Consumers(t) -> Nat]
                       /\ Free(t) => reader[t].todo = <<>>
  /\ pktCh \in Seq(Items) /\ shut \subseteq Tracks

\* A consumer is on its track's list once, and only before it is told the end;
\* whom the loop has still to call is on the list.
ListInv ==
  \A t \in Tracks :
    /\ Once(consumers[t]) /\ Once(reader[t].todo)
    /\ \A c \in Consumers(t) :
         /\ In(c, reader[t].todo) => In(c, consumers[t])
         /\ In(c, consumers[t]) => eofs[t][c] = 0
         /\ eofs[t][c] <= 1
    /\ ~recordStart => ~In(Recorder, consumers[t]) /\ eofs[t][Recorder] = 0

\* The tracks whose end the recorder's consumer was told, and those of them of which
\* nothing is in the channel any more: the recording goroutine has taken their end.
Told == {t \in Tracks : eofs[t][Recorder] # 0}
Through(q, T) == {t \in T : \A i \in 1 .. Len(q) : q[i].track # t}

\* An end in the channel was told and is the last of its track; a track whose end was
\* told has it still in the channel, or nothing.
EndsLast(q, T) ==
  /\ \A i, j \in 1 .. Len(q) : i < j /\ q[i].end => q[j].track # q[i].track
  /\ \A i \in 1 .. Len(q) : q[i].end => q[i].track \in T
  /\ \A i \in 1 .. Len(q) : q[i].track \in T =>
       \E j \in 1 .. Len(q) : q[j].end /\ q[j].track = q[i].track

\* closedTrackNum counts the tracks whose end has gone through pktCh.
QueueInv ==
  /\ EndsLast(pktCh, Told)
  /\ shut \subseteq Through(pktCh, Told)
  /\ closedTrackNum = Cardinality(Through(pktCh, Told))

\* A context that has still to be recorded has its number in its segmenter, the
\* first one has number 1, and a document was inserted only after it ran.
DocInv ==
  /\ gen \in Gens /\ DOMAIN reports = Gens /\ DOMAIN rec = Gens
  /\ pend \subseteq Contexts
  /\ \A g \in Gens : reports[g] \in Nat /\ rec[g].inserts \in 0 .. 1
  /\ \A p \in pend : p.n \in 1 .. reports[p.gen] /\ (p.first <=> p.n = 1)
  /\ \A p, q \in pend : p.gen = q.gen /\ p.n = q.n => p = q
  /\ \A g \in Gens : reports[g] = 0 => rec[g].inserts = 0
  /\ \A p \in pend : p.first => rec[p.gen].inserts = 0

Inv == StateInv /\ ListInv /\ QueueInv /\ DocInv
-----------------------------------------------------------------------------
\* An element is taken out of a sequence by its place.
LEMMA RemovedAt ==
  ASSUME NEW S, NEW s \in Seq(S), NEW i \in 1 .. Len(s)
  PROVE  /\ RemoveAt(s, i) \in Seq(S) /\ Len(RemoveAt(s, i)) = Len(s) - 1
         /\ \A j \in 1 .. Len(s) - 1 : RemoveAt(s, i)[j] = IF j < i THEN s[j] ELSE s[j + 1]
<1> DEFINE a == SubSeq(s, 1, i - 1)
           b == SubSeq(s, i + 1, Len(s))
<1>1. /\ a \in Seq(S) /\ Len(a) = i - 1
      /\ \A j \in 1 .. i - 1 : a[j] = s[j]
  OBVIOUS
<1>2. /\ b \in Seq(S) /\ Len(b) = Len(s) - i
      /\ \A j \in 1 .. Len(s) - i : b[j] = s[i + j]
  OBVIOUS
<1> HIDE DEF a, b
<1>3. /\ a \o b \in Seq(S) /\ Len(a \o b) = Len(s) - 1
      /\ \A j \in 1 .. Len(s) - 1 : (a \o b)[j] = IF j <= i - 1 THEN a[j] ELSE b[j - (i - 1)]
  <2>1. /\ a \o b \in Seq(S) /\ Len(a \o b) = Len(a) + Len(b)
        /\ \A j \in 1 .. Len(a) + Len(b) : (a \o b)[j] = IF j <= Len(a) THEN a[j] ELSE b[j - Len(a)]
    BY <1>1, <1>2, ConcatProperties, Zenon
  <2>2. Len(a) = i - 1 /\ Len(a) + Len(b) = Len(s) - 1
    BY <1>1, <1>2
  <2> QED BY <2>1, <2>2, Zenon
<1>4. \A j \in 1 .. Len(s) - 1 : (a \o b)[j] = IF j < i THEN s[j] ELSE s[j + 1]
  <2> TAKE j \in 1 .. Len(s) - 1
  <2>1. CASE j < i
    BY <1>1, <1>3, <2>1
  <2>2. CASE ~(j < i)
    <3>1. j - (i - 1) \in 1 .. Len(s) - i /\ i + (j - (i - 1)) = j + 1
      BY <2>2
    <3> QED BY <1>2, <1>3, <2>2, <3>1
  <2> QED BY <2>1, <2>2, Zenon
<1> QED BY <1>3, <1>4, Zenon DEF RemoveAt, a, b

\* removeConsumer: a consumer that is on the list once is off it, and nobody else.
LEMMA Removed ==
  ASSUME NEW S, NEW s \in Seq(S), Once(s), NEW c, In(c, s)
  PROVE  /\ RemoveFirst(s, c) \in Seq(S) /\ Once(RemoveFirst(s, c))
         /\ \A x : In(x, RemoveFirst(s, c)) <=> In(x, s) /\ x # c
<1>1. PICK i \in 1 .. Len(s) : s[i] = c
  BY Zenon DEF In
<1>2. {j \in 1 .. Len(s) : s[j] = c} = {i}
  BY <1>1, Zenon DEF Once
<1>3. Min({i}) = i
  BY DEF Min
<1>4. SelectInSeq(s, LAMBDA v : v = c) = i
  BY <1>2, <1>3, Zenon DEF SelectInSeq
<1>5. RemoveFirst(s, c) = RemoveAt(s, i)
  BY <1>1, <1>4, Zenon DEF RemoveFirst
<1>6. PICK r : r = RemoveFirst(s, c)
  BY Zenon
<1>7. /\ r \in Seq(S) /\ Len(r) = Len(s) - 1
      /\ \A j \in 1 .. Len(s) - 1 : r[j] = IF j < i THEN s[j] ELSE s[j + 1]
  BY <1>5, <1>6, RemovedAt, Zenon
<1>8. Len(s) \in Nat
  OBVIOUS
<1>9. Once(r)
  <2> SUFFICES ASSUME NEW j \in 1 .. Len(r), NEW k \in 1 .. Len(r), r[j] = r[k] PROVE j = k
    BY Zenon DEF Once
  <2>1. j \in 1 .. Len(s) /\ k \in 1 .. Len(s) /\ j + 1 \in 1 .. Len(s) /\ k + 1 \in 1 .. Len(s)
    BY <1>7, <1>8
  <2> QED BY <1>7, <2>1 DEF Once
<1>10. ASSUME NEW x, In(x, r) PROVE In(x, s) /\ x # c
  <2>1. PICK j \in 1 .. Len(r) : r[j] = x
    BY <1>10, Zenon DEF In
  <2>2. j \in 1 .. Len(s) /\ j + 1 \in 1 .. Len(s)
    BY <1>7, <1>8
  <2> QED BY <1>1, <1>7, <2>1, <2>2 DEF In, Once
<1>11. ASSUME NEW x, In(x, s), x # c PROVE In(x, r)
  <2>1. PICK j \in 1 .. Len(s) : s[j] = x
    BY <1>11, Zenon DEF In
  <2>2. CASE j < i
    BY <1>7, <1>8, <2>1, <2>2 DEF In
  <2>3. CASE j > i
    <3>1. j - 1 \in 1 .. Len(r) /\ ~(j - 1 < i) /\ (j - 1) + 1 = j
      BY <1>7, <1>8, <2>3
    <3> QED BY <1>7, <2>1, <3>1, Zenon DEF In
  <2> QED BY <1>1, <1>11, <2>1, <2>2, <2>3
<1> QED BY <1>6, <1>7, <1>9, <1>10, <1>11

\* OnRTPPacket: a consumer that is not on the list is put at its end.
LEMMA Listed ==
  ASSUME NEW S, NEW s \in Seq(S), NEW c \in S
  PROVE  /\ Append(s, c) \in Seq(S)
         /\ \A x : In(x, Append(s, c)) <=> In(x, s) \/ x = c
         /\ Once(s) /\ ~In(c, s) => Once(Append(s, c))
<1>1. /\ Append(s, c) \in Seq(S) /\ Len(Append(s, c)) = Len(s) + 1
      /\ \A i \in 1 .. Len(s) : Append(s, c)[i] = s[i]
      /\ Append(s, c)[Len(s) + 1] = c
      /\ Len(s) \in Nat
  OBVIOUS
<1>2. PICK r : r = Append(s, c)
  BY Zenon
<1> QED BY <1>1, <1>2 DEF In, Once

\* The loop of consumes goes on to the next consumer.
LEMMA Rest ==
  ASSUME NEW S, NEW s \in Seq(S), s # <<>>
  PROVE  /\ Tail(s) \in Seq(S) /\ Head(s) \in S /\ In(Head(s), s)
         /\ \A x : In(x, Tail(s)) => In(x, s)
         /\ Once(s) => Once(Tail(s)) /\ ~In(Head(s), Tail(s))
<1>1. Len(s) \in Nat \ {0}
  BY EmptySeq, Zenon
<1>2. /\ Tail(s) \in Seq(S) /\ Len(Tail(s)) = Len(s) - 1
      /\ \A i \in 1 .. Len(s) - 1 : Tail(s)[i] = s[i + 1]
      /\ Head(s) = s[1]
  BY <1>1
<1>3. PICK r : r = Tail(s)
  BY Zenon
<1>4. s[1] \in S
  BY <1>1
<1>5. \A i \in 1 .. Len(r) : r[i] = s[i + 1] /\ i + 1 \in 1 .. Len(s) /\ i + 1 # 1
  BY <1>1, <1>2, <1>3
<1>6. 1 \in 1 .. Len(s)
  BY <1>1
<1>7. \A x : In(x, r) => In(x, s)
  BY <1>5, Zenon DEF In
<1>8. Once(s) => Once(r)
  BY <1>5 DEF Once
<1>9. Once(s) => ~In(s[1], r)
  BY <1>5, <1>6, Zenon DEF Once, In
<1> QED BY <1>2, <1>3, <1>4, <1>6, <1>7, <1>8, <1>9, Zenon DEF In

\* Nobody is on an empty list.
LEMMA Nobody == Once(<<>>) /\ \A x : ~In(x, <<>>)
BY DEF Once, In

\* One call of a consumer (consumes): it is on the list and was not told the end
\* before; if it stops it is taken off, told, and not called again.
LEMMA Calls ==
  ASSUME StateInv, ListInv, NEW t \in Tracks, Call(t)
  PROVE  LET c == Head(reader[t].todo)
         IN  /\ c \in Consumers(t) /\ In(c, consumers[t]) /\ eofs[t][c] = 0
             /\ consumers'[t] \in Seq(Consumers(t)) /\ Once(consumers[t]')
             /\ \A x : In(x, consumers[t]') <=> In(x, consumers[t]) /\ (Stops(t, c) => x # c)
             /\ \A x \in Consumers(t) :
                  eofs'[t][x] = IF Stops(t, c) /\ x = c THEN 1 ELSE eofs[t][x]
             /\ eofs'[t] \in [Consumers(t) -> Nat]
             /\ reader'[t] = [reader[t] EXCEPT !.todo = Tail(@)]
             /\ reader'[t] \in Readers(t) /\ reader'[t].at = "calling"
             /\ Once(reader[t].todo') /\ ~In(c, reader[t].todo')
             /\ \A x : In(x, reader[t].todo') => In(x, reader[t].todo)
             /\ \A u \in Tracks \ {t} : /\ consumers'[u] = consumers[u]
                                        /\ reader'[u] = reader[u] /\ eofs'[u] = eofs[u]
             /\ DOMAIN consumers' = Tracks /\ DOMAIN reader' = Tracks /\ DOMAIN eofs' = Tracks
<1>1. /\ reader[t] \in Readers(t) /\ reader[t].at = "calling" /\ reader[t].todo # <<>>
      /\ consumers[t] \in Seq(Consumers(t)) /\ eofs[t] \in [Consumers(t) -> Nat]
      /\ DOMAIN consumers = Tracks /\ DOMAIN reader = Tracks /\ DOMAIN eofs = Tracks
      /\ Once(consumers[t]) /\ Once(reader[t].todo)
  BY Zenon DEF StateInv, ListInv, Call
<1>2. PICK q \in Seq(Consumers(t)) : q = reader[t].todo
  BY <1>1, Zenon DEF Readers
<1>3. PICK c : c = Head(q)
  BY Zenon
<1>4. /\ Tail(q) \in Seq(Consumers(t)) /\ c \in Consumers(t) /\ In(c, q)
      /\ \A x : In(x, Tail(q)) => In(x, q)
      /\ Once(Tail(q)) /\ ~In(c, Tail(q))
  BY <1>1, <1>2, <1>3, Rest
<1>5. In(c, consumers[t]) /\ eofs[t][c] = 0
  BY <1>2, <1>4, Zenon DEF ListInv
<1>6. /\ consumers' = IF Stops(t, c)
                      THEN [consumers EXCEPT ![t] = RemoveFirst(@, c)] ELSE consumers
      /\ eofs' = IF Stops(t, c) THEN [eofs EXCEPT ![t][c] = @ + 1] ELSE eofs
      /\ reader' = [reader EXCEPT ![t].todo = Tail(q)]
  BY <1>2, <1>3, Zenon DEF Call, StillToCall
<1>7. PICK l : l = RemoveFirst(consumers[t], c)
  BY Zenon
<1>8. /\ l \in Seq(Consumers(t)) /\ Once(l)
      /\ \A x : In(x, l) <=> In(x, consumers[t]) /\ x # c
  BY <1>1, <1>5, <1>7, Removed
<1>9. /\ consumers'[t] \in Seq(Consumers(t)) /\ Once(consumers[t]')
      /\ \A x : In(x, consumers[t]') <=> In(x, consumers[t]) /\ (Stops(t, c) => x # c)
      /\ DOMAIN consumers' = Tracks
      /\ \A u \in Tracks \ {t} : consumers'[u] = consumers[u]
  <2>1. CASE Stops(t, c)
    <3>1. consumers'[t] = l
      BY <1>1, <1>6, <1>7, <2>1
    <3> QED BY <1>1, <1>6, <1>8, <2>1, <3>1
  <2>2. CASE ~Stops(t, c)
    BY <1>1, <1>6, <2>2
  <2> QED BY <2>1, <2>2, Zenon
<1>10. /\ \A x \in Consumers(t) :
            eofs'[t][x] = IF Stops(t, c) /\ x = c THEN 1 ELSE eofs[t][x]
       /\ eofs'[t] \in [Consumers(t) -> Nat] /\ DOMAIN eofs' = Tracks
       /\ \A u \in Tracks \ {t} : eofs'[u] = eofs[u]
  <2>1. CASE Stops(t, c)
    BY <1>1, <1>4, <1>5, <1>6, <2>1
  <2>2. CASE ~Stops(t, c)
    BY <1>1, <1>6, <2>2
  <2> QED BY <2>1, <2>2, Zenon
<1>11. /\ reader'[t] = [reader[t] EXCEPT !.todo = Tail(q)]
       /\ DOMAIN reader' = Tracks
       /\ \A u \in Tracks \ {t} : reader'[u] = reader[u]
  BY <1>1, <1>6, Zenon
<1>12. /\ reader'[t] \in Readers(t) /\ reader'[t].at = "calling" /\ reader'[t].todo = Tail(q)
  BY <1>1, <1>4, <1>11, Zenon DEF Readers
<1> QED BY <1>2, <1>3, <1>4, <1>5, <1>9, <1>10, <1>11, <1>12

\* A consumer is added under consumerMu (OnRTPPacket): the loop is not running, so
\* nothing is under way, and a reader is there afterwards.
LEMMA Adds ==
  ASSUME StateInv, ListInv, NEW t \in Tracks, NEW c \in Consumers(t), Free(t)
  PROVE  /\ Added(t, c) \in Seq(Consumers(t))
         /\ \A x : In(x, Added(t, c)) <=> In(x, consumers[t]) \/ x = c
         /\ ~In(c, consumers[t]) => Once(Added(t, c))
         /\ Started(t) \in Readers(t) /\ Started(t).todo = <<>>
<1>1. /\ consumers[t] \in Seq(Consumers(t)) /\ Once(consumers[t])
      /\ reader[t] \in Readers(t) /\ reader[t].todo = <<>>
  BY Zenon DEF StateInv, ListInv
<1>2. Idle \in Readers(t) /\ Idle.todo = <<>>
  BY DEF Idle, Readers
<1>3. Started(t) \in Readers(t) /\ Started(t).todo = <<>>
  BY <1>1, <1>2, Zenon DEF Started
<1> QED BY <1>1, <1>3, Listed DEF Added

\* The steps that leave the lists, the readers, pktCh and the closed tracks alone.
Apart == \/ Close \/ RecordStops
         \/ \E t \in Tracks : End(t)
         \/ \E p \in pend : Record(p)

\* What such a step leaves unchanged.
LEMMA ApartKeeps ==
  Apart => UNCHANGED <<recordStart, consumers, reader, eofs, pktCh, shut, closedTrackNum>>
BY Zenon DEF Apart, Close, RecordStops, End, Record, pubVars, recVars

\* The steps of the recording goroutine that take from pktCh.
Takes == TakeEnd \/ TakePacket

\* What they leave unchanged, and what they take.
LEMMA TakesKeep ==
  Takes => /\ UNCHANGED <<recordStart, consumers, reader, eofs>>
           /\ pktCh # <<>> /\ pktCh' = Tail(pktCh)
           /\ shut' \subseteq shut \cup {t \in {Head(pktCh).track} : Head(pktCh).end}
           /\ closedTrackNum' = IF Head(pktCh).end THEN closedTrackNum + 1 ELSE closedTrackNum
<1>1. ASSUME TakeEnd
      PROVE  /\ UNCHANGED <<recordStart, consumers, reader, eofs>>
             /\ pktCh # <<>> /\ pktCh' = Tail(pktCh)
             /\ shut' \subseteq shut \cup {t \in {Head(pktCh).track} : Head(pktCh).end}
             /\ closedTrackNum' = IF Head(pktCh).end THEN closedTrackNum + 1 ELSE closedTrackNum
  BY <1>1, Zenon DEF TakeEnd, pubVars
<1>2. ASSUME TakePacket
      PROVE  /\ UNCHANGED <<recordStart, consumers, reader, eofs>>
             /\ pktCh # <<>> /\ pktCh' = Tail(pktCh)
             /\ shut' \subseteq shut \cup {t \in {Head(pktCh).track} : Head(pktCh).end}
             /\ closedTrackNum' = IF Head(pktCh).end THEN closedTrackNum + 1 ELSE closedTrackNum
  BY <1>2, Zenon DEF TakePacket, pubVars, recVars
<1> QED BY <1>1, <1>2, Zenon DEF Takes

\* The fields keep their types.
LEMMA StateStep == StateInv /\ ListInv /\ [Next]_vars => StateInv'
<1> SUFFICES ASSUME StateInv, ListInv, [Next]_vars PROVE StateInv'
  BY Zenon
<1> DEFINE TrackOK(t) == /\ consumers'[t] \in Seq(Consumers(t))
                         /\ reader'[t] \in Readers(t)
                         /\ eofs'[t] \in [Consumers(t) -> Nat]
                         /\ reader'[t].at # "calling" => reader'[t].todo = <<>>
<1>0. \A t \in Tracks : /\ consumers[t] \in Seq(Consumers(t))
                        /\ reader[t] \in Readers(t)
                        /\ eofs[t] \in [Consumers(t) -> Nat]
                        /\ reader[t].at # "calling" => reader[t].todo = <<>>
  BY Zenon DEF StateInv, Free
<1>d. DOMAIN consumers = Tracks /\ DOMAIN reader = Tracks /\ DOMAIN eofs = Tracks
  BY Zenon DEF StateInv
<1>k. ASSUME \A t \in Tracks : TrackOK(t), UNCHANGED <<pktCh, shut>>,
             DOMAIN consumers' = Tracks /\ DOMAIN reader' = Tracks /\ DOMAIN eofs' = Tracks
      PROVE  StateInv'
  BY <1>k, Zenon DEF StateInv, Free
<1>1. CASE startRecord
  <2>1. /\ \A t \in Tracks : Free(t)
        /\ consumers' = [t \in Tracks |-> Added(t, Recorder)]
        /\ reader' = [t \in Tracks |-> Started(t)]
        /\ UNCHANGED <<eofs, pktCh, shut>>
    BY <1>1, Zenon DEF startRecord
  <2>2. ASSUME NEW t \in Tracks PROVE TrackOK(t)
    <3>1. Recorder \in Consumers(t)
      BY Zenon DEF Consumers
    <3>2. /\ Added(t, Recorder) \in Seq(Consumers(t))
          /\ Started(t) \in Readers(t) /\ Started(t).todo = <<>>
      BY <2>1, <3>1, Adds, Zenon
    <3> QED BY <1>0, <2>1, <3>2
  <2> QED BY <1>d, <1>k, <2>1, <2>2
<1>2. ASSUME NEW t \in Tracks, NEW f \in Forwarders[t], SatifySelect(t, f) PROVE StateInv'
  <2>1. /\ Free(t)
        /\ consumers' = [consumers EXCEPT ![t] = Added(t, f)]
        /\ reader' = [reader EXCEPT ![t] = Started(t)]
        /\ UNCHANGED <<eofs, pktCh, shut>>
    BY <1>2, Zenon DEF SatifySelect, recVars
  <2>2. f \in Consumers(t)
    BY Zenon DEF Consumers
  <2>3. /\ Added(t, f) \in Seq(Consumers(t))
        /\ Started(t) \in Readers(t) /\ Started(t).todo = <<>>
    BY <2>1, <2>2, Adds, Zenon
  <2>4. ASSUME NEW u \in Tracks PROVE TrackOK(u)
    BY <1>0, <1>d, <2>1, <2>3
  <2> QED BY <1>d, <1>k, <2>1, <2>4
<1>3. ASSUME NEW t \in Tracks, Read(t) PROVE StateInv'
  <2>1. /\ reader' = [reader EXCEPT ![t] = Calling(consumers[t], media[t] = Ended)]
        /\ UNCHANGED <<consumers, eofs, pktCh, shut>>
    BY <1>3, Zenon DEF Read, recVars
  <2>2. Calling(consumers[t], media[t] = Ended) \in Readers(t)
    BY <1>0, Zenon DEF Calling, Readers
  <2>3. Calling(consumers[t], media[t] = Ended).at = "calling"
    BY Zenon DEF Calling
  <2>4. ASSUME NEW u \in Tracks PROVE TrackOK(u)
    BY <1>0, <1>d, <2>1, <2>2, <2>3
  <2> QED BY <1>d, <1>k, <2>1, <2>4
<1>4. ASSUME NEW t \in Tracks, Called(t) PROVE StateInv'
  <2>1. /\ reader' = [reader EXCEPT ![t] = IF consumers[t] = <<>> THEN NoReader ELSE Idle]
        /\ UNCHANGED <<consumers, eofs, pktCh, shut>>
    BY <1>4, Zenon DEF Called, recVars
  <2>2. /\ NoReader \in Readers(t) /\ Idle \in Readers(t)
        /\ NoReader.todo = <<>> /\ Idle.todo = <<>>
    BY DEF NoReader, Idle, Readers
  <2>3. ASSUME NEW u \in Tracks PROVE TrackOK(u)
    BY <1>0, <1>d, <2>1, <2>2
  <2> QED BY <1>d, <1>k, <2>1, <2>3
<1>5. ASSUME NEW t \in Tracks, Call(t) PROVE StateInv'
  <2>1. /\ consumers'[t] \in Seq(Consumers(t)) /\ eofs'[t] \in [Consumers(t) -> Nat]
        /\ reader'[t] \in Readers(t) /\ reader'[t].at = "calling"
        /\ \A u \in Tracks \ {t} : /\ consumers'[u] = consumers[u]
                                   /\ reader'[u] = reader[u] /\ eofs'[u] = eofs[u]
        /\ DOMAIN consumers' = Tracks /\ DOMAIN reader' = Tracks /\ DOMAIN eofs' = Tracks
    BY <1>5, Calls, Zenon
  <2>2. ASSUME NEW u \in Tracks PROVE TrackOK(u)
    <3>1. CASE u = t
      BY <2>1, <3>1, Zenon
    <3>2. CASE u # t
      BY <1>0, <2>1, <3>2
    <3> QED BY <3>1, <3>2, Zenon
  <2>3. [track |-> t, end |-> reader[t].end] \in Items
    BY <1>0, Zenon DEF Items, Readers
  <2>4. pktCh' \in Seq(Items) /\ shut' = shut
    <3>1. PICK x \in Items : x = [track |-> t, end |-> reader[t].end]
      BY <2>3, Zenon
    <3>2. (pktCh' = Append(pktCh, x) \/ pktCh' = pktCh) /\ shut' = shut
      BY <1>5, <3>1, Zenon DEF Call, recVars
    <3>3. pktCh \in Seq(Items)
      BY Zenon DEF StateInv
    <3> QED BY <3>2, <3>3, AppendProperties
  <2> HIDE DEF TrackOK
  <2>5. \A u \in Tracks : TrackOK(u)
    BY <2>2, Zenon
  <2> QED BY <2>1, <2>4, <2>5 DEF StateInv, Free, TrackOK
<1>6. CASE Takes
  <2>1. /\ UNCHANGED <<consumers, reader, eofs>> /\ pktCh # <<>> /\ pktCh' = Tail(pktCh)
        /\ shut' \subseteq shut \cup {Head(pktCh).track}
    BY <1>6, TakesKeep, Zenon
  <2>2. /\ Tail(pktCh) \in Seq(Items) /\ Head(pktCh) \in Items
    BY <2>1, Rest, Zenon DEF StateInv
  <2>3. Head(pktCh).track \in Tracks
    BY <2>2, Zenon DEF Items
  <2> QED BY <2>1, <2>2, <2>3, Zenon DEF StateInv, Free
<1>7. CASE Apart
  BY <1>7, ApartKeeps, Zenon DEF StateInv, Free
<1>8. CASE UNCHANGED vars
  BY <1>8, Zenon DEF vars, StateInv, Free
<1> HIDE DEF TrackOK
<1> QED BY <1>1, <1>2, <1>3, <1>4, <1>5, <1>6, <1>7, <1>8 DEF Next, Apart, Takes

\* A consumer comes on the list once, before its end, and whom the loop has still to
\* call is on the list: a consumer is only added while the loop does not run, and
\* only taken off by its own call.
LEMMA ListStep == StateInv /\ ListInv /\ [Next]_vars => ListInv'
<1> SUFFICES ASSUME StateInv, ListInv, [Next]_vars PROVE ListInv'
  BY Zenon
<1> DEFINE ListOK(t, started, l, q, e) ==
      /\ Once(l) /\ Once(q)
      /\ \A c \in Consumers(t) : /\ In(c, q) => In(c, l)
                                 /\ In(c, l) => e[c] = 0
                                 /\ e[c] <= 1
      /\ ~started => ~In(Recorder, l) /\ e[Recorder] = 0
<1>0. \A t \in Tracks : ListOK(t, recordStart, consumers[t], reader[t].todo, eofs[t])
  BY Zenon DEF ListInv
<1>d. DOMAIN consumers = Tracks /\ DOMAIN reader = Tracks /\ DOMAIN eofs = Tracks
  BY Zenon DEF StateInv
<1>k. ASSUME \A t \in Tracks : ListOK(t, recordStart', consumers'[t], reader'[t].todo, eofs'[t])
      PROVE  ListInv'
  BY <1>k, Zenon DEF ListInv, Once, In
<1>l. ASSUME UNCHANGED <<recordStart, consumers, reader, eofs>> PROVE ListInv'
  BY <1>l DEF ListInv, Once, In
<1>r. \A t \in Tracks : Recorder \in Consumers(t)
  BY Zenon DEF Consumers
<1>1. CASE startRecord
  <2>1. /\ \A t \in Tracks : Free(t)
        /\ ~recordStart
        /\ consumers' = [t \in Tracks |-> Added(t, Recorder)]
        /\ reader' = [t \in Tracks |-> Started(t)]
        /\ recordStart' /\ UNCHANGED eofs
    BY <1>1, Zenon DEF startRecord, AlreadyStarted
  <2>2. ASSUME NEW t \in Tracks
        PROVE  ListOK(t, recordStart', consumers'[t], reader'[t].todo, eofs'[t])
    <3>1. /\ \A x : In(x, Added(t, Recorder)) <=> In(x, consumers[t]) \/ x = Recorder
          /\ Once(Added(t, Recorder)) /\ Started(t).todo = <<>>
      BY <1>0, <1>r, <2>1, Adds
    <3>2. eofs[t][Recorder] = 0
      BY <1>0, <2>1, Zenon
    <3> QED BY <1>0, <2>1, <3>1, <3>2, Nobody
  <2> HIDE DEF ListOK
  <2> QED BY <1>k, <2>2, Zenon
<1>2. ASSUME NEW t \in Tracks, NEW f \in Forwarders[t], SatifySelect(t, f) PROVE ListInv'
  <2>1. /\ Free(t) /\ ~Contains(consumers[t], f) /\ eofs[t][f] = 0
        /\ consumers' = [consumers EXCEPT ![t] = Added(t, f)]
        /\ reader' = [reader EXCEPT ![t] = Started(t)]
        /\ UNCHANGED <<recordStart, eofs>>
    BY <1>2, Zenon DEF SatifySelect
  <2>2. f \in Consumers(t) /\ f # Recorder
    BY TracksAssumption, Zenon DEF Consumers
  <2>3. ~In(f, consumers[t])
    BY <2>1, Zenon DEF Contains, In
  <2>4. /\ \A x : In(x, Added(t, f)) <=> In(x, consumers[t]) \/ x = f
        /\ Once(Added(t, f)) /\ Started(t).todo = <<>>
    BY <2>1, <2>2, <2>3, Adds, Zenon
  <2>5. ASSUME NEW u \in Tracks
        PROVE  ListOK(u, recordStart', consumers'[u], reader'[u].todo, eofs'[u])
    <3>1. CASE u = t
      <4>1. consumers'[u] = Added(t, f) /\ reader'[u].todo = <<>> /\ eofs'[u] = eofs[t]
        BY <1>d, <2>1, <2>4, <3>1, Zenon
      <4> QED BY <1>0, <2>1, <2>2, <2>4, <3>1, <4>1, Nobody
    <3>2. CASE u # t
      <4>1. consumers'[u] = consumers[u] /\ reader'[u] = reader[u] /\ eofs'[u] = eofs[u]
        BY <1>d, <2>1, <3>2, Zenon
      <4> QED BY <1>0, <2>1, <4>1, Zenon
    <3> QED BY <3>1, <3>2, Zenon
  <2> HIDE DEF ListOK
  <2> QED BY <1>k, <2>5, Zenon
<1>3. ASSUME NEW t \in Tracks, NEW v, reader' = [reader EXCEPT ![t] = v],
             v.todo = <<>> \/ v.todo = consumers[t],
             UNCHANGED <<recordStart, consumers, eofs>>
      PROVE  ListInv'
  <2>1. ASSUME NEW u \in Tracks
        PROVE  ListOK(u, recordStart', consumers'[u], reader'[u].todo, eofs'[u])
    <3>1. CASE u = t
      <4>1. reader'[u].todo = v.todo
        BY <1>d, <1>3, <3>1, Zenon
      <4> QED BY <1>0, <1>3, <3>1, <4>1, Nobody
    <3>2. CASE u # t
      <4>1. reader'[u] = reader[u]
        BY <1>d, <1>3, <3>2, Zenon
      <4> QED BY <1>0, <1>3, <4>1, Zenon
    <3> QED BY <3>1, <3>2, Zenon
  <2> HIDE DEF ListOK
  <2> QED BY <1>k, <2>1, Zenon
<1>4. ASSUME NEW t \in Tracks, Read(t) PROVE ListInv'
  <2>1. PICK v : v = Calling(consumers[t], media[t] = Ended)
    BY Zenon
  <2>2. v.todo = consumers[t]
    BY <2>1, Zenon DEF Calling
  <2> QED BY <1>3, <1>4, <2>1, <2>2, Zenon DEF Read
<1>5. ASSUME NEW t \in Tracks, Called(t) PROVE ListInv'
  <2>1. PICK v : v = IF consumers[t] = <<>> THEN NoReader ELSE Idle
    BY Zenon
  <2>2. v.todo = <<>>
    BY <2>1, Zenon DEF NoReader, Idle
  <2> QED BY <1>3, <1>5, <2>1, <2>2, Zenon DEF Called
<1>6. ASSUME NEW t \in Tracks, Call(t) PROVE ListInv'
  <2>1. PICK c : c = Head(reader[t].todo)
    BY Zenon
  <2>2. /\ c \in Consumers(t) /\ In(c, consumers[t]) /\ eofs[t][c] = 0
        /\ Once(consumers[t]')
        /\ \A x : In(x, consumers[t]') <=> In(x, consumers[t]) /\ (Stops(t, c) => x # c)
        /\ \A x \in Consumers(t) :
             eofs'[t][x] = IF Stops(t, c) /\ x = c THEN 1 ELSE eofs[t][x]
        /\ Once(reader[t].todo') /\ ~In(c, reader[t].todo')
        /\ \A x : In(x, reader[t].todo') => In(x, reader[t].todo)
        /\ \A u \in Tracks \ {t} : /\ consumers'[u] = consumers[u]
                                   /\ reader'[u] = reader[u] /\ eofs'[u] = eofs[u]
    BY <1>6, <2>1, Calls, ZenonT(40)
  <2>3. UNCHANGED recordStart
    BY <1>6, Zenon DEF Call
  <2>4. ASSUME NEW u \in Tracks
        PROVE  ListOK(u, recordStart', consumers'[u], reader'[u].todo, eofs'[u])
    <3>1. CASE u = t
      <4>1. ListOK(t, recordStart, consumers[t], reader[t].todo, eofs[t])
        BY <1>0, Zenon
      <4>2. ~recordStart => c # Recorder
        BY <2>2, <4>1, Zenon
      <4> QED BY <1>r, <2>2, <2>3, <3>1, <4>1, <4>2
    <3>2. CASE u # t
      BY <1>0, <2>2, <2>3, <3>2
    <3> QED BY <3>1, <3>2, Zenon
  <2> HIDE DEF ListOK
  <2> QED BY <1>k, <2>4, Zenon
<1>7. CASE Takes
  BY <1>7, <1>l, TakesKeep, Zenon
<1>8. CASE Apart
  BY <1>8, <1>l, ApartKeeps, Zenon
<1>9. CASE UNCHANGED vars
  BY <1>9, <1>l, Zenon DEF vars
<1> HIDE DEF ListOK
<1> QED BY <1>1, <1>2, <1>4, <1>5, <1>6, <1>7, <1>8, <1>9 DEF Next, Apart, Takes

\* The recorder's consumer sends an item of a track that was not told its end: what
\* has gone through the channel stays as it is.
LEMMA Queued ==
  ASSUME NEW q \in Seq(Items), NEW T, EndsLast(q, T), NEW x \in Items, x.track \notin T,
         NEW U, U = IF x.end THEN T \cup {x.track} ELSE T
  PROVE  EndsLast(Append(q, x), U) /\ Through(Append(q, x), U) = Through(q, T)
<1>1. PICK r : r = Append(q, x)
  BY Zenon
<1>2. /\ Len(q) \in Nat /\ Len(r) = Len(q) + 1 /\ r[Len(q) + 1] = x
      /\ \A i \in 1 .. Len(q) : r[i] = q[i]
  BY <1>1
<1>3. \A i \in 1 .. Len(r) : i \in 1 .. Len(q) \/ i = Len(q) + 1
  BY <1>2
<1>4. \A i \in 1 .. Len(q) : i \in 1 .. Len(r) /\ r[i] = q[i]
  BY <1>2
<1>5. \A i, j \in 1 .. Len(r) : i < j /\ r[i].end => r[j].track # r[i].track
  <2> TAKE i, j \in 1 .. Len(r)
  <2>1. CASE i \in 1 .. Len(q) /\ j \in 1 .. Len(q)
    BY <1>4, <2>1 DEF EndsLast
  <2>2. CASE i \in 1 .. Len(q) /\ j = Len(q) + 1
    BY <1>2, <1>4, <2>2, Zenon DEF EndsLast
  <2>3. CASE i = Len(q) + 1
    BY <1>2, <2>3
  <2> QED BY <1>3, <2>1, <2>2, <2>3, Zenon
<1>6. \A i \in 1 .. Len(r) : r[i].end => r[i].track \in U
  BY <1>2, <1>3, <1>4, Zenon DEF EndsLast
<1>7. ASSUME NEW i \in 1 .. Len(r), r[i].track \in U
      PROVE  \E j \in 1 .. Len(r) : r[j].end /\ r[j].track = r[i].track
  <2>1. CASE r[i].track = x.track
    <3>1. x.end
      BY <1>7, <2>1, Zenon
    <3>2. Len(q) + 1 \in 1 .. Len(r)
      BY <1>2
    <3> QED BY <1>2, <2>1, <3>1, <3>2
  <2>2. CASE r[i].track # x.track
    <3>1. i \in 1 .. Len(q) /\ r[i] = q[i] /\ q[i].track \in T
      BY <1>2, <1>3, <1>4, <1>7, <2>2
    <3>2. PICK j \in 1 .. Len(q) : q[j].end /\ q[j].track = q[i].track
      BY <3>1, Zenon DEF EndsLast
    <3> QED BY <1>4, <3>1, <3>2, Zenon
  <2> QED BY <2>1, <2>2, Zenon
<1>8. Through(r, U) = Through(q, T)
  <2>1. ASSUME NEW t \in Through(r, U) PROVE t \in Through(q, T)
    <3>1. t \in U /\ \A i \in 1 .. Len(r) : r[i].track # t
      BY Zenon DEF Through
    <3>2. Len(q) + 1 \in 1 .. Len(r)
      BY <1>2
    <3>3. t # x.track
      BY <1>2, <3>1, <3>2, Zenon
    <3> QED BY <1>4, <3>1, <3>3, Zenon DEF Through
  <2>2. ASSUME NEW t \in Through(q, T) PROVE t \in Through(r, U)
    <3>1. t \in T /\ \A i \in 1 .. Len(q) : q[i].track # t
      BY Zenon DEF Through
    <3>2. t # x.track /\ t \in U
      BY <3>1, Zenon
    <3> QED BY <1>2, <1>3, <1>4, <3>1, <3>2 DEF Through
  <2> QED BY <2>1, <2>2, Zenon
<1> QED BY <1>1, <1>5, <1>6, <1>7, <1>8 DEF EndsLast

\* The recording goroutine takes an item: with an end, and only with it, one more
\* track has gone through the channel.
LEMMA Taken ==
  ASSUME NEW q \in Seq(Items), NEW T, EndsLast(q, T), q # <<>>
  PROVE  /\ EndsLast(Tail(q), T)
         /\ Head(q).track \notin Through(q, T)
         /\ Through(Tail(q), T) = Through(q, T) \cup {t \in {Head(q).track} : Head(q).end}
<1>1. Len(q) \in Nat \ {0}
  BY EmptySeq, Zenon
<1>2. PICK r : r = Tail(q)
  BY Zenon
<1>3. /\ Len(r) = Len(q) - 1 /\ Head(q) = q[1]
      /\ \A i \in 1 .. Len(r) : r[i] = q[i + 1] /\ i + 1 \in 1 .. Len(q) /\ 1 < i + 1
  BY <1>1, <1>2
<1>4. 1 \in 1 .. Len(q)
  BY <1>1
<1>5. \A j \in 1 .. Len(q) : j = 1 \/ (j - 1 \in 1 .. Len(r) /\ r[j - 1] = q[j])
  <2> TAKE j \in 1 .. Len(q)
  <2>1. j # 1 => j - 1 \in 1 .. Len(r) /\ (j - 1) + 1 = j
    BY <1>1, <1>3
  <2> QED BY <1>3, <2>1, Zenon
<1>6. \A i, j \in 1 .. Len(r) : i < j /\ r[i].end => r[j].track # r[i].track
  <2> TAKE i, j \in 1 .. Len(r)
  <2>1. i < j => i + 1 < j + 1
    BY <1>1, <1>3
  <2>2. i + 1 \in 1 .. Len(q) /\ j + 1 \in 1 .. Len(q) /\ r[i] = q[i + 1] /\ r[j] = q[j + 1]
    BY <1>3, Zenon
  <2>3. i + 1 < j + 1 /\ q[i + 1].end => q[j + 1].track # q[i + 1].track
    BY <2>2, Zenon DEF EndsLast
  <2> QED BY <2>1, <2>2, <2>3, Zenon
<1>7. \A i \in 1 .. Len(r) : r[i].end => r[i].track \in T
  BY <1>3, Zenon DEF EndsLast
<1>8. \A i \in 1 .. Len(r) : q[1].end => r[i].track # q[1].track
  BY <1>3, <1>4 DEF EndsLast
<1>9. ASSUME NEW i \in 1 .. Len(r), r[i].track \in T
      PROVE  \E j \in 1 .. Len(r) : r[j].end /\ r[j].track = r[i].track
  <2>1. PICK j \in 1 .. Len(q) : q[j].end /\ q[j].track = r[i].track
    BY <1>3, <1>9 DEF EndsLast
  <2>2. j # 1
    BY <1>8, <2>1, Zenon
  <2> QED BY <1>5, <2>1, <2>2, Zenon
<1>10. Head(q).track \notin Through(q, T)
  BY <1>3, <1>4, Zenon DEF Through
<1>11. ASSUME NEW t \in Through(r, T), t \notin Through(q, T)
       PROVE  t = q[1].track /\ q[1].end
  <2>1. t \in T /\ \A i \in 1 .. Len(r) : r[i].track # t
    BY Zenon DEF Through
  <2>2. PICK i \in 1 .. Len(q) : q[i].track = t
    BY <1>11, <2>1, Zenon DEF Through
  <2>3. PICK j \in 1 .. Len(q) : q[j].end /\ q[j].track = t
    BY <2>1, <2>2, Zenon DEF EndsLast
  <2> QED BY <1>5, <2>1, <2>3, Zenon
<1>12. Through(q, T) \subseteq Through(r, T)
  BY <1>3, Zenon DEF Through
<1>13. q[1].end => q[1].track \in Through(r, T)
  BY <1>4, <1>8, Zenon DEF Through, EndsLast
<1>14. Through(r, T) = Through(q, T) \cup {t \in {q[1].track} : q[1].end}
  BY <1>11, <1>12, <1>13, Zenon
<1> QED BY <1>2, <1>3, <1>6, <1>7, <1>9, <1>10, <1>14 DEF EndsLast

\* The counting of the ends: every end that is put into pktCh is the first of its
\* track, and the recording goroutine counts each end it takes.
LEMMA QueueStep == StateInv /\ ListInv /\ QueueInv /\ [Next]_vars => QueueInv'
<1> SUFFICES ASSUME StateInv, ListInv, QueueInv, [Next]_vars PROVE QueueInv'
  BY Zenon
<1>q. pktCh \in Seq(Items)
  BY Zenon DEF StateInv
<1>t. PICK T : T = Told
  BY Zenon
<1>u. PICK U : U = Told'
  BY Zenon
<1>i. /\ EndsLast(pktCh, T) /\ shut \subseteq Through(pktCh, T)
      /\ closedTrackNum = Cardinality(Through(pktCh, T))
  BY <1>t, Zenon DEF QueueInv
<1>k. ASSUME EndsLast(pktCh', U), shut' \subseteq Through(pktCh', U),
             closedTrackNum' = Cardinality(Through(pktCh', U))
      PROVE  QueueInv'
  BY <1>k, <1>u, Zenon DEF QueueInv, EndsLast, Through
<1>f. IsFiniteSet(Through(pktCh, T))
  <2>1. Through(pktCh, T) \subseteq Tracks
    BY <1>t, Zenon DEF Through, Told
  <2> QED BY <2>1, FS_Subset, TracksAssumption, Zenon
<1>l. ASSUME UNCHANGED <<eofs, pktCh, shut, closedTrackNum>> PROVE QueueInv'
  <2>1. U = T
    BY <1>l, <1>t, <1>u DEF Told
  <2> QED BY <1>i, <1>k, <1>l, <2>1
<1>1. CASE startRecord
  BY <1>1, <1>l, Zenon DEF startRecord
<1>2. ASSUME NEW t \in Tracks, NEW f \in Forwarders[t], SatifySelect(t, f) PROVE QueueInv'
  BY <1>2, <1>l, Zenon DEF SatifySelect, recVars
<1>3. ASSUME NEW t \in Tracks, Read(t) \/ Called(t) PROVE QueueInv'
  BY <1>3, <1>l, Zenon DEF Read, Called, recVars
<1>4. ASSUME NEW t \in Tracks, Call(t) PROVE QueueInv'
  <2>1. PICK c : c = Head(reader[t].todo)
    BY Zenon
  <2>2. /\ c \in Consumers(t) /\ eofs[t][c] = 0
        /\ \A x \in Consumers(t) :
             eofs'[t][x] = IF Stops(t, c) /\ x = c THEN 1 ELSE eofs[t][x]
        /\ \A u \in Tracks \ {t} : eofs'[u] = eofs[u]
    BY <1>4, <2>1, Calls, ZenonT(40)
  <2>3. /\ Recorder \in Consumers(t) /\ reader[t].end \in BOOLEAN
        /\ UNCHANGED <<shut, closedTrackNum>>
    BY <1>4, Zenon DEF Consumers, Call, recVars, StateInv, Readers
  <2>4. CASE c # Recorder
    <3>1. pktCh' = pktCh
      BY <1>4, <2>1, <2>4 DEF Call
    <3>2. \A u \in Tracks : eofs'[u][Recorder] = eofs[u][Recorder]
      BY <2>2, <2>3, <2>4
    <3>3. U = T
      BY <1>t, <1>u, <3>2 DEF Told
    <3> QED BY <1>i, <1>k, <2>3, <3>1, <3>3, Zenon
  <2>5. CASE c = Recorder
    <3>1. PICK x : x = [track |-> t, end |-> reader[t].end]
      BY Zenon
    <3>2. x \in Items /\ x.track = t /\ x.end = reader[t].end
      BY <2>3, <3>1, Zenon DEF Items
    <3>3. pktCh' = Append(pktCh, x)
      BY <1>4, <2>1, <2>5, <3>1 DEF Call
    <3>4. t \notin T
      BY <1>t, <2>2, <2>5 DEF Told
    <3>5. eofs'[t][Recorder] = IF x.end THEN 1 ELSE eofs[t][Recorder]
      BY <2>2, <2>3, <2>5, <3>2 DEF Stops
    <3>6. U = IF x.end THEN T \cup {t} ELSE T
      <4>1. \A u \in Tracks \ {t} : eofs'[u][Recorder] = eofs[u][Recorder]
        BY <2>2, Zenon
      <4>2. eofs[t][Recorder] = 0
        BY <2>2, <2>5, Zenon
      <4> QED BY <1>t, <1>u, <3>5, <4>1, <4>2 DEF Told
    <3>7. EndsLast(pktCh', U) /\ Through(pktCh', U) = Through(pktCh, T)
      BY <1>i, <1>q, <3>2, <3>3, <3>4, <3>6, Queued
    <3> QED BY <1>i, <1>k, <2>3, <3>7
  <2> QED BY <2>4, <2>5, Zenon
<1>5. CASE Takes
  <2>1. /\ UNCHANGED eofs /\ pktCh # <<>> /\ pktCh' = Tail(pktCh)
        /\ shut' \subseteq shut \cup {t \in {Head(pktCh).track} : Head(pktCh).end}
        /\ closedTrackNum' = IF Head(pktCh).end THEN closedTrackNum + 1 ELSE closedTrackNum
    BY <1>5, TakesKeep, Zenon
  <2>2. U = T
    BY <1>t, <1>u, <2>1 DEF Told
  <2>3. PICK h : h = Head(pktCh)
    BY Zenon
  <2>4. /\ EndsLast(Tail(pktCh), T) /\ h.track \notin Through(pktCh, T)
        /\ Through(Tail(pktCh), T) = Through(pktCh, T) \cup {t \in {h.track} : h.end}
    BY <1>i, <1>q, <2>1, <2>3, Taken
  <2>5. CASE h.end
    <3>1. Through(Tail(pktCh), T) = Through(pktCh, T) \cup {h.track}
      BY <2>4, <2>5, Zenon
    <3>2. Cardinality(Through(pktCh, T) \cup {h.track}) = Cardinality(Through(pktCh, T)) + 1
      BY <1>f, <2>4, FS_AddElement, Zenon
    <3> QED BY <1>i, <1>k, <2>1, <2>2, <2>3, <2>4, <2>5, <3>1, <3>2, Zenon
  <2>6. CASE ~h.end
    <3>1. Through(Tail(pktCh), T) = Through(pktCh, T)
      BY <2>4, <2>6, Zenon
    <3> QED BY <1>i, <1>k, <2>1, <2>2, <2>3, <2>4, <2>6, <3>1
  <2> QED BY <2>5, <2>6, Zenon
<1>6. CASE Apart
  BY <1>6, <1>l, ApartKeeps, Zenon
<1>7. CASE UNCHANGED vars
  BY <1>7, <1>l, Zenon DEF vars
<1> QED BY <1>1, <1>2, <1>3, <1>4, <1>5, <1>6, <1>7 DEF Next, Apart, Takes

\* The contexts and the document: each context gets the next number of its segmenter,
\* the first is the only one that inserts, and it inserts once, in whatever order
\* the goroutines run.
LEMMA DocStep == DocInv /\ [Next]_vars => DocInv'
<1> SUFFICES ASSUME DocInv, [Next]_vars PROVE DocInv'
  BY Zenon
<1>g. gen \in Gens /\ DOMAIN reports = Gens /\ DOMAIN rec = Gens /\ MaxGens \in Nat
  BY Bounds, Zenon DEF DocInv
<1>l. ASSUME UNCHANGED <<reports, pend, rec>>, gen' \in Gens PROVE DocInv'
  BY <1>l, Zenon DEF DocInv
<1>h. ASSUME NEW last \in BOOLEAN, pend' = pend \cup {Handed(gen, last)},
             reports' = [reports EXCEPT ![gen] = @ + 1], UNCHANGED rec, gen' \in Gens
      PROVE  DocInv'
  <2>1. PICK h : h = Handed(gen, last)
    BY Zenon
  <2>2. /\ h \in Contexts /\ h.gen = gen /\ h.n = reports[gen] + 1
        /\ h.first <=> reports[gen] = 0
    <3>1. reports[gen] \in Nat
      BY <1>g, Zenon DEF DocInv
    <3>2. PICK n \in Nat : n = reports[gen] + 1
      BY <3>1
    <3>3. PICK first \in BOOLEAN : first <=> reports[gen] = 0
      BY Zenon
    <3>4. h = [gen |-> gen, n |-> n, first |-> first, last |-> last]
      BY <2>1, <3>2, <3>3, Zenon DEF Handed
    <3> QED BY <1>g, <3>2, <3>3, <3>4 DEF Contexts
  <2>3. \A g \in Gens : reports'[g] = IF g = gen THEN reports[g] + 1 ELSE reports[g]
    BY <1>g, <1>h, Zenon
  <2>4. pend' = pend \cup {h} /\ pend \subseteq Contexts
    BY <1>h, <2>1, Zenon DEF DocInv
  <2>5. \A p \in pend : p.gen \in Gens /\ p.n \in Nat
    BY <2>4, Zenon DEF Contexts
  <2>6. \A g \in Gens : reports[g] \in Nat /\ rec[g].inserts \in 0 .. 1
    BY Zenon DEF DocInv
  <2>7. \A p \in pend' : p.n \in 1 .. reports'[p.gen] /\ (p.first <=> p.n = 1)
    <3>1. ASSUME NEW p \in pend PROVE p.n \in 1 .. reports'[p.gen] /\ (p.first <=> p.n = 1)
      <4>1. p.n \in 1 .. reports[p.gen] /\ (p.first <=> p.n = 1)
        BY Zenon DEF DocInv
      <4> QED BY <2>3, <2>5, <2>6, <4>1
    <3>2. h.n \in 1 .. reports'[h.gen] /\ (h.first <=> h.n = 1)
      BY <1>g, <2>2, <2>3, <2>6
    <3> QED BY <2>4, <3>1, <3>2
  <2>8. \A p, q \in pend' : p.gen = q.gen /\ p.n = q.n => p = q
    <3>1. \A p \in pend : p.gen = gen => p.n # h.n
      BY <1>g, <2>2, <2>5, <2>6 DEF DocInv
    <3>2. \A p, q \in pend : p.gen = q.gen /\ p.n = q.n => p = q
      BY Zenon DEF DocInv
    <3> QED BY <2>2, <2>4, <3>1, <3>2, Zenon
  <2>9. \A p \in pend' : p.first => rec[p.gen].inserts = 0
    <3>1. h.first => rec[gen].inserts = 0
      BY <1>g, <2>2, Zenon DEF DocInv
    <3>2. \A p \in pend : p.first => rec[p.gen].inserts = 0
      BY Zenon DEF DocInv
    <3> QED BY <2>2, <2>4, <3>1, <3>2, Zenon
  <2>10. \A g \in Gens : reports'[g] = 0 => rec[g].inserts = 0
    BY <2>3, <2>6 DEF DocInv
  <2>11. DOMAIN reports' = Gens /\ \A g \in Gens : reports'[g] \in Nat
    BY <1>g, <1>h, <2>3, <2>6
  <2> QED BY <1>g, <1>h, <2>2, <2>4, <2>6, <2>7, <2>8, <2>9, <2>10, <2>11 DEF DocInv
<1>c. ASSUME CloseSegmenter, UNCHANGED rec, gen' \in Gens PROVE DocInv'
  BY <1>c, <1>h, <1>l, Zenon DEF CloseSegmenter
<1>1. CASE RecordStops
  BY <1>1, <1>c, <1>g, Zenon DEF RecordStops
<1>2. CASE TakePacket
  <2>1. CASE UNCHANGED <<recVars, dbVars>>
    BY <1>g, <1>l, <2>1 DEF recVars, dbVars
  <2>2. CASE /\ pend' = pend \cup {Handed(gen, FALSE)}
             /\ reports' = [reports EXCEPT ![gen] = @ + 1]
             /\ UNCHANGED <<loop, shut, closedTrackNum, gen, sealed, rec>>
    BY <1>g, <1>h, <2>2, Zenon
  <2>3. CASE gen < MaxGens /\ CloseSegmenter /\ gen' = gen + 1 /\ UNCHANGED rec
    <3>1. gen + 1 \in Gens
      BY <1>g, <2>3 DEF Gens
    <3> QED BY <1>c, <2>3, <3>1, Zenon
  <2> QED BY <1>2, <2>1, <2>2, <2>3, Zenon DEF TakePacket
<1>3. ASSUME NEW p \in pend, Record(p) PROVE DocInv'
  <2>1. /\ pend' = pend \ {p} /\ UNCHANGED <<gen, reports>>
        /\ p \in Contexts /\ p.gen \in Gens
    BY <1>3, Zenon DEF Record, recVars, DocInv, Contexts
  <2>2. /\ DOMAIN rec' = Gens
        /\ \A g \in Gens : \/ rec'[g].inserts = rec[g].inserts
                           \/ g = p.gen /\ p.first /\ rec'[g].inserts = rec[g].inserts + 1
    <3>1. CASE UNCHANGED rec
      BY <1>g, <3>1, Zenon
    <3>2. CASE rec' = [rec EXCEPT ![p.gen].panic = TRUE]
      BY <1>g, <2>1, <3>2
    <3>3. CASE \E fails \in BOOLEAN : rec' = [rec EXCEPT ![p.gen] = Stored(@, p, fails)]
      <4>1. PICK fails \in BOOLEAN : rec' = [rec EXCEPT ![p.gen] = Stored(@, p, fails)]
        BY <3>3, Zenon
      <4>2. PICK v : v = Stored(rec[p.gen], p, fails)
        BY Zenon
      <4>3. v.inserts = rec[p.gen].inserts \/ (p.first /\ v.inserts = rec[p.gen].inserts + 1)
        BY <2>1, <4>2 DEF Stored, Contexts
      <4> QED BY <1>g, <2>1, <4>1, <4>2, <4>3, Zenon
    <3> QED BY <1>3, <3>1, <3>2, <3>3, Zenon DEF Record
  <2>3. /\ \A g \in Gens : reports[g] \in Nat /\ rec[g].inserts \in 0 .. 1
        /\ p.first => rec[p.gen].inserts = 0
        /\ p.n \in 1 .. reports[p.gen]
    BY Zenon DEF DocInv
  <2>4. \A g \in Gens : rec'[g].inserts \in 0 .. 1
    BY <2>2, <2>3
  <2>5. \A g \in Gens : reports[g] = 0 => rec'[g].inserts = 0
    <3>1. \A g \in Gens : reports[g] = 0 => rec[g].inserts = 0 /\ g # p.gen
      BY <2>1, <2>3 DEF DocInv
    <3> QED BY <2>2, <3>1, Zenon
  <2>6. ASSUME NEW q \in pend', q.first PROVE rec'[q.gen].inserts = 0
    <3>1. /\ q \in pend /\ q # p /\ q.gen \in Gens /\ rec[q.gen].inserts = 0 /\ q.n = 1
      BY <2>1, <2>6, Zenon DEF DocInv, Contexts
    <3>2. q.gen = p.gen => ~p.first
      BY <2>1, <3>1, Zenon DEF DocInv
    <3> QED BY <2>2, <3>1, <3>2, Zenon
  <2>7. /\ pend' \subseteq Contexts
        /\ \A x \in pend' : x.n \in 1 .. reports[x.gen] /\ (x.first <=> x.n = 1)
        /\ \A x, y \in pend' : x.gen = y.gen /\ x.n = y.n => x = y
    BY <2>1, Zenon DEF DocInv
  <2> QED BY <1>g, <2>1, <2>2, <2>3, <2>4, <2>5, <2>6, <2>7 DEF DocInv
<1>4. CASE startRecord \/ Close \/ TakeEnd
  BY <1>4, <1>g, <1>l DEF startRecord, Close, TakeEnd, recVars, dbVars
<1>5. ASSUME NEW t \in Tracks, End(t) \/ Read(t) \/ Call(t) \/ Called(t) PROVE DocInv'
  BY <1>5, <1>g, <1>l DEF End, Read, Call, Called, recVars, dbVars
<1>6. ASSUME NEW t \in Tracks, NEW f \in Forwarders[t], SatifySelect(t, f) PROVE DocInv'
  BY <1>6, <1>g, <1>l DEF SatifySelect, recVars, dbVars
<1>7. CASE UNCHANGED vars
  BY <1>7, <1>g, <1>l DEF vars
<1> QED BY <1>1, <1>2, <1>3, <1>4, <1>5, <1>6, <1>7 DEF Next

-----------------------------------------------------------------------------
\* Before the first track is bound nobody is on a list and nothing is recorded.
LEMMA InitInv == Init => Inv
<1> SUFFICES ASSUME Init PROVE Inv
  BY Zenon
<1>1. StateInv
  <2>1. \A t \in Tracks : NoReader \in Readers(t) /\ NoReader.todo = <<>>
    BY DEF NoReader, Readers
  <2> QED BY <2>1 DEF Init, StateInv, Free
<1>2. ListInv
  <2>1. NoReader.todo = <<>>
    BY Zenon DEF NoReader
  <2>2. \A t \in Tracks : Recorder \in Consumers(t)
    BY Zenon DEF Consumers
  <2> QED BY <2>1, <2>2, Nobody DEF Init, ListInv
<1>3. QueueInv
  <2>1. \A t \in Tracks : Recorder \in Consumers(t)
    BY Zenon DEF Consumers
  <2>2. Told = {}
    BY <2>1, Zenon DEF Init, Told
  <2>3. pktCh = <<>> /\ shut = {} /\ closedTrackNum = 0
    BY Zenon DEF Init
  <2>4. Through(pktCh, Told) = {}
    BY <2>2, Zenon DEF Through
  <2> QED BY <2>2, <2>3, <2>4, FS_EmptySet DEF QueueInv, EndsLast
<1>4. DocInv
  BY Bounds DEF Init, DocInv, Gens
<1> QED BY <1>1, <1>2, <1>3, <1>4 DEF Inv

\* The inductive invariant holds in every reachable state.
THEOREM InvHolds == Spec => []Inv
<1>1. Inv /\ [Next]_vars => Inv'
  BY StateStep, ListStep, QueueStep, DocStep DEF Inv
<1> QED BY InitInv, <1>1, PTL DEF Spec

\* For any finite set of tracks, any forwarders and any channel: a consumer is told
\* the end of its track at most once, in pktCh no packet of a track follows its end,
\* the recording goroutine never takes a packet of a track it has closed, and its
\* own test for the end of all tracks never holds while something is to be taken.
THEOREM EndIsLastHolds == Spec => []EndIsLast
<1>1. Inv => EndIsLast
  <2> SUFFICES ASSUME Inv PROVE EndIsLast
    BY Zenon
  <2>1. /\ pktCh \in Seq(Items) /\ DOMAIN pktCh = 1 .. Len(pktCh)
        /\ EndsLast(pktCh, Told) /\ shut \subseteq Through(pktCh, Told)
        /\ closedTrackNum = Cardinality(Through(pktCh, Told))
    BY DEF Inv, StateInv, QueueInv
  <2>2. \A t \in Tracks : \A c \in Consumers(t) : eofs[t][c] <= 1
    BY Zenon DEF Inv, ListInv
  <2>3. \A i, j \in DOMAIN pktCh : i < j /\ pktCh[i].end => pktCh[j].track # pktCh[i].track
    BY <2>1, Zenon DEF EndsLast
  <2>4. ASSUME NEW i \in DOMAIN pktCh PROVE pktCh[i].track \notin shut /\ ~AllClosed
    <3>1. pktCh[i].track \in Tracks /\ pktCh[i].track \notin Through(pktCh, Told)
      <4>1. pktCh[i] \in Items /\ i \in 1 .. Len(pktCh)
        BY <2>1
      <4> QED BY <4>1, Zenon DEF Items, Through
    <3>2. Through(pktCh, Told) \subseteq Tracks
      BY Zenon DEF Through, Told
    <3>3. Cardinality(Through(pktCh, Told)) # Cardinality(Tracks)
      BY <3>1, <3>2, FS_Subset, TracksAssumption
    <3> QED BY <2>1, <3>1, <3>3 DEF AllClosed
  <2> QED BY <2>2, <2>3, <2>4 DEF EndIsLast
<1> QED BY InvHolds, <1>1, PTL

\* One recording is one document: only one context of a segmenter inserts, whatever
\* the order in which the goroutines that the segment handler starts call Record.
THEOREM OneDocumentHolds == Spec => []OneDocument
<1>1. Inv => OneDocument
  BY DEF Inv, DocInv, OneDocument
<1> QED BY InvHolds, <1>1, PTL

=============================================================================
