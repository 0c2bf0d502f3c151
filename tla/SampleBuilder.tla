---------------------------- MODULE SampleBuilder ----------------------------
(***************************************************************************)
(* pkg/samplebuilder/samplebuilder.go: the circular buffer that puts the   *)
(* RTP packets of a track back into order and cuts them into samples.      *)
(* segmenter.go's WriteRtp pushes every packet that arrives and then pops  *)
(* once.                                                                   *)
(*                                                                         *)
(* The sender's packets are numbered 0, 1, 2, ...; the network may lose,   *)
(* delay and repeat them.  A packet is its number n; its sequence number   *)
(* is (FirstSeq + n) modulo SeqMod (2^16 in the code), its timestamp and   *)
(* what the depacketizer says of it are in Stream.                         *)
(***************************************************************************)
EXTENDS Integers, Sequences, FiniteSets, FiniteSetsExt

CONSTANTS
  Stream,    \* sequence of packets [ts, head, tail, bad] in sending order
  FirstSeq,  \* sequence number of packet 0
  SeqMod,    \* 2^16
  maxLate,   \* 16
  Twice      \* bound: the packets the network delivers at most twice, not once

ASSUME SizeAssumption ==
  /\ SeqMod \in Nat /\ SeqMod % 2 = 0
  /\ maxLate \in Nat /\ maxLate >= 2
  /\ 2 * (2 * maxLate + 1) < SeqMod

Packets == 0 .. Len(Stream) - 1
Copies(n) == IF n \in Twice THEN 2 ELSE 1
NoPacket == -1

ts(n) == Stream[n + 1].ts
isStart(n) == Stream[n + 1].head
isEnd(n) == Stream[n + 1].tail
unmarshalFails(n) == Stream[n + 1].bad
seq(n) == (FirstSeq + n) % SeqMod

\* Slots of the circular array; one is always free.
Size == 2 * maxLate + 1
Slots == 0 .. Size - 1
cap == Size - 1
inc(i) == (i + 1) % Size
dec(i) == (i + Size - 1) % Size

Sub(a, b) == (a - b) % SeqMod
\* a - b as unsigned 16 bit integer, with the top bit clear.
NotBefore(a, b) == Sub(a, b) < SeqMod \div 2

EmptySlot == [start |-> FALSE, end |-> FALSE, packet |-> NoPacket]

VARIABLES
  sb,        \* the SampleBuilder
  arrived,   \* how many copies of a packet have been pushed
  sample,    \* what the last Pop returned: a sequence of packets, <<>> for nil
  lastPop    \* history: the last packet of the last sample since a jump

vars == <<sb, arrived, sample, lastPop>>

(***************************************************************************)
(* out[n]: copies of n given to Push and not handed to the release         *)
(* handler, which puts their buffer back into the pool.                    *)
(***************************************************************************)
New ==
  [packets |-> [i \in Slots |-> EmptySlot], head |-> 0, tail |-> 0,
   lastSeqnoValid |-> FALSE, lastSeqno |-> 0,
   out |-> [n \in Packets |-> 0],
   panic |-> FALSE]   \* the panic in Push has been reached

Empty(s) == s.head = s.tail
Missing(s, i) == s.packets[i].packet = NoPacket
oldest(s) == s.packets[s.tail].packet
newest(s) == s.packets[dec(s.head)].packet
Length(s) == (s.head - s.tail) % Size

Put(s, i, n, start, end) ==
  [s EXCEPT !.packets[i] = [start |-> start, end |-> end, packet |-> n]]

PutFirst(s, n) ==
  [Put(s, 0, n, isStart(n), isEnd(n)) EXCEPT !.tail = 0, !.head = 1]

Reject(s, n) == [s EXCEPT !.out[n] = @ - 1]
-----------------------------------------------------------------------------
\* Mutant: release keeps the packet's slot.
ReleaseKeeping(s) ==
  LET n    == oldest(s)
      gone == Reject([s EXCEPT !.lastSeqnoValid = TRUE, !.lastSeqno = seq(n)], n)
      step == Min({d \in 1 .. Length(s) :
                     d = Length(s) \/ ~Missing(s, (s.tail + d) % Size)})
  IN  IF Empty(s) THEN s
      ELSE IF step = Length(s) THEN [gone EXCEPT !.head = 0, !.tail = 0]
      ELSE [gone EXCEPT !.tail = (s.tail + step) % Size]

(***************************************************************************)
(* release: the oldest packet goes, the tail moves to the next packet.     *)
(***************************************************************************)
Release(s) ==
  LET n    == oldest(s)
      gone == Reject([s EXCEPT !.packets[s.tail] = EmptySlot,
                               !.lastSeqnoValid = TRUE, !.lastSeqno = seq(n)], n)
      step == Min({d \in 1 .. Length(s) :
                     d = Length(s) \/ ~Missing(s, (s.tail + d) % Size)})
  IN  IF Empty(s) THEN s
      ELSE IF step = Length(s) THEN [gone EXCEPT !.head = 0, !.tail = 0]
      ELSE [gone EXCEPT !.tail = (s.tail + step) % Size]

RECURSIVE ReleaseAll(_)
ReleaseAll(s) == IF Empty(s) THEN s ELSE ReleaseAll(Release(s))

RECURSIVE DropRest(_, _)
DropRest(s, t) ==
  IF Empty(s) \/ s.packets[s.tail].start \/ ts(oldest(s)) # t
    THEN s ELSE DropRest(Release(s), t)

\* drop: the oldest frame goes, complete or not.
Drop(s) == IF Empty(s) THEN s ELSE DropRest(Release(s), ts(oldest(s)))
-----------------------------------------------------------------------------
\* Mutant: only the packet released last counts as late.
TooLateNever(s, n) == s.lastSeqnoValid /\ s.lastSeqno = seq(n)

(***************************************************************************)
(* Push: first the bookkeeping of lastSeqno.                               *)
(***************************************************************************)
TooLate(s, n) ==
  /\ s.lastSeqnoValid
  /\ NotBefore(s.lastSeqno, seq(n))
  /\ Sub(s.lastSeqno, seq(n)) <= maxLate

AdvanceLastSeqno(s, n) ==
  LET last   == Sub(seq(n), maxLate)
      before == Sub(seq(oldest(s)), 1)
      upTo   == IF ~Empty(s) /\ NotBefore(last, before) THEN before ELSE last
  IN  IF ~s.lastSeqnoValid THEN s
      ELSE IF NotBefore(s.lastSeqno, seq(n)) THEN [s EXCEPT !.lastSeqnoValid = FALSE]
      ELSE IF NotBefore(last, s.lastSeqno) THEN [s EXCEPT !.lastSeqno = upTo]
      ELSE s

PushSequential(s0, n) ==
  LET full    == s0.tail = inc(s0.head)
      s       == IF full THEN Drop(s0) ELSE s0
      partial == full /\ ts(oldest(s0)) = ts(n)
      prev    == dec(s0.head)
      start   == IF Empty(s)
                   THEN isStart(n)
                   ELSE \/ s.packets[prev].end
                        \/ ts(s.packets[prev].packet) # ts(n)
                        \/ isStart(n)
      marked  == IF ~Empty(s) /\ start THEN [s EXCEPT !.packets[prev].end = TRUE] ELSE s
  IN  IF partial
        THEN [Reject(s, n) EXCEPT !.panic = ~Empty(s)]
        ELSE [Put(marked, s.head, n, start, isEnd(n)) EXCEPT !.head = inc(s.head)]

RECURSIVE MakeSpace(_, _)
MakeSpace(s, count) ==
  IF Length(s) + count <= cap \/ Empty(s) THEN s ELSE MakeSpace(Drop(s), count)

PushFuture(s0, n) ==
  LET offset == Sub(seq(n), seq(newest(s0))) - 1
      s      == MakeSpace(s0, offset + 1)
      index  == (s.head + offset) % Size
  IN  IF Empty(s)
        THEN PutFirst(s, n)
        ELSE [Put(s, index, n, isStart(n), isEnd(n)) EXCEPT !.head = inc(index)]

\* Mutant: the neighbours of the packet are not marked.
PushPastUnmarked(s0, n) ==
  LET offset == Sub(seq(newest(s0)), seq(n)) + 1
      index  == (s0.head - offset) % Size
      extend == IF s0.tail < s0.head
                  THEN index < s0.tail \/ index > s0.head
                  ELSE index < s0.tail /\ index > s0.head
      s      == IF extend THEN [s0 EXCEPT !.tail = index] ELSE s0
      prev   == dec(index)
      next   == inc(index)
      follows == index # s.tail /\ ~Missing(s, prev)
      cutL    == isStart(n) \/ (follows /\ ts(s.packets[prev].packet) # ts(n))
      start   == cutL \/ (follows /\ s.packets[prev].end)
      leads   == ~Missing(s, next)
      cutR    == isEnd(n) \/ (leads /\ ts(s.packets[next].packet) # ts(n))
      end     == cutR \/ (leads /\ s.packets[next].start)
  IN  IF offset >= cap THEN Reject(s0, n)
      ELSE IF ~Missing(s, index) THEN Reject(s, n)
      ELSE Put(s, index, n, start, end)

PushPast(s0, n) ==
  LET offset == Sub(seq(newest(s0)), seq(n)) + 1
      index  == (s0.head - offset) % Size
      extend == IF s0.tail < s0.head
                  THEN index < s0.tail \/ index > s0.head
                  ELSE index < s0.tail /\ index > s0.head
      s      == IF extend THEN [s0 EXCEPT !.tail = index] ELSE s0
      prev   == dec(index)
      next   == inc(index)
      follows == index # s.tail /\ ~Missing(s, prev)
      cutL    == isStart(n) \/ (follows /\ ts(s.packets[prev].packet) # ts(n))
      start   == cutL \/ (follows /\ s.packets[prev].end)
      leads   == ~Missing(s, next)
      cutR    == isEnd(n) \/ (leads /\ ts(s.packets[next].packet) # ts(n))
      end     == cutR \/ (leads /\ s.packets[next].start)
      left    == IF follows /\ cutL THEN [s EXCEPT !.packets[prev].end = TRUE] ELSE s
      both    == IF leads /\ cutR THEN [left EXCEPT !.packets[next].start = TRUE] ELSE left
  IN  IF offset >= cap THEN Reject(s0, n)
      ELSE IF ~Missing(s, index) THEN Reject(s, n)
      ELSE Put(both, index, n, start, end)

PushOrdered(s, n) ==
  LET gap == Sub(seq(n), seq(newest(s)))
  IN  CASE Empty(s) -> PutFirst(s, n)
        [] ~Empty(s) /\ gap = 0 -> Reject(s, n)
        [] ~Empty(s) /\ gap = 1 -> PushSequential(s, n)
        [] ~Empty(s) /\ gap > 1 /\ gap < SeqMod \div 2 ->
             IF gap > cap
               THEN PutFirst(AdvanceLastSeqno(ReleaseAll(s), n), n)
               ELSE PushFuture(s, n)
        [] OTHER -> PushPast(s, n)

(***************************************************************************)
(* A late packet is ignored without a call of the release handler.         *)
(***************************************************************************)
Push(s0, n) ==
  LET s == [s0 EXCEPT !.out[n] = @ + 1]
  IN  IF TooLate(s, n) THEN s ELSE PushOrdered(AdvanceLastSeqno(s, n), n)
-----------------------------------------------------------------------------
(***************************************************************************)
(* pop: the slot at which the sample at the tail ends, or where the search *)
(* for it stops: a missing packet, or the head.                            *)
(***************************************************************************)
EndOfSample(s) ==
  (s.tail + Min({d \in 0 .. Length(s) :
                   LET i == (s.tail + d) % Size
                   IN  d = Length(s) \/ s.packets[i].end \/ Missing(s, i)})) % Size

\* Mutant: the last packet is not counted.
SampleCountShort(s, last) ==
  IF last < s.tail THEN cap + last - s.tail ELSE last - s.tail

(***************************************************************************)
(* How many packets pop takes, as the code computes it.                    *)
(***************************************************************************)
SampleCount(s, last) ==
  IF last < s.tail THEN cap + last - s.tail + 1 ELSE last - s.tail + 1

(***************************************************************************)
(* Take count packets from the tail; an undecodable one ends the loop and  *)
(* makes the result nil.                                                   *)
(***************************************************************************)
RECURSIVE Take(_, _, _)
Take(s, count, data) ==
  IF count = 0 THEN [s |-> s, sample |-> data]
  ELSE IF unmarshalFails(oldest(s)) THEN [s |-> Release(s), sample |-> <<>>]
  ELSE Take(Release(s), count - 1, Append(data, oldest(s)))

RECURSIVE pop(_, _)
pop(s, force) ==
  LET nil  == [s |-> s, sample |-> <<>>]
      span == Sub(seq(newest(s)), seq(oldest(s)))
      last == EndOfSample(s)
  IN  CASE Empty(s) -> nil
        [] ~Empty(s) /\ ~s.packets[s.tail].start ->
             IF force \/ span > maxLate THEN pop(Drop(s), force) ELSE nil
        [] ~Empty(s) /\ s.packets[s.tail].start ->
             IF /\ ~force /\ s.lastSeqnoValid
                /\ (s.lastSeqno + 1) % SeqMod # seq(oldest(s)) THEN nil
             ELSE IF last = s.head THEN nil
             ELSE IF Missing(s, last) THEN IF force THEN pop(Drop(s), force) ELSE nil
             ELSE Take(s, SampleCount(s, last), <<>>)
-----------------------------------------------------------------------------
Init ==
  /\ sb = New
  /\ arrived = [n \in Packets |-> 0]
  /\ sample = <<>>
  /\ lastPop = NoPacket

Popped(p, before) ==
  /\ sb' = p.s
  /\ sample' = p.sample
  /\ lastPop' = IF p.sample = <<>> THEN before ELSE p.sample[Len(p.sample)]

\* A packet that is so late that Push takes it for a jump of the stream.
Jump(n) ==
  /\ sb.lastSeqnoValid
  /\ NotBefore(sb.lastSeqno, seq(n))
  /\ Sub(sb.lastSeqno, seq(n)) > maxLate

(***************************************************************************)
(* segmenter.go, WriteRtp: push the packet that has arrived, pop once.     *)
(***************************************************************************)
WriteRtp(n) ==
  /\ ~sb.panic
  /\ arrived[n] < Copies(n)
  /\ arrived' = [arrived EXCEPT ![n] = @ + 1]
  /\ LET pushed == Push(sb, n)
     IN  Popped(IF pushed.panic THEN [s |-> pushed, sample |-> <<>>]
                                ELSE pop(pushed, FALSE),
                IF Jump(n) THEN NoPacket ELSE lastPop)

(***************************************************************************)
(* ForcePop and Close, for a caller at the end of a stream.                *)
(***************************************************************************)
ForcePop ==
  /\ ~sb.panic
  /\ Popped(pop(sb, TRUE), lastPop)
  /\ UNCHANGED arrived

Close ==
  /\ ~sb.panic
  /\ Popped([s |-> ReleaseAll(sb), sample |-> <<>>], lastPop)
  /\ UNCHANGED arrived

Next == (\E n \in Packets : WriteRtp(n)) \/ ForcePop \/ Close

Spec == Init /\ [][Next]_vars
-----------------------------------------------------------------------------
Held(s) == {s.packets[i].packet : i \in Slots} \ {NoPacket}

\* The circular buffer is well formed, and no packet is released more often
\* than it was pushed (release).
TypeOK ==
  /\ sb.packets \in [Slots -> [start : BOOLEAN, end : BOOLEAN, packet : Packets \cup {NoPacket}]]
  /\ sb.head \in Slots /\ sb.tail \in Slots
  /\ sb.lastSeqno \in 0 .. SeqMod - 1
  /\ sb.lastSeqnoValid \in BOOLEAN /\ sb.panic \in BOOLEAN
  /\ sb.out \in [Packets -> 0 .. 2]
  /\ arrived \in [Packets -> 0 .. 2]
  /\ lastPop \in Packets \cup {NoPacket}

(***************************************************************************)
(* The invariants codified in check().                                     *)
(***************************************************************************)
Check ==
  Empty(sb) \/
  LET at(i)  == (sb.tail + i) % Size
      pkt(i) == sb.packets[at(i)].packet
      N      == Length(sb)
  IN  /\ ~Missing(sb, sb.tail)
      /\ ~Missing(sb, dec(sb.head))
      /\ sb.lastSeqnoValid =>
           seq(oldest(sb)) # sb.lastSeqno /\ NotBefore(seq(oldest(sb)), sb.lastSeqno)
      /\ \A i \in 0 .. N - 1 : pkt(i) # NoPacket =>
           seq(pkt(i)) = (seq(oldest(sb)) + i) % SeqMod
      /\ \A i \in 1 .. N - 1 : pkt(i) # NoPacket /\ pkt(i - 1) # NoPacket =>
           \/ ts(pkt(i)) = ts(pkt(i - 1))
           \/ sb.packets[at(i)].start /\ sb.packets[at(i - 1)].end
      /\ \A i \in N .. Size - 1 : pkt(i) = NoPacket

(***************************************************************************)
(* A packet in the buffer has not been handed to the release handler: its  *)
(* bytes are not reused while a sample may still be built from it.         *)
(***************************************************************************)
HeldNotReleased == \A n \in Held(sb) : sb.out[n] >= 1

(***************************************************************************)
(* A sample is a run of consecutive packets of one frame, whatever was     *)
(* lost or reordered, and up to the frame's end ("Pop returns a completed  *)
(* packet").  The exception is a sample that lies across the end of the    *)
(* array, for which SampleCount is one short.                              *)
(***************************************************************************)
SamplesWhole ==
  /\ \A i \in 1 .. Len(sample) :
       /\ ts(sample[i]) = ts(sample[1])
       /\ sample[i] = sample[1] + i - 1
  /\ sample # <<>> /\ sb.tail >= Len(sample) =>
       LET n == sample[Len(sample)]
       IN  isEnd(n) \/ isStart(n + 1)

(***************************************************************************)
(* Samples come out in the order of the stream, and no packet in two of    *)
(* them: since Push last took a very late packet for a jump, every packet  *)
(* at or before the last one popped or dropped is refused.                 *)
(***************************************************************************)
InOrder ==
  [][/\ sample' # <<>>
     /\ \A n \in Packets : arrived'[n] # arrived[n] => ~Jump(n)
     => sample'[1] > lastPop]_vars
=============================================================================
