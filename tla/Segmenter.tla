----------------------------- MODULE Segmenter -----------------------------
(***************************************************************************)
(* The recorder's segmenter (pkg/segmenter/segmenter.go): access units of  *)
(* several H264 tracks are cut into segments at key frames, one media      *)
(* playlist per track and one index over all of them.  A unit is its kind  *)
(* and what its parameter sets are; a time is a small number.  The rest of *)
(* startRecord that drives it is in module Recording, the sample builder   *)
(* before it in SampleBuilder.                                             *)
(***************************************************************************)
EXTENDS Naturals, Integers, SequencesExt

CONSTANTS Tracks,           \* the labeled tracks of one segmenter
          SegmentDuration,  \* config.record.segmentDuration
          MaxDts,           \* bound: no unit has a later decoding time
          MaxVersion,       \* bound: parameter sets a track goes through
          MaxElapsed,       \* bound: wall-clock time at which Close runs
          MaxReports        \* bound: contexts handed to the handler

ASSUME Bounds == /\ {SegmentDuration, MaxVersion, MaxElapsed, MaxReports} \subseteq Nat
                 /\ MaxDts \in Nat

VARIABLES trk,       \* the Track structs
          seg,       \* the Segmenter struct
          reported,  \* the SegmentContexts given to segmentHandler
          bad,       \* WriteRtp returned ErrBadDts
          written    \* history: the samples writeVideo took, per track

vars == <<trk, seg, reported, bad, written>>

None == -1
Times == 0 .. MaxDts
Samples == [dts : Times, key : BOOLEAN, ver : 1 .. MaxVersion]
NoSample == [dts |-> None, key |-> FALSE, ver |-> 0]
Units == [kind : {"idr", "nonIDR", "parameters"}, sets : {"none", "known", "new"}]

\* ver counts the parameter sets seen (0: codec.SPS is nil), active is the one
\* the last IDR was coded with, prev the extractor's prevDTS.
NewTrack == [known |-> FALSE, ready |-> FALSE, closed |-> FALSE, ver |-> 0, active |-> 0,
             forceSwitch |-> FALSE, keyFramed |-> FALSE, prev |-> None, start |-> FALSE,
             startDTS |-> 0, next |-> NoSample, part |-> <<>>, base |-> 0,
             segments |-> <<>>, initCreated |-> FALSE]

Init == /\ trk = [t \in Tracks |-> NewTrack]
        /\ seg = [ready |-> FALSE, start |-> None, end |-> None, indexCreated |-> FALSE,
                  closed |-> FALSE]
        /\ reported = <<>>
        /\ bad = FALSE
        /\ written = [t \in Tracks |-> <<>>]

-----------------------------------------------------------------------------
\* pion learns the codec of a track with its first packets.
CodecKnown(t) == /\ ~trk[t].known
                 /\ trk' = [trk EXCEPT ![t].known = TRUE]
                 /\ UNCHANGED <<seg, reported, bad, written>>

\* Segmenter.TryReady, which readies every track it can.
TryReady ==
  /\ ~seg.ready /\ ~seg.closed
  /\ trk' = [t \in Tracks |-> [trk[t] EXCEPT !.ready = @ \/ trk[t].known]]
  /\ seg' = [seg EXCEPT !.ready = \A t \in Tracks : trk'[t].ready]
  /\ UNCHANGED <<reported, bad, written>>

-----------------------------------------------------------------------------
\* The parameter sets of a unit: a changed one arms forceSwitch.
Scanned(k, u) ==
  IF u.sets = "new" THEN [k EXCEPT !.ver = @ + 1, !.forceSwitch = TRUE] ELSE k

\* Mutant: any unit takes the switch.
SwitchesAtAny(k, u) == k.forceSwitch

\* A key frame takes the armed switch; the first one starts the track.
Switches(k, u) == u.kind = "idr" /\ k.forceSwitch
Taken(k, u) ==
  [k EXCEPT !.forceSwitch = @ /\ ~Switches(k, u),
            !.keyFramed = @ \/ u.kind = "idr",
            !.active = IF u.kind = "idr" THEN k.ver ELSE @]

\* The unit is left out silently: no slice, no parameter set yet, or no key
\* frame yet.
Skipped(k, u) == \/ u.kind = "parameters"
                 \/ k.ver = 0
                 \/ ~k.keyFramed /\ u.kind # "idr"

\* Extract's last check.
Increasing(k, d) == k.prev = None \/ d > k.prev

\* setEnd
SetEnd(s, d) == [s EXCEPT !.end = IF d > @ THEN d ELSE @]

\* flushSegment up to the segmenter's index, with Track.updateIndex.
Flushed(k, d) ==
  [k EXCEPT !.segments = Append(@, [samples |-> k.part, duration |-> d - k.startDTS,
                                    base |-> k.base]),
            !.initCreated = TRUE]

\* The segmenter's part of a flush: setEnd, then UpdateIndex(TRUE).
First(s) == ~s.indexCreated
UpdateIndex(s, last) ==
  /\ Len(reported) < MaxReports
  /\ seg' = [s EXCEPT !.indexCreated = TRUE]
  /\ reported' = Append(reported, [first |-> First(s), last |-> last])

\* The first sample fixes the track's start and, when it is the first of all,
\* the segmenter's (setStart).
Begun(k, x) == IF k.next = NoSample THEN [k EXCEPT !.startDTS = x.dts, !.start = TRUE] ELSE k
Opened(s, k, x) ==
  IF k.next = NoSample /\ ~k.start /\ s.start = None THEN [s EXCEPT !.start = x.dts] ELSE s

\* The queued sample goes into the current part; BaseTime of a part that is
\* made now is relative to the segmenter's start.
Queued(k, s) ==
  [k EXCEPT !.base = IF k.part = <<>> THEN k.startDTS - s.start ELSE @,
            !.part = Append(@, k.next)]

\* The segment ends before a key frame that switches or comes late enough.
Ends(k, x, force) == x.key /\ (force \/ x.dts - k.startDTS > SegmentDuration)

\* Mutant: the segment starts at the sample before.
RestartedFromQueue(k, s, x) ==
  [k EXCEPT !.startDTS = k.next.dts, !.part = <<x>>, !.base = x.dts - s.start]

\* The next segment's part already holds the sample that is still queued: it is
\* appended once more when the following one arrives.
Restarted(k, s, x) ==
  [k EXCEPT !.startDTS = x.dts, !.part = <<x>>, !.base = x.dts - s.start]

\* writeVideo with a sample
writeVideo(t, k, x, force) ==
  LET s == Opened(seg, k, x)
      b == Begun(k, x)
      q == Queued(b, s)
  IN  /\ written' = [written EXCEPT ![t] = Append(@, x)]
      /\ \/ /\ k.next = NoSample
            /\ trk' = [trk EXCEPT ![t] = [b EXCEPT !.next = x]]
            /\ seg' = s
            /\ UNCHANGED reported
         \/ /\ k.next # NoSample /\ ~Ends(b, x, force)
            /\ trk' = [trk EXCEPT ![t] = [q EXCEPT !.next = x]]
            /\ seg' = s
            /\ UNCHANGED reported
         \/ /\ k.next # NoSample /\ Ends(b, x, force)
            /\ trk' = [trk EXCEPT ![t] = [Restarted(Flushed(q, x.dts), s, x) EXCEPT !.next = x]]
            /\ UpdateIndex(SetEnd(s, x.dts), FALSE)

\* writeH26x for an access unit whose decoding time comes out as d.
WriteData(t, u, d) ==
  LET k == Scanned(trk[t], u)
      n == Taken(k, u)
  IN  /\ seg.ready /\ ~seg.closed /\ ~bad /\ ~trk[t].closed
      /\ u.sets = "new" => trk[t].ver < MaxVersion
      /\ u.sets = "known" => trk[t].ver > 0
      /\ \/ /\ Skipped(k, u)
            /\ trk' = [trk EXCEPT ![t] = k]
            /\ UNCHANGED <<seg, reported, bad, written>>
         \/ /\ ~Skipped(k, u) /\ ~Increasing(k, d)
            /\ bad' = TRUE
            /\ trk' = [trk EXCEPT ![t] = n]
            /\ UNCHANGED <<seg, reported, written>>
         \/ /\ ~Skipped(k, u) /\ Increasing(k, d)
            /\ writeVideo(t, [n EXCEPT !.prev = d],
                          [dts |-> d, key |-> u.kind = "idr", ver |-> n.active],
                          Switches(k, u))
            /\ UNCHANGED bad

-----------------------------------------------------------------------------
\* Mutant: the open part is thrown away.
ClosedUnflushed(k, s, e) == [k EXCEPT !.closed = TRUE, !.next = NoSample, !.part = <<>>]

\* Track.Close, e after the current segment's start on the wall clock.
Closed(k, s, e) ==
  IF k.closed \/ ~k.ready \/ k.next = NoSample THEN [k EXCEPT !.closed = TRUE]
  ELSE [Flushed(Queued(k, s), k.startDTS + e) EXCEPT
          !.closed = TRUE, !.next = NoSample, !.part = <<>>, !.startDTS = 0]

Flushes(k) == ~k.closed /\ k.ready /\ k.next # NoSample

\* CloseTrack: the index is left for Close.
CloseTrack(t) ==
  /\ ~trk[t].closed /\ ~seg.closed /\ ~bad
  /\ \E e \in 1 .. MaxElapsed :
       /\ trk' = [trk EXCEPT ![t] = Closed(@, seg, e)]
       /\ seg' = IF Flushes(trk[t]) THEN SetEnd(seg, trk[t].startDTS + e) ELSE seg
  /\ UNCHANGED <<reported, bad, written>>

\* Close: every track, then UpdateIndex(FALSE), which returns at once while no
\* index was created.
Close ==
  /\ ~seg.closed
  /\ \E e \in [Tracks -> 1 .. MaxElapsed], at \in 1 .. MaxElapsed :
       LET s == [seg EXCEPT !.end = IF seg.start = None THEN @ ELSE seg.start + at,
                            !.closed = TRUE]
       IN  /\ trk' = [t \in Tracks |-> Closed(trk[t], seg, e[t])]
           /\ \/ /\ First(seg) \/ seg.start = None
                 /\ seg' = s
                 /\ UNCHANGED reported
              \/ /\ ~First(seg) /\ seg.start # None
                 /\ UpdateIndex(s, TRUE)
  /\ UNCHANGED <<bad, written>>

Next == \/ \E t \in Tracks : CodecKnown(t) \/ CloseTrack(t)
        \/ \E t \in Tracks, u \in Units, d \in Times : WriteData(t, u, d)
        \/ TryReady
        \/ Close

Spec == Init /\ [][Next]_vars

-----------------------------------------------------------------------------
TypeOK ==
  /\ \A t \in Tracks :
       /\ trk[t].ver \in 0 .. MaxVersion /\ trk[t].active \in 0 .. trk[t].ver
       /\ trk[t].next \in Samples \cup {NoSample}
       /\ trk[t].part \in Seq(Samples)
       /\ \A i \in DOMAIN trk[t].segments : trk[t].segments[i].samples \in Seq(Samples)
  /\ seg.start \in Times \cup {None}
  /\ Len(reported) <= MaxReports

\* What a track has cut so far, the open part last.
Parts(k) == [i \in DOMAIN k.segments |-> k.segments[i].samples]
            \o (IF k.part = <<>> THEN <<>> ELSE <<k.part>>)

\* A player may begin at any segment: it starts with a key frame, and all its
\* samples were coded with the parameter sets of that key frame.
SegmentsDecodable ==
  \A t \in Tracks : \A i \in DOMAIN Parts(trk[t]) :
    LET p == Parts(trk[t])[i]
    IN  p[1].key /\ \A j \in DOMAIN p : p[j].ver = p[1].ver

\* Every sample writeVideo took is in a segment, in the open part or queued, in
\* the order it came.  A sample at the head of a segment may stand there twice.
Distinct(s) == SelectSeq([i \in DOMAIN s |-> [x |-> s[i], new |-> i = 1 \/ s[i] # s[i - 1]]],
                         LAMBDA r : r.new)
NothingLost ==
  \A t \in Tracks :
    LET k == trk[t]
        all == Distinct(FlattenSeq(Parts(k)) \o (IF k.next = NoSample THEN <<>> ELSE <<k.next>>))
    IN  [i \in DOMAIN all |-> all[i].x] = written[t]

\* The playlist of an open track has no gap: its segments last exactly from the
\* first sample to the start of the open one; bandwidth never divides by zero.
Timeline ==
  \A t \in Tracks :
    LET k == trk[t]
        total == FoldLeft(LAMBDA a, s : a + s.duration, 0, k.segments)
    IN  /\ \A i \in DOMAIN k.segments : k.segments[i].duration > 0
        /\ k.next # NoSample => total = k.startDTS - written[t][1].dts
=============================================================================
