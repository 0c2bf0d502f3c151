----------------------------- MODULE Recording -----------------------------
(***************************************************************************)
(* The recording of one publication (signal/model.go, signal/record.go):   *)
(* a reader goroutine per track that calls the track's consumers, the      *)
(* recording goroutine they feed through pktCh, the segmenter it writes to *)
(* and the Recorder whose goroutines keep a database document.  The        *)
(* segmenter is abstract here (see module Segmenter): a packet may         *)
(* complete a segment or have a bad decoding time.                         *)
(***************************************************************************)
EXTENDS Naturals, FiniteSets, SequencesExt

CONSTANTS Tracks, Forwarders,  \* Forwarders[t]: consumers that SatifySelect registers
          ChanCap,             \* capacity of pktCh
          MaxReports,          \* bound: contexts of one segmenter
          MaxGens              \* bound: segmenters made after a bad time

ASSUME Bounds == {ChanCap, MaxReports, MaxGens} \subseteq Nat /\ DOMAIN Forwarders = Tracks

VARIABLES recordStart, pubClosed,
          media,      \* live, or ended: Read fails
          consumers,  \* PublishedTrack.consumers
          reader,     \* what the reader goroutine does: see Readers
          eofs,       \* history: ends a consumer of a track was told
          pktCh,
          loop,       \* the recording goroutine: off, run, done
          shut,       \* tracks closed in the current segmenter
          closedTrackNum,
          gen,        \* the current segmenter and its Recorder
          reports,    \* contexts each segmenter handed out
          sealed,     \* segmenters that are closed
          pend,       \* goroutines that have still to call Record
          rec         \* the Recorders: id set, err set, documents inserted, panicked

pubVars == <<recordStart, pubClosed, media, consumers, reader, eofs>>
recVars == <<loop, shut, closedTrackNum, gen, reports, sealed>>
dbVars == <<pend, rec>>
vars == <<recordStart, pubClosed, media, consumers, reader, eofs, pktCh, loop, shut, closedTrackNum,
          gen, reports, sealed, pend, rec>>

Recorder == "recorder"
Consumers(t) == Forwarders[t] \cup {Recorder}
ASSUME TracksAssumption == IsFiniteSet(Tracks) /\ \A t \in Tracks : Recorder \notin Forwarders[t]
Gens == 0 .. MaxGens
Ended == "ended"

\* A reader that runs consumes: it holds consumerMu, todo are the consumers the
\* loop has still to call, end says whether it carries the error.
NoReader == [at |-> "none", todo |-> <<>>, end |-> FALSE]
Idle == [at |-> "idle", todo |-> <<>>, end |-> FALSE]
Calling(cs, end) == [at |-> "calling", todo |-> cs, end |-> end]

Init ==
  /\ recordStart = FALSE /\ pubClosed = FALSE
  /\ media = [t \in Tracks |-> "live"]
  /\ consumers = [t \in Tracks |-> <<>>]
  /\ reader = [t \in Tracks |-> NoReader]
  /\ eofs = [t \in Tracks |-> [c \in Consumers(t) |-> 0]]
  /\ pktCh = <<>>
  /\ loop = "off" /\ shut = {} /\ closedTrackNum = 0 /\ gen = 0
  /\ reports = [g \in Gens |-> 0] /\ sealed = {}
  /\ pend = {}
  /\ rec = [g \in Gens |-> [id |-> FALSE, err |-> FALSE, inserts |-> 0, panic |-> FALSE]]

-----------------------------------------------------------------------------
\* A panic ends the process.
Alive == \A g \in Gens : ~rec[g].panic

\* OnRTPPacket with consumerMu free: the first consumer starts a reader.
Free(t) == reader[t].at # "calling"
Added(t, c) == Append(consumers[t], c)
Started(t) == IF consumers[t] = <<>> THEN Idle ELSE reader[t]

\* startRecord, at the end of each Bind that finds every track bound.
AlreadyStarted == recordStart
startRecord ==
  /\ Alive /\ ~pubClosed /\ ~AlreadyStarted
  /\ \A t \in Tracks : Free(t)
  /\ recordStart' = TRUE
  /\ consumers' = [t \in Tracks |-> Added(t, Recorder)]
  /\ reader' = [t \in Tracks |-> Started(t)]
  /\ loop' = "run"
  /\ UNCHANGED <<pubClosed, media, eofs, pktCh, shut, closedTrackNum, gen, reports, sealed, dbVars>>

\* PublishedTrack.SatifySelect, once for a forwarder.
SatifySelect(t, f) ==
  /\ Alive /\ ~pubClosed /\ Free(t)
  /\ ~Contains(consumers[t], f) /\ eofs[t][f] = 0
  /\ consumers' = [consumers EXCEPT ![t] = Added(t, f)]
  /\ reader' = [reader EXCEPT ![t] = Started(t)]
  /\ UNCHANGED <<recordStart, pubClosed, media, eofs, pktCh, recVars, dbVars>>

\* The peer connection drops the track: Read fails from now on.
End(t) == /\ Alive /\ media[t] = "live"
          /\ media' = [media EXCEPT ![t] = Ended]
          /\ UNCHANGED <<recordStart, pubClosed, consumers, reader, eofs, pktCh, recVars, dbVars>>

\* Publication.Close
Close == /\ Alive /\ ~pubClosed
         /\ pubClosed' = TRUE
         /\ UNCHANGED <<recordStart, media, consumers, reader, eofs, pktCh, recVars, dbVars>>

\* Read returns a packet or an error; consumes begins.
Read(t) ==
  /\ Alive /\ reader[t] = Idle
  /\ reader' = [reader EXCEPT ![t] = Calling(consumers[t], media[t] = Ended)]
  /\ UNCHANGED <<recordStart, pubClosed, media, consumers, eofs, pktCh, recVars, dbVars>>

\* Mutant: the consumer is removed in place, under the loop.
StillToCallMoved(t, c) ==
  LET rest == Tail(reader[t].todo)
  IN  IF Len(rest) < 2 THEN rest ELSE Append(Tail(rest), Last(rest))

\* removeConsumer copies the slice that consumes is ranging over: what the loop
\* has still to call stays.  In place, the loop would see the elements moved.
StillToCall(t, c) == Tail(reader[t].todo)

\* One consumer is called: it stops at an error, a forwarder also at a closed
\* publication.  The recorder's waits for room in pktCh.  removeConsumer takes the
\* pointer off the list, where it is once.
Stops(t, c) == reader[t].end \/ (c # Recorder /\ pubClosed)
Call(t) ==
  LET c == Head(reader[t].todo)
  IN  /\ Alive /\ reader[t].at = "calling" /\ reader[t].todo # <<>>
      /\ \/ /\ c = Recorder /\ Len(pktCh) < ChanCap
            /\ pktCh' = Append(pktCh, [track |-> t, end |-> reader[t].end])
         \/ /\ c # Recorder
            /\ UNCHANGED pktCh
      /\ consumers' = IF Stops(t, c)
                      THEN [consumers EXCEPT ![t] = RemoveFirst(@, c)] ELSE consumers
      /\ eofs' = IF Stops(t, c) THEN [eofs EXCEPT ![t][c] = @ + 1] ELSE eofs
      /\ reader' = [reader EXCEPT ![t].todo = IF Stops(t, c) THEN StillToCall(t, c) ELSE Tail(@)]
      /\ UNCHANGED <<recordStart, pubClosed, media, recVars, dbVars>>

\* consumes unlocks; with the last consumer gone the reader's channel is closed.
Called(t) ==
  /\ Alive /\ reader[t].at = "calling" /\ reader[t].todo = <<>>
  /\ reader' = [reader EXCEPT ![t] = IF consumers[t] = <<>> THEN NoReader ELSE Idle]
  /\ UNCHANGED <<recordStart, pubClosed, media, consumers, eofs, pktCh, recVars, dbVars>>

-----------------------------------------------------------------------------
\* Mutant: first is asked of the recorder, not of the segmenter.
HandedAsFirst(g, last) == [gen |-> g, n |-> reports[g] + 1, first |-> ~rec[g].id, last |-> last]

\* The segment handler: a goroutine per context, n its place in the order.
Handed(g, last) == [gen |-> g, n |-> reports[g] + 1, first |-> reports[g] = 0, last |-> last]

\* Segmenter.Close: a last context when there was one before.
CloseSegmenter ==
  /\ sealed' = sealed \cup {gen}
  /\ \/ /\ reports[gen] > 0
        /\ pend' = pend \cup {Handed(gen, TRUE)}
        /\ reports' = [reports EXCEPT ![gen] = @ + 1]
     \/ /\ reports[gen] = 0
        /\ UNCHANGED <<pend, reports>>

\* Mutant: the close is looked at only with a packet.
RecordStopsAfterPacket ==
  /\ Alive /\ loop = "run" /\ pubClosed /\ pktCh # <<>>
  /\ loop' = "done"
  /\ CloseSegmenter
  /\ pktCh' = Tail(pktCh)
  /\ UNCHANGED <<pubVars, shut, closedTrackNum, gen, rec>>

\* case <-me.closeCh, and the deferred Close.
RecordStops ==
  /\ Alive /\ loop = "run" /\ pubClosed
  /\ loop' = "done"
  /\ CloseSegmenter
  /\ UNCHANGED <<pubVars, pktCh, shut, closedTrackNum, gen, rec>>

\* Mutant: the end of a track ends the loop.
GoesOnEnds == loop' = "done"

\* case pkg = <-pktCh with the mark of a track's end.
GoesOn == UNCHANGED loop
TakeEnd ==
  /\ Alive /\ loop = "run" /\ pktCh # <<>> /\ Head(pktCh).end
  /\ pktCh' = Tail(pktCh)
  /\ shut' = shut \cup {Head(pktCh).track}
  /\ closedTrackNum' = closedTrackNum + 1
  /\ GoesOn
  /\ UNCHANGED <<pubVars, gen, reports, sealed, dbVars>>

\* A packet: TryReady fails or WriteRtp completes nothing, or a segment, or has a
\* bad decoding time and the segmenter is closed and replaced.  The goroutine
\* would end here with all tracks closed, which NoPacketAfterEnd excludes.
AllClosed == closedTrackNum = Cardinality(Tracks)
TakePacket ==
  /\ Alive /\ loop = "run" /\ pktCh # <<>> /\ ~Head(pktCh).end
  /\ pktCh' = Tail(pktCh)
  /\ ~AllClosed
  /\ \/ UNCHANGED <<recVars, dbVars>>
     \/ /\ reports[gen] < MaxReports
        /\ pend' = pend \cup {Handed(gen, FALSE)}
        /\ reports' = [reports EXCEPT ![gen] = @ + 1]
        /\ UNCHANGED <<loop, shut, closedTrackNum, gen, sealed, rec>>
     \/ /\ gen < MaxGens
        /\ CloseSegmenter
        /\ gen' = gen + 1 /\ shut' = {}
        /\ UNCHANGED <<loop, closedTrackNum, rec>>
  /\ UNCHANGED pubVars

-----------------------------------------------------------------------------
\* Recorder.Record, under its mutex, in whatever order the goroutines run: the first
\* context inserts the document, the others replace it.
Kept(r) == ~r.err
Stored(r, p, fails) ==
  CASE fails -> [r EXCEPT !.err = TRUE]
    [] ~fails /\ p.first -> [r EXCEPT !.id = TRUE, !.inserts = @ + 1]
    [] OTHER -> r
Record(p) ==
  /\ Alive /\ p \in pend
  /\ pend' = pend \ {p}
  /\ \/ /\ ~Kept(rec[p.gen])
        /\ UNCHANGED rec
     \/ /\ Kept(rec[p.gen]) /\ ~p.first /\ ~rec[p.gen].id
        /\ rec' = [rec EXCEPT ![p.gen].panic = TRUE]
     \/ /\ Kept(rec[p.gen]) /\ (p.first \/ rec[p.gen].id)
        /\ \E fails \in BOOLEAN : rec' = [rec EXCEPT ![p.gen] = Stored(@, p, fails)]
  /\ UNCHANGED <<pubVars, pktCh, recVars>>

Next == \/ startRecord \/ Close \/ RecordStops \/ TakeEnd \/ TakePacket
        \/ \E t \in Tracks : End(t) \/ Read(t) \/ Call(t) \/ Called(t)
        \/ \E t \in Tracks : \E f \in Forwarders[t] : SatifySelect(t, f)
        \/ \E p \in pend : Record(p)

Spec == Init /\ [][Next]_vars

\* The goroutines run on.  Senders that wait for room in a channel are served in
\* the order they came, and select takes any case that stays ready.
Fairness == /\ \A t \in Tracks : SF_vars(Call(t)) /\ WF_vars(Called(t))
            /\ WF_vars(RecordStops)
            /\ WF_vars(TakeEnd \/ TakePacket)
FairSpec == Spec /\ Fairness

-----------------------------------------------------------------------------
TypeOK ==
  /\ Len(pktCh) <= ChanCap
  /\ loop \in {"off", "run", "done"} /\ (recordStart <=> loop # "off")
  /\ closedTrackNum \in 0 .. Cardinality(Tracks)
  /\ \A t \in Tracks : Free(t) => (consumers[t] = <<>> <=> reader[t] = NoReader)
  /\ gen \in Gens /\ sealed \subseteq 0 .. gen

\* The end of a track is told once and is the last of it.  A consumer gets one
\* end, although consumers take themselves off the list while it is walked, and
\* although Bind, and with it startRecord, runs whenever a track is bound: a second
\* end would be counted as the end of another track, or be a second EOF packet.  No
\* packet of the track follows it in pktCh, so WriteRtp never meets a track that
\* CloseTrack closed, an error the goroutine panics at; and the goroutine's own
\* test for the end of all tracks never holds: it ends with the publication.
EndIsLast ==
  /\ \A t \in Tracks : \A c \in Consumers(t) : eofs[t][c] <= 1
  /\ \A i, j \in DOMAIN pktCh : i < j /\ pktCh[i].end => pktCh[j].track # pktCh[i].track
  /\ \A i \in DOMAIN pktCh : pktCh[i].track \notin shut /\ ~AllClosed

\* One recording is one document: only one context of a segmenter inserts, whatever
\* the order in which the goroutines of its contexts run.
OneDocument == \A g \in Gens : rec[g].inserts <= 1

\* A closed publication ends its recording and closes the segmenter, also while
\* packets keep coming and when none comes.
RecordEnds == (pubClosed /\ recordStart) ~> (~Alive \/ (loop = "done" /\ gen \in sealed))

\* While the publication is open a reader gets through its consumers, so that a
\* recording never holds up the forwarders of the same track, also after another
\* track of the publication ended.
ReaderProgress ==
  \A t \in {u \in Tracks : Forwarders[u] # {}} :
    (reader[t].at = "calling") ~> (Free(t) \/ pubClosed \/ ~Alive)
=============================================================================
