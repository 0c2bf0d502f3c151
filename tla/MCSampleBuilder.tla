--------------------------- MODULE MCSampleBuilder ---------------------------
EXTENDS SampleBuilder

P(t, h, e) == [ts |-> t, head |-> h, tail |-> e, bad |-> FALSE]

\* Video frames of one, two and three packets: only the first packet of a
\* frame is a partition head, only the last one carries the marker, which
\* the first frame lacks.  The packet in the middle of the large frame cannot
\* be decoded, the last frame has two partition heads.
Frames ==
  <<P(0, TRUE, FALSE), P(0, FALSE, FALSE), P(1, TRUE, TRUE),
    P(2, TRUE, FALSE), [P(2, FALSE, FALSE) EXCEPT !.bad = TRUE], P(2, FALSE, TRUE),
    P(3, TRUE, FALSE), P(3, TRUE, TRUE)>>
=============================================================================
