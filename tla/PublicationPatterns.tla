------------------------ MODULE PublicationPatterns ------------------------
(***************************************************************************)
(* Publication patterns, from the constructors of the clients (pattern.ts, *)
(* pattern.py) to the server, which validates the pattern of a subscribe   *)
(* request (model/messages.go) and matches the described tracks against it *)
(* (model/pattern.go).                                                     *)
(*                                                                         *)
(* A pattern travels as a number, a list of strings and a list of          *)
(* children.  A query is what the caller of the constructors means.        *)
(***************************************************************************)
EXTENDS Integers, Sequences, SequencesExt

CONSTANTS
  Described,  \* tracks: [PubId, StreamId, GlobalId, Rid, Type, Labels]
  Queries,    \* [fun, args] or [fun, labels] or [fun, pts]
  Raw         \* patterns of clients that do not use the constructors
-----------------------------------------------------------------------------
\* The numbers of the operations, in pattern.ts, pattern.py and pattern.go.
JsOps ==
  <<"All", "Some", "None", "PublishIdIn", "StreamIdIn", "GlobalIdIn", "TrackRIdIn",
    "LabelsAllMatch", "LabelsSomeMatch", "LabelsNoneMatch",
    "LabelsAllExists", "LabelsSomeExists", "LabelsNoneExists", "TrackTypeIn">>
PyOps ==
  <<"All", "Some", "None", "PublishIdIn", "StreamIdIn", "GlobalIdIn", "TrackRIdIn",
    "LabelsAllMatch", "LabelsSomeMatch", "LabelsNoneMatch",
    "LabelsAllExists", "LabelsSomeExists", "LabelsNoneExists", "TrackTypeIn">>
GoOps ==
  <<"ALL", "SOME", "NONE", "PUBLISH_ID", "STREAM_ID", "TRACK_ID", "TRACK_RID",
    "LABEL_ALL_MATCH", "LABEL_SOME_MATCH", "LABEL_NONE_MATCH",
    "LABEL_ALL_HAS", "LABEL_SOME_HAS", "LABEL_NONE_HAS", "TRACK_TYPE">>

Code(ops, fun) == (CHOOSE i \in DOMAIN ops : ops[i] = fun) - 1
Op(p) == IF p.op + 1 \in DOMAIN GoOps THEN GoOps[p.op + 1] ELSE "UNKNOWN"

\* Mutant: only the names.
labelsToArgsNames(labels) == SetToSeq(DOMAIN labels)

\* labelsToArgs: key and value in turn.
labelsToArgs(labels) ==
  LET keys == SetToSeq(DOMAIN labels)
  IN  [i \in 1..(2 * Len(keys)) |->
         IF i % 2 = 1 THEN keys[(i + 1) \div 2] ELSE labels[keys[i \div 2]]]

\* The constructors All, Some, ..., TrackTypeIn.
RECURSIVE Build(_, _)
Build(ops, q) ==
  [op       |-> Code(ops, q.fun),
   args     |-> IF "labels" \in DOMAIN q THEN labelsToArgs(q.labels)
                ELSE IF "args" \in DOMAIN q THEN q.args ELSE <<>>,
   children |-> IF "pts" \in DOMAIN q THEN [i \in DOMAIN q.pts |-> Build(ops, q.pts[i])]
                ELSE <<>>]

\* The same constructors in the two clients.
BuildJs(q) == Build(JsOps, q)
BuildPy(q) == Build(PyOps, q)

Logical == {"ALL", "SOME", "NONE"}
LabelMatch == {"LABEL_ALL_MATCH", "LABEL_SOME_MATCH", "LABEL_NONE_MATCH"}

\* Validate
RECURSIVE Validate(_)
Validate(p) ==
  CASE Op(p) \in Logical    -> p.args = <<>> /\ \A i \in DOMAIN p.children : Validate(p.children[i])
    [] Op(p) \in LabelMatch -> p.children = <<>> /\ Len(p.args) >= 2 /\ Len(p.args) % 2 = 0
    [] Op(p) = "TRACK_TYPE" -> p.children = <<>> /\ p.args # <<>> /\ p.args[1] \in {"video", "audio"}
    [] Op(p) = "UNKNOWN"    -> FALSE
    [] OTHER                -> p.children = <<>> /\ p.args # <<>>

\* MatchLabel and HasLabel
MatchLabel(t, name, value) == name \in DOMAIN t.Labels /\ t.Labels[name] = value
HasLabel(t, name) == name \in DOMAIN t.Labels

Verdict(b) == IF b THEN "yes" ELSE "no"

\* A loop over results that returns verdict at the first that is stopAt, and after it rest.
Loop(results, stopAt, verdict, rest) ==
  LET ends == {i \in DOMAIN results : results[i] \in {stopAt, "panic"}}
  IN  IF ends = {} THEN rest
      ELSE LET i == CHOOSE j \in ends : \A k \in ends : j <= k
           IN  IF results[i] = stopAt THEN verdict ELSE "panic"

\* The pairs Args[i], Args[i+1]; a key without a value is out of range.
Pairs(args, t) ==
  [i \in 1..((Len(args) + 1) \div 2) |->
     IF 2 * i > Len(args) THEN "panic" ELSE Verdict(MatchLabel(t, args[2 * i - 1], args[2 * i]))]

\* Match: "yes", "no", or a panic.
RECURSIVE Match(_, _)
Match(p, t) ==
  LET kids  == [i \in DOMAIN p.children |-> Match(p.children[i], t)]
      has   == [i \in DOMAIN p.args |-> Verdict(HasLabel(t, p.args[i]))]
      In(v) == Verdict(\E i \in DOMAIN p.args : p.args[i] = v)
  IN  CASE Op(p) = "ALL"              -> Loop(kids, "no", "no", "yes")
        [] Op(p) = "SOME"             -> Loop(kids, "yes", "yes", "no")
        [] Op(p) = "NONE"             -> Loop(kids, "yes", "no", "yes")
        [] Op(p) = "PUBLISH_ID"       -> In(t.PubId)
        [] Op(p) = "STREAM_ID"        -> In(t.StreamId)
        [] Op(p) = "TRACK_ID"         -> In(t.GlobalId)
        [] Op(p) = "TRACK_RID"        -> In(t.Rid)
        [] Op(p) = "LABEL_ALL_MATCH"  -> Loop(Pairs(p.args, t), "no", "no", "yes")
        [] Op(p) = "LABEL_SOME_MATCH" -> Loop(Pairs(p.args, t), "yes", "yes", "no")
        [] Op(p) = "LABEL_NONE_MATCH" -> Loop(Pairs(p.args, t), "yes", "no", "yes")
        [] Op(p) = "LABEL_ALL_HAS"    -> Loop(has, "no", "no", "yes")
        [] Op(p) = "LABEL_SOME_HAS"   -> Loop(has, "yes", "yes", "no")
        [] Op(p) = "LABEL_NONE_HAS"   -> Loop(has, "yes", "no", "yes")
        [] Op(p) = "TRACK_TYPE"       -> In(t.Type)
        [] OTHER                      -> "no"
-----------------------------------------------------------------------------
\* What a request may carry: a pattern of the constructors, or another.
Sendable == {BuildJs(q) : q \in Queries} \cup {BuildPy(q) : q \in Queries} \cup Raw

\* SubscribeMessage.Validate
MessageValid(op, hasId, p) ==
  CASE op = "add"    -> ~ hasId /\ Validate(p)
    [] op = "update" -> hasId /\ Validate(p)
    [] op = "remove" -> hasId
    [] OTHER         -> FALSE

\* What a query means for a track.
RECURSIVE Means(_, _)
Means(q, t) ==
  CASE q.fun = "All"  -> \A i \in DOMAIN q.pts : Means(q.pts[i], t)
    [] q.fun = "Some" -> \E i \in DOMAIN q.pts : Means(q.pts[i], t)
    [] q.fun = "None" -> ~ \E i \in DOMAIN q.pts : Means(q.pts[i], t)
    [] q.fun = "PublishIdIn" -> t.PubId \in ToSet(q.args)
    [] q.fun = "StreamIdIn"  -> t.StreamId \in ToSet(q.args)
    [] q.fun = "GlobalIdIn"  -> t.GlobalId \in ToSet(q.args)
    [] q.fun = "TrackRIdIn"  -> t.Rid \in ToSet(q.args)
    [] q.fun = "TrackTypeIn" -> t.Type \in ToSet(q.args)
    [] q.fun = "LabelsAllMatch"  -> \A n \in DOMAIN q.labels : MatchLabel(t, n, q.labels[n])
    [] q.fun = "LabelsSomeMatch" -> \E n \in DOMAIN q.labels : MatchLabel(t, n, q.labels[n])
    [] q.fun = "LabelsNoneMatch" -> \A n \in DOMAIN q.labels : ~ MatchLabel(t, n, q.labels[n])
    [] q.fun = "LabelsAllExists"  -> ToSet(q.args) \subseteq DOMAIN t.Labels
    [] q.fun = "LabelsSomeExists" -> ToSet(q.args) \cap DOMAIN t.Labels # {}
    [] q.fun = "LabelsNoneExists" -> ToSet(q.args) \cap DOMAIN t.Labels = {}

\* Patterns that a subscription can come to hold, by an add or by an update, and
\* for which Match indexes past the arguments.
Panicking ==
  {p \in Sendable :
     /\ \E op \in {"add", "update"}, hasId \in BOOLEAN : MessageValid(op, hasId, p)
     /\ \E t \in Described : Match(p, t) = "panic"}

\* Queries for which a client's constructor makes a pattern that matches other
\* tracks than the caller means.
Misread ==
  {q \in Queries : \E t \in Described :
     {Match(BuildJs(q), t), Match(BuildPy(q), t)} # {Verdict(Means(q, t))}}
=============================================================================
