---------------------------- MODULE MCForwarding ----------------------------
EXTENDS Forwarding, PublicationPatterns

CONSTANTS s1, s2, p1, p2, v1, a1, v2, local, remote

\* p1 has a video and an audio track, p2 is a publication of another node.
MCPubOf == [t \in Tracks |-> IF t = v2 THEN p2 ELSE p1]
MCTypeOf == [t \in Tracks |-> IF t = a1 THEN "audio" ELSE "video"]
MCReaderOf == [t \in Tracks |-> IF t = v2 THEN remote ELSE local]
\* The tracks as the server describes them to Match.
Describe(t) ==
  [PubId |-> IF t = v2 THEN "b" ELSE "a", StreamId |-> "a",
   GlobalId |-> IF t = v1 THEN "a" ELSE "b", Rid |-> "a", Type |-> typeOf[t],
   Labels |-> IF t = v1 THEN [x |-> "a"] ELSE [x |-> "b"]]

\* Two subscriptions: any track, and all but those labelled x = a with audio required.
MCPatterns ==
  LET For(q, req) == [match |-> {t \in Tracks : Match(BuildJs(q), Describe(t)) = "yes"}, req |-> req]
  IN  {For([fun |-> "All", pts |-> <<>>], {}),
       For([fun |-> "LabelsNoneMatch", labels |-> [x |-> "a"]], {"audio"})}

Sym == {[s \in Subs |-> s], [s \in Subs |-> IF s = s1 THEN s2 ELSE s1]}
-----------------------------------------------------------------------------
\* The inputs of the patterns' own properties.
Two == {"a", "b"}
MCDescribed ==
  [PubId : Two, StreamId : Two, GlobalId : Two, Rid : Two, Type : {"video", "audio"},
   Labels : UNION {[names -> Two] : names \in SUBSET {"x", "y"}}]

\* A query for each constructor, with one and with two arguments.
Lists(funs, args) == {[fun |-> f, args |-> a] : f \in funs, a \in args}
Labelled == {[fun |-> f, labels |-> l] : f \in {"LabelsAllMatch", "LabelsSomeMatch", "LabelsNoneMatch"},
                                        l \in {[x |-> "a"], [x |-> "a", y |-> "b"]}}
Leaves ==
  Lists({"PublishIdIn", "StreamIdIn", "GlobalIdIn", "TrackRIdIn"}, {<<"a">>, <<"a", "b">>})
    \cup Lists({"LabelsAllExists", "LabelsSomeExists", "LabelsNoneExists"}, {<<"x">>, <<"x", "y">>})
    \cup Lists({"TrackTypeIn"}, {<<"video">>, <<"audio", "video">>})
    \cup Labelled

\* Nested ones, of no, one or two of a few leaves, and one level more.
Some4 == {[fun |-> "PublishIdIn", args |-> <<"a">>], [fun |-> "TrackTypeIn", args |-> <<"video">>],
          [fun |-> "LabelsNoneMatch", labels |-> [x |-> "a"]],
          [fun |-> "LabelsSomeExists", args |-> <<"y">>]}
Nest(qs) == {[fun |-> f, pts |-> ps] : f \in {"All", "Some", "None"},
                                      ps \in {<<>>} \cup {<<q>> : q \in qs} \cup (qs \X qs)}
Deep == {[fun |-> f, pts |-> <<q, p>>] : f \in {"All", "Some", "None"}, q \in Nest({}) \cup
           {[fun |-> g, pts |-> <<l>>] : g \in {"All", "None"}, l \in Some4}, p \in Some4}
MCQueries == Leaves \cup Nest(Some4) \cup Deep

Pattern(n, a, c) == [op |-> n, args |-> a, children |-> c]
Odd == {Pattern(n, <<"x", "a", "y">>, <<>>) : n \in 7..9}
MCRaw ==
  Odd \cup {Pattern(n, <<"x">>, <<>>) : n \in 0..14} \cup {Pattern(n, <<>>, <<>>) : n \in 3..14}
    \cup {Pattern(n, <<>>, <<p>>) : n \in 0..14, p \in Odd}

(***************************************************************************)
(* An open subscription takes its tracks with Match, whatever request made *)
(* or updated its pattern: no pattern that MessageValid lets through makes *)
(* Match panic, and one made with a client's constructors matches what the *)
(* caller means: numbers, label lists and nesting survive the way from     *)
(* either client to the server.                                            *)
(***************************************************************************)
PatternsMean == \A s \in Subs \ closed : Panicking = {} /\ Misread = {}
=============================================================================
