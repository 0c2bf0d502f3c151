----------------------------- MODULE PatternMap -----------------------------
(***************************************************************************)
(* The PatternMap of signal/utils.go: the tree in which the messager of a  *)
(* node finds the callbacks of every room pattern that matches the room of *)
(* a message.  A pattern is the sequence of its dot-separated parts; "*"   *)
(* stands for one part of a room and "**" for any number of them.          *)
(*                                                                         *)
(* A tree node is the path that leads to it, so that the tree is the set   *)
(* nodes of paths, and the data of the nodes with hasData is the function  *)
(* data.  The paths of length 1 are the keys of PatternMap.inner.  The     *)
(* methods run under PatternMap.mu, each is one step.                      *)
(*                                                                         *)
(* The data is what onMessage and offMessage of signal/messager.go keep    *)
(* there: the set of the ids registered for the pattern.                   *)
(***************************************************************************)
EXTENDS Integers, Sequences, FiniteSets, SequencesExt

CONSTANTS Patterns,    \* the patterns that are used, sequences of parts
          Rooms,       \* the rooms that are looked up, sequences of names
          Funs,        \* the ids of the callbacks: those of signal contexts
          MaxPatterns  \* bound: how many patterns have data at a time

ASSUME PartsAssumption ==
  /\ \A p \in Patterns : p \in Seq(STRING) /\ p # <<>>
  /\ \A r \in Rooms : r \in Seq(STRING \ {"*", "**"}) /\ r # <<>>

VARIABLES nodes,  \* the paths of the nodes of the tree
          data,   \* the data of the nodes that have data
          raw     \* what a plain map would hold after the same calls

vars == <<nodes, data, raw>>

Paths == UNION {Prefixes(p) \ {<<>>} : p \in Patterns}

Init ==
  /\ nodes = {}
  /\ data = <<>>
  /\ raw = <<>>

-----------------------------------------------------------------------------
(* Keeping patterns.                                                       *)

Forget(f, p) == [q \in DOMAIN f \ {p} |-> f[q]]

Hold(f, p, v) == [q \in DOMAIN f \cup {p} |-> IF q = p THEN v ELSE f[q]]

\* Mutant: IsEmpty does not look at the children.
IsEmptyIgnoringChildren(q, p, N, D) == q \notin DOMAIN D

\* A node that has neither data nor children, once the empty nodes of the
\* path p below it are gone, in the tree with nodes N and data D.
IsEmpty(q, p, N, D) ==
  \A n \in N : IsPrefix(q, n) => IsPrefix(n, p) /\ n \notin DOMAIN D

\* The nodes below the first level that removePatternData finds empty when it
\* returns along the path p.  Those of the first level stay.
Emptied(p, N, D) ==
  {q \in N : IsPrefix(q, p) /\ Len(q) > 1 /\ IsEmpty(q, p, N, D)}

\* UpdatePatternData when its mapper asks for removal.  The nodes on the way to
\* the pattern are made before the mapper is called.
removePatternData(p) ==
  LET N == nodes \cup (Prefixes(p) \ {<<>>, p})
      D == Forget(data, p)
      gone == Emptied(p, N, D)
      below == {n \in N : \E q \in gone : IsPrefix(q, n)}
  IN /\ nodes' = N \ below
     /\ data' = [n \in DOMAIN D \ below |-> D[n]]

\* UpdatePatternData when its mapper returns new data.
Put(p, v) ==
  /\ nodes' = nodes \cup (Prefixes(p) \ {<<>>})
  /\ data' = Hold(data, p, v)

\* What UpdatePatternData hands to its mapper as old.
Old(p) == IF p \in DOMAIN data THEN data[p] ELSE {}

OnMessage(f, p) ==
  /\ p \in DOMAIN data \/ Cardinality(DOMAIN data) < MaxPatterns
  /\ Put(p, Old(p) \cup {f})
  /\ raw' = Hold(raw, p, (IF p \in DOMAIN raw THEN raw[p] ELSE {}) \cup {f})

\* The entry of a pattern whose last callback goes away stays, with no
\* callback; only a pattern that was never registered is removed.
OffMessage(f, p) ==
  IF p \in DOMAIN data
  THEN /\ Put(p, Old(p) \ {f})
       /\ raw' = Hold(raw, p, raw[p] \ {f})
  ELSE /\ removePatternData(p)
       /\ UNCHANGED raw

\* A mapper that removes a pattern with data, as the map's own tests do.
RemovePattern(p) ==
  /\ p \in DOMAIN data
  /\ removePatternData(p)
  /\ raw' = Forget(raw, p)

Next ==
  \E p \in Patterns :
     \/ RemovePattern(p)
     \/ \E f \in Funs : OnMessage(f, p) \/ OffMessage(f, p)

Spec == Init /\ [][Next]_vars

-----------------------------------------------------------------------------
(* Finding the patterns of a room.  Collect may return an entry more than  *)
(* once; consumeMessage keys what it finds by id, so a set is enough.      *)

Own(n) == {n} \cap DOMAIN data

\* The entries that are reached from n through "**" alone.
RECURSIVE Stars(_)
Stars(n) ==
  LET c == Append(n, "**")
  IN IF c \in nodes THEN Own(c) \cup Stars(c) ELSE {}

RECURSIVE collect(_, _, _)

Into(n, key, mList, doubleStar) ==
  IF Append(n, key) \in nodes
  THEN collect(Append(n, key), mList, doubleStar)
  ELSE {}

\* Mutant: "**" does not skip parts of the room.
collectNoSkip(n, mList, doubleStar) ==
  IF mList = <<>>
  THEN Own(n) \cup Stars(n)
  ELSE UNION {IF doubleStar THEN Own(n) ELSE {},
              Into(n, "**", mList, TRUE),
              Into(n, "*", Tail(mList), FALSE),
              Into(n, Head(mList), Tail(mList), FALSE)}

collect(n, mList, doubleStar) ==
  IF mList = <<>>
  THEN Own(n) \cup Stars(n)
  ELSE UNION {IF doubleStar THEN Own(n) ELSE {},
              Into(n, "**", mList, TRUE),
              Into(n, "*", Tail(mList), FALSE),
              Into(n, Head(mList), Tail(mList), FALSE),
              IF doubleStar
              THEN UNION {collect(n, SubSeq(mList, i + 1, Len(mList)), FALSE) :
                            i \in 1 .. Len(mList) - 1}
              ELSE {}}

Collect(room) == collect(<<>>, room, FALSE)

-----------------------------------------------------------------------------
(* Matching one pattern with one room.                                     *)

AllStars(p) == \A i \in DOMAIN p : p[i] = "**"

RECURSIVE matchRoom(_, _)

\* The loop of matchRoom.  After a run of "**" it tries every suffix of the
\* room that has a part; elsewhere it takes one part of each.
matchRoom(p, r) ==
  IF Head(p) = "**"
  THEN \/ AllStars(p)
       \/ LET q == SubSeq(p, 1 + CHOOSE i \in 1 .. Len(p) - 1 :
                               AllStars(SubSeq(p, 1, i)) /\ p[i + 1] # "**", Len(p))
          IN \E j \in 1 .. Len(r) : matchRoom(q, SubSeq(r, j, Len(r)))
  ELSE /\ Head(p) \in {"*", Head(r)}
       /\ IF Len(p) = 1 \/ Len(r) = 1
          THEN IF Len(p) = 1 THEN Len(r) = 1 ELSE AllStars(Tail(p))
          ELSE matchRoom(Tail(p), Tail(r))

MatchRoom(p, r) == p = r \/ p = <<"**">> \/ matchRoom(p, r)

-----------------------------------------------------------------------------
(* Properties.                                                             *)

\* The tree is a tree: the parent of a node is a node, and data is at nodes.
TypeOK ==
  /\ nodes \subseteq Paths
  /\ \A n \in nodes : Len(n) > 1 => Front(n) \in nodes
  /\ DOMAIN data \subseteq nodes
  /\ DOMAIN raw \subseteq Patterns
  /\ \A p \in DOMAIN data : data[p] \subseteq Funs
  /\ \A p \in DOMAIN raw : raw[p] \subseteq Funs

\* Adding, changing and removing patterns in any order leaves in the tree
\* exactly what a map from patterns to data would hold: cleaning up the path of
\* a removed pattern takes no other pattern with it (the assertion after every
\* call in signal/utils_test.go).
RawDataExact == data = raw

\* The meaning of patterns: the room can be cut into one piece for each part
\* of the pattern, of any length for "**", of one name for the others, which
\* is the part itself unless that is "*".
Glob(p, r) ==
  \E cut \in [0 .. Len(p) -> 0 .. Len(r)] :
     /\ cut[0] = 0
     /\ cut[Len(p)] = Len(r)
     /\ \A i \in 1 .. Len(p) :
          IF p[i] = "**" THEN cut[i] >= cut[i - 1]
          ELSE /\ cut[i] = cut[i - 1] + 1
               /\ p[i] \in {"*", r[cut[i]]}

GlobTable == [p \in Patterns |-> {r \in Rooms : Glob(p, r)}]

\* For every room the tree finds exactly the patterns that MatchRoom accepts
\* one by one (checkMatchPatternMap in signal/utils_test.go), and these are the
\* ones that mean the room: a context hears of the rooms its patterns match and
\* of no other, and hasRoomRight, which asks MatchRoom, agrees.
CollectMatches ==
  \A r \in Rooms :
    LET meant == {p \in DOMAIN data : r \in GlobTable[p]}
    IN  Collect(r) = meant /\ {p \in DOMAIN data : MatchRoom(p, r)} = meant
=============================================================================
