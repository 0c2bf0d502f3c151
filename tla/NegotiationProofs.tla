-------------------------- MODULE NegotiationProofs --------------------------
(***************************************************************************)
(* The negotiation: the safety properties of Negotiation, proved for any   *)
(* publish and subscribe tasks and any numbers of accepted tracks and      *)
(* candidates.                                                             *)
(*                                                                         *)
(* The ids of the client's offers are odd, those of the server's are even, *)
(* so that nobody takes an offer for the answer to its own.  That an       *)
(* answer meets the offer it answers is a matter of the server's ids: each *)
(* id goes to the client and back once, in one of six places, and while it *)
(* is on its way, offered and not overtaken by a later id, its offer is    *)
(* the pending one.                                                        *)
(***************************************************************************)
EXTENDS Negotiation, SequenceTheorems, TLAPS

\* r is s with x in the place i.
Puts(r, s, i, x) == r = [s EXCEPT ![i] = x]

\* g tells where the elements of r are in s.
Part(r, s, g) ==
  /\ g \in [1 .. Len(r) -> 1 .. Len(s)]
  /\ \A i \in 1 .. Len(r) : r[i] = s[g[i]]
  /\ \A i, j \in 1 .. Len(r) : g[i] = g[j] => i = j

In(x, s) == \E i \in 1 .. Len(s) : s[i] = x

\* The keys of the elements of s that f knows, and that no two have the same.
Has(f, x) == x \in DOMAIN f
Key(f, x) == f[x]
Keys(s, f) == {Key(f, s[i]) : i \in {k \in 1 .. Len(s) : Has(f, s[k])}}
Keyed(s, f) ==
  \A i, j \in 1 .. Len(s) : Has(f, s[i]) /\ Has(f, s[j]) /\ Key(f, s[i]) = Key(f, s[j]) => i = j

\* nextSdpMsgId: the client starts from 1, the server from 0.
Evens == {k \in Nat : k % 2 = 0}
Odds == {k \in Nat : k % 2 = 1}

Requests == [t : {"request"}, op : {"add", "remove"}, of : Tasks]
ClientOffers == [t : {"sdp"}, type : {"offer"}, id : Odds, tracks : SUBSET Pubs]
ClientAnswers == [t : {"sdp"}, type : {"answer"}, id : Evens, tracks : SUBSET Pubs]
ServerFrames == Requests \union ClientOffers \union ClientAnswers \union {Candidate}

Replies == [t : {"reply"}, of : Tasks]
Subscribeds == [t : {"subscribed"}, of : Subs, id : Evens]
ServerOffers == [t : {"sdp"}, type : {"offer"}, id : Evens, tracks : {{}}]
ServerAnswers == [t : {"sdp"}, type : {"answer"}, id : Odds, tracks : {{}}]
Publisheds == [t : {"published"}, of : Pubs]
ClientFrames == Replies \union Subscribeds \union ServerOffers \union ServerAnswers
                \union Publisheds \union {Candidate}

OfferHandlers == [m : ClientOffers, at : {"try", "remote", "cands", "answer", "send"}]
AnswerHandlers == [m : ClientAnswers, at : {"try", "remote", "cands"}]
Handlers == OfferHandlers \union AnswerHandlers
Negs == [of : Subs, id : Evens, at : {"tell", "told", "lock", "create", "send"}]

Clients == [todo : SUBSET Tasks, task : Tasks \union {None},
            at : {"idle", "ack", "offer", "answer", "cands", "published",
                  "subscribed", "setup", "reply", "clean"},
            sdpId : Odds, await : Nat, done : SUBSET Tasks]
ClientPeers == [sig : Sigs, remote : BOOLEAN, local : BOOLEAN, senders : SUBSET Pubs,
                pending : Nat, added : Nat, found : Nat]
Buffers == [sdpOn : BOOLEAN, sdp : Seq(ServerOffers \union ServerAnswers),
            sub : Seq(Subscribeds), published : BOOLEAN]
ServerPeers == [sig : Sigs, remote : BOOLEAN, local : BOOLEAN, tracks : SUBSET Pubs,
                pending : Nat, added : Nat, found : Nat, checked : BOOLEAN,
                neg_mux : BOOLEAN, sdpMsgId : Evens]
Histories == [accepts : [Subs -> Nat], registered : SUBSET Pubs, arrived : SUBSET Pubs,
              givenUp : SUBSET Tasks, mispaired : BOOLEAN, overtaken : BOOLEAN,
              crashed : BOOLEAN]

\* The state has its type, which gives every frame the parity of its id; the step the
\* client is at tells the kind of its task and of the id it waits for.
StateInv ==
  /\ client \in Clients /\ cpeer \in ClientPeers /\ bufs \in Buffers
  /\ toServer \in Seq(ServerFrames) /\ toClient \in Seq(ClientFrames)
  /\ reqs \subseteq Requests /\ handlers \in Seq(Handlers) /\ negs \subseteq Negs
  /\ callbacks \in [try : Nat, unlock : Nat]
  /\ speer \in ServerPeers /\ hist \in Histories
  /\ pubs \subseteq Pubs /\ subs \subseteq Subs
  /\ client.at \in {"offer", "answer", "published"} => client.task \in Pubs
  /\ client.at \in {"subscribed", "setup", "reply", "clean"} => client.task \in Subs
  /\ client.at \in {"ack", "cands"} => client.task \in Tasks
  /\ client.at = "answer" => /\ client.await \in Odds
                             /\ cpeer.sig = [st |-> "local", id |-> client.await]
  /\ client.at \in {"setup", "cands", "reply"} /\ client.task \in Subs => client.await \in Evens

\* While nothing was overtaken, there is at most one callback for the stable state,
\* and neg_mux is taken when it is about to unlock.
UnlockInv ==
  /\ ~hist.overtaken =>
       /\ callbacks.try + callbacks.unlock <= 1
       /\ callbacks.unlock > 0 => speer.neg_mux
  /\ UnlockSafe

\* Every description that the client has sent carries tracks of registered
\* publications, or of tasks it gave up; a sender is added before, but then the
\* task waits for the reply.
Backed == hist.registered \union hist.givenUp
RegisterInv ==
  /\ \A m \in ClientOffers \union ClientAnswers : In(m, toServer) => m.tracks \subseteq Backed
  /\ \A h \in Handlers : In(h, handlers) => h.m.tracks \subseteq Backed
  /\ speer.tracks \subseteq Backed
  /\ \A p \in cpeer.senders \ Backed : client.task = p /\ client.at = "ack"
  /\ \A m \in Replies : In(m, toClient) /\ m.of \in Pubs => m.of \in hist.registered
  /\ hist.arrived \subseteq Backed

\* The handler that is to answer an offer is alone, and finds that offer set.
Answering == [h \in {x \in OfferHandlers : x.at \in {"cands", "answer"}} |-> h.m.id]
AnswerInv ==
  /\ Keyed(handlers, Answering)
  /\ \A y \in Keys(handlers, Answering) : speer.sig = [st |-> "remote", id |-> y]

\* The six places of an id of the server: the goroutine that is to tell it, the
\* "subscribed" message on its way and in the client's iterator, the client's task,
\* the answer on its way and in its handler.
SubscribedId == [m \in Subscribeds |-> m.id]
AnswerId == [m \in ClientAnswers |-> m.id]
PendingId == [h \in {x \in AnswerHandlers : x.at \in {"try", "remote"}} |-> h.m.id]
OfferId == [m \in ServerOffers |-> m.id]

Telling == {n.id : n \in {x \in negs : x.at = "tell"}}
Awaiting == {y \in {client.await} : client.at \in {"setup", "cands", "reply"} /\ client.task \in Subs}
Taken == {y \in {client.await} : client.at \in {"cands", "reply"} /\ client.task \in Subs}
Places == <<Telling, Keys(toClient, SubscribedId), Keys(bufs.sub, SubscribedId),
            Awaiting, Keys(toServer, AnswerId), Keys(handlers, PendingId)>>

\* The ids of the server that have been offered.
Sending == {n.id : n \in {x \in negs : x.at = "send"}}
Offered == Sending \union Keys(toClient, OfferId) \union Keys(bufs.sdp, OfferId)
           \union Taken \union Keys(toServer, AnswerId) \union Keys(handlers, PendingId)

Apart(P) == \A k, l \in 1 .. 6 : k # l => P[k] \intersect P[l] = {}

\* No two elements of a queue, and no two goroutines, have the same id of the server.
OnceInv ==
  /\ Keyed(toClient, SubscribedId) /\ Keyed(bufs.sub, SubscribedId)
  /\ Keyed(toServer, AnswerId) /\ Keyed(handlers, PendingId)
  /\ \A n, o \in negs : n.id = o.id => n = o

\* An id is in one place, once, and is not above the last that was drawn.
IdInv ==
  /\ OnceInv
  /\ \A n \in negs : n.id \in 0 .. speer.sdpMsgId
  /\ Apart(Places)
  /\ \A k \in 1 .. 6 : \A y \in Places[k] : y \in 0 .. speer.sdpMsgId
  /\ \A y \in Offered : y \in 0 .. speer.sdpMsgId

\* The last id that was drawn, while it is under way and offered, is that of the
\* server's pending offer.
PairInv ==
  /\ \A k \in 1 .. 6 : \A y \in Places[k] \intersect Offered :
       y = speer.sdpMsgId => speer.sig = [st |-> "local", id |-> y]
  /\ Paired

Inv == StateInv /\ NoneStranded /\ UnlockInv /\ RegisterInv /\ AnswerInv /\ IdInv /\ PairInv
-----------------------------------------------------------------------------
\* An element is taken out of a sequence by its place.
LEMMA RemovedAt ==
  ASSUME NEW S, NEW s \in Seq(S), NEW i \in 1 .. Len(s)
  PROVE  /\ RemoveAt(s, i) \in Seq(S) /\ Len(RemoveAt(s, i)) = Len(s) - 1
         /\ \A j \in 1 .. Len(s) - 1 : RemoveAt(s, i)[j] = IF j < i THEN s[j] ELSE s[j + 1]
<1> DEFINE a == SubSeq(s, 1, i - 1)
           b == SubSeq(s, i + 1, Len(s))
<1>1. /\ a \in Seq(S) /\ Len(a) = i - 1
      /\ \A j \in 1 .. i - 1 : a[j] = s[j]
  OBVIOUS
<1>2. /\ b \in Seq(S) /\ Len(b) = Len(s) - i
      /\ \A j \in 1 .. Len(s) - i : b[j] = s[i + j]
  OBVIOUS
<1> HIDE DEF a, b
<1>3. /\ a \o b \in Seq(S) /\ Len(a \o b) = Len(s) - 1
      /\ \A j \in 1 .. Len(s) - 1 : (a \o b)[j] = IF j <= i - 1 THEN a[j] ELSE b[j - (i - 1)]
  <2>1. /\ a \o b \in Seq(S) /\ Len(a \o b) = Len(a) + Len(b)
        /\ \A j \in 1 .. Len(a) + Len(b) : (a \o b)[j] = IF j <= Len(a) THEN a[j] ELSE b[j - Len(a)]
    BY <1>1, <1>2, ConcatProperties, Zenon
  <2>2. Len(a) = i - 1 /\ Len(a) + Len(b) = Len(s) - 1
    BY <1>1, <1>2
  <2> QED BY <2>1, <2>2, Zenon
<1>4. \A j \in 1 .. Len(s) - 1 : (a \o b)[j] = IF j < i THEN s[j] ELSE s[j + 1]
  <2> SUFFICES ASSUME NEW j \in 1 .. Len(s) - 1
               PROVE  (a \o b)[j] = IF j < i THEN s[j] ELSE s[j + 1]
    BY Zenon
  <2>1. CASE j < i
    BY <1>1, <1>3, <2>1
  <2>2. CASE ~(j < i)
    <3>1. j - (i - 1) \in 1 .. Len(s) - i /\ i + (j - (i - 1)) = j + 1
      BY <2>2
    <3> QED BY <1>2, <1>3, <2>2, <3>1
  <2> QED BY <2>1, <2>2, Zenon
<1> QED BY <1>3, <1>4, Zenon DEF RemoveAt, a, b

\* A frame is put at the end of a queue.
LEMMA Appended ==
  ASSUME NEW S, NEW s \in Seq(S), NEW x \in S
  PROVE  /\ Append(s, x) \in Seq(S)
         /\ \A y : In(y, Append(s, x)) <=> In(y, s) \/ y = x
         /\ \A f : Keys(Append(s, x), f) = IF Has(f, x) THEN Keys(s, f) \union {Key(f, x)} ELSE Keys(s, f)
         /\ \A f : Keyed(s, f) /\ (Has(f, x) => Key(f, x) \notin Keys(s, f)) => Keyed(Append(s, x), f)
<1>1. PICK r : r = Append(s, x)
  BY Zenon
<1>2. /\ r \in Seq(S) /\ Len(r) = Len(s) + 1 /\ Len(s) \in Nat
      /\ r[Len(s) + 1] = x
      /\ \A i \in 1 .. Len(s) : r[i] = s[i]
  BY <1>1
<1>3. \A i : i \in 1 .. Len(r) <=> i \in 1 .. Len(s) \/ i = Len(s) + 1
  BY <1>2
<1>4. \A y : In(y, r) <=> In(y, s) \/ y = x
  BY <1>2, <1>3, Zenon DEF In
<1>5. ASSUME NEW f PROVE Keys(r, f) = IF Has(f, x) THEN Keys(s, f) \union {Key(f, x)} ELSE Keys(s, f)
  BY <1>2, <1>3, Zenon DEF Keys
<1>6. ASSUME NEW f, Keyed(s, f), Has(f, x) => Key(f, x) \notin Keys(s, f) PROVE Keyed(r, f)
  <2> SUFFICES ASSUME NEW i \in 1 .. Len(r), NEW j \in 1 .. Len(r),
                      Has(f, r[i]), Has(f, r[j]), Key(f, r[i]) = Key(f, r[j])
               PROVE  i = j
    BY Zenon DEF Keyed
  <2>1. ASSUME NEW k \in 1 .. Len(s), Has(f, s[k]), Has(f, x) PROVE Key(f, s[k]) # Key(f, x)
    BY <1>6, <2>1, Zenon DEF Keys
  <2>2. CASE i \in 1 .. Len(s) /\ j \in 1 .. Len(s)
    BY <1>2, <1>6, <2>2, Zenon DEF Keyed
  <2> QED BY <1>2, <1>3, <2>1, <2>2, Zenon
<1> QED BY <1>1, <1>2, <1>4, <1>5, <1>6, Zenon

\* A part of a queue: each of its elements is one of the queue, in another place.
LEMMA Parted ==
  ASSUME NEW S, NEW s \in Seq(S), NEW r \in Seq(S), NEW g, Part(r, s, g)
  PROVE  /\ \A y : In(y, r) => In(y, s)
         /\ \A f : Keys(r, f) \subseteq Keys(s, f)
         /\ \A f : Keyed(s, f) => Keyed(r, f)
         /\ \A f : \A k \in 1 .. Len(s) :
              Keyed(s, f) /\ Has(f, s[k]) /\ (\A i \in 1 .. Len(r) : g[i] # k)
                => Key(f, s[k]) \notin Keys(r, f)
<1>1. /\ \A i \in 1 .. Len(r) : g[i] \in 1 .. Len(s) /\ r[i] = s[g[i]]
      /\ \A i, j \in 1 .. Len(r) : g[i] = g[j] => i = j
  BY Zenon DEF Part
<1>2. \A y : In(y, r) => In(y, s)
  BY <1>1, Zenon DEF In
<1>3. ASSUME NEW f PROVE Keys(r, f) \subseteq Keys(s, f)
  BY <1>1 DEF Keys
<1>4. ASSUME NEW f, Keyed(s, f) PROVE Keyed(r, f)
  <2> SUFFICES ASSUME NEW i \in 1 .. Len(r), NEW j \in 1 .. Len(r),
                      Has(f, r[i]), Has(f, r[j]), Key(f, r[i]) = Key(f, r[j])
               PROVE  i = j
    BY Zenon DEF Keyed
  <2>1. g[i] \in 1 .. Len(s) /\ g[j] \in 1 .. Len(s) /\ r[i] = s[g[i]] /\ r[j] = s[g[j]]
    BY <1>1, Zenon
  <2>2. g[i] = g[j]
    BY <1>4, <2>1, Zenon DEF Keyed
  <2> QED BY <1>1, <2>2, Zenon
<1>5. ASSUME NEW f, NEW k \in 1 .. Len(s), Keyed(s, f), Has(f, s[k]),
             \A i \in 1 .. Len(r) : g[i] # k
      PROVE  Key(f, s[k]) \notin Keys(r, f)
  BY <1>1, <1>5 DEF Keyed, Keys
<1> QED BY <1>2, <1>3, <1>4, <1>5, Zenon

\* The first frame of a queue is taken.
LEMMA Tailed ==
  ASSUME NEW S, NEW s \in Seq(S), s # <<>>
  PROVE  /\ Head(s) \in S /\ Tail(s) \in Seq(S) /\ In(Head(s), s)
         /\ \A y : In(y, Tail(s)) => In(y, s)
         /\ \A f : Keys(Tail(s), f) \subseteq Keys(s, f)
         /\ \A f : Keyed(s, f) => Keyed(Tail(s), f)
         /\ \A f : Has(f, Head(s)) => Key(f, Head(s)) \in Keys(s, f)
         /\ \A f : Keyed(s, f) /\ Has(f, Head(s)) => Key(f, Head(s)) \notin Keys(Tail(s), f)
<1>1. Len(s) \in Nat \ {0}
  BY EmptySeq, Zenon
<1>2. PICK r : r = Tail(s)
  BY Zenon
<1>3. /\ r \in Seq(S) /\ Len(r) = Len(s) - 1 /\ Head(s) = s[1] /\ 1 \in 1 .. Len(s)
      /\ \A i \in 1 .. Len(r) : r[i] = s[i + 1]
  BY <1>1, <1>2
<1>4. PICK g : g = [i \in 1 .. Len(r) |-> i + 1]
  BY Zenon
<1>5. /\ g \in [1 .. Len(r) -> 1 .. Len(s)]
      /\ \A i \in 1 .. Len(r) : r[i] = s[g[i]]
      /\ \A i, j \in 1 .. Len(r) : g[i] = g[j] => i = j
      /\ \A i \in 1 .. Len(r) : g[i] # 1
  BY <1>1, <1>3, <1>4
<1>6. /\ \A y : In(y, r) => In(y, s)
      /\ \A f : Keys(r, f) \subseteq Keys(s, f)
      /\ \A f : Keyed(s, f) => Keyed(r, f)
      /\ \A f : \A k \in 1 .. Len(s) :
           Keyed(s, f) /\ Has(f, s[k]) /\ (\A i \in 1 .. Len(r) : g[i] # k)
             => Key(f, s[k]) \notin Keys(r, f)
  <2>1. Part(r, s, g)
    BY <1>5, Zenon DEF Part
  <2> QED BY <1>3, <2>1, Parted
<1>7. Head(s) \in S /\ In(Head(s), s)
  BY <1>3 DEF In
<1>8. \A f : Has(f, Head(s)) => Key(f, Head(s)) \in Keys(s, f)
  BY <1>3, Zenon DEF Keys
<1>9. \A f : Keyed(s, f) /\ Has(f, Head(s)) => Key(f, Head(s)) \notin Keys(r, f)
  BY <1>3, <1>5, <1>6, Zenon
<1> QED BY <1>2, <1>3, <1>6, <1>7, <1>8, <1>9, Zenon

\* A goroutine of the sdp handler ends.
LEMMA Dropped ==
  ASSUME NEW S, NEW s \in Seq(S), NEW i \in 1 .. Len(s)
  PROVE  /\ RemoveAt(s, i) \in Seq(S)
         /\ \A y : In(y, RemoveAt(s, i)) => In(y, s)
         /\ \A y : In(y, s) /\ y # s[i] => In(y, RemoveAt(s, i))
         /\ \A f : Keys(RemoveAt(s, i), f) \subseteq Keys(s, f)
         /\ \A f : Keyed(s, f) => Keyed(RemoveAt(s, i), f)
<1>1. PICK r : r = RemoveAt(s, i)
  BY Zenon
<1>2. /\ r \in Seq(S) /\ Len(r) = Len(s) - 1 /\ Len(s) \in Nat \ {0}
      /\ \A j \in 1 .. Len(s) - 1 : r[j] = IF j < i THEN s[j] ELSE s[j + 1]
  BY <1>1, RemovedAt
<1>3. PICK g : g = [j \in 1 .. Len(r) |-> IF j < i THEN j ELSE j + 1]
  BY Zenon
<1>4. /\ g \in [1 .. Len(r) -> 1 .. Len(s)]
      /\ \A j \in 1 .. Len(r) : r[j] = s[g[j]]
      /\ \A j, k \in 1 .. Len(r) : g[j] = g[k] => j = k
  BY <1>2, <1>3
<1>5. /\ \A y : In(y, r) => In(y, s)
      /\ \A f : Keys(r, f) \subseteq Keys(s, f)
      /\ \A f : Keyed(s, f) => Keyed(r, f)
  <2>1. Part(r, s, g)
    BY <1>4, Zenon DEF Part
  <2> QED BY <1>2, <2>1, Parted, Zenon
<1>6. ASSUME NEW y, In(y, s), y # s[i] PROVE In(y, r)
  <2>1. PICK k \in 1 .. Len(s) : s[k] = y
    BY <1>6, Zenon DEF In
  <2>2. CASE k < i
    BY <1>2, <2>1, <2>2 DEF In
  <2>3. CASE k > i
    <3>1. k - 1 \in 1 .. Len(r) /\ ~(k - 1 < i) /\ (k - 1) + 1 = k
      BY <1>2, <2>3
    <3> QED BY <1>2, <2>1, <3>1, Zenon DEF In
  <2> QED BY <1>6, <2>1, <2>2, <2>3
<1> QED BY <1>1, <1>2, <1>5, <1>6, Zenon

\* A goroutine of the sdp handler goes on.
LEMMA Replaced ==
  ASSUME NEW S, NEW s \in Seq(S), NEW i \in 1 .. Len(s), NEW x \in S,
         NEW r, Puts(r, s, i, x)
  PROVE  /\ r \in Seq(S) /\ In(x, r)
         /\ \A y : In(y, r) => In(y, s) \/ y = x
         /\ \A y : In(y, s) /\ y # s[i] => In(y, r)
<1>1. /\ r \in Seq(S) /\ Len(r) = Len(s) /\ r[i] = x
      /\ \A k \in 1 .. Len(s) : k # i => r[k] = s[k]
  BY DEF Puts
<1>2. In(x, r) /\ (\A y : In(y, r) => In(y, s) \/ y = x) /\ (\A y : In(y, s) /\ y # s[i] => In(y, r))
  BY <1>1, Zenon DEF In
<1> QED BY <1>1, <1>2, Zenon

\* ... with another key than before, or without one.
LEMMA Rekeyed ==
  ASSUME NEW S, NEW s \in Seq(S), NEW i \in 1 .. Len(s), NEW x \in S,
         NEW r, Puts(r, s, i, x), NEW f
  PROVE  /\ ~Has(f, x) => Keys(r, f) \subseteq Keys(s, f)
         /\ ~Has(f, x) /\ Keyed(s, f) => Keyed(r, f)
         /\ ~Has(f, x) /\ Keyed(s, f) /\ Has(f, s[i]) => Key(f, s[i]) \notin Keys(r, f)
         /\ Has(f, x) /\ Has(f, s[i]) /\ Key(f, x) = Key(f, s[i]) => Keys(r, f) \subseteq Keys(s, f)
         /\ Has(f, x) /\ Has(f, s[i]) /\ Key(f, x) = Key(f, s[i]) /\ Keyed(s, f) => Keyed(r, f)
         /\ Has(f, x) /\ Keys(s, f) = {} => Keys(r, f) = {Key(f, x)} /\ Keyed(r, f)
<1>2. /\ r \in Seq(S) /\ Len(r) = Len(s) /\ r[i] = x
      /\ \A k \in 1 .. Len(s) : k # i => r[k] = s[k]
  BY DEF Puts
<1>4. ASSUME ~Has(f, x)
      PROVE  /\ Keys(r, f) \subseteq Keys(s, f)
             /\ Keyed(s, f) => Keyed(r, f)
             /\ Keyed(s, f) /\ Has(f, s[i]) => Key(f, s[i]) \notin Keys(r, f)
  <2>1. \A k \in 1 .. Len(r) : Has(f, r[k]) => k # i /\ k \in 1 .. Len(s) /\ r[k] = s[k]
    BY <1>2, <1>4, Zenon
  <2>2. Keys(r, f) \subseteq Keys(s, f)
    BY <2>1, Zenon DEF Keys
  <2>3. Keyed(s, f) => Keyed(r, f)
    BY <2>1, Zenon DEF Keyed
  <2>4. Keyed(s, f) /\ Has(f, s[i]) => Key(f, s[i]) \notin Keys(r, f)
    BY <2>1, Zenon DEF Keyed, Keys
  <2> QED BY <2>2, <2>3, <2>4, Zenon
<1>5. ASSUME Has(f, x), Has(f, s[i]), Key(f, x) = Key(f, s[i])
      PROVE  Keys(r, f) \subseteq Keys(s, f) /\ (Keyed(s, f) => Keyed(r, f))
  <2>1. \A k \in 1 .. Len(r) : Has(f, r[k]) =>
           k \in 1 .. Len(s) /\ Has(f, s[k]) /\ Key(f, r[k]) = Key(f, s[k])
    BY <1>2, <1>5, Zenon
  <2>2. Keys(r, f) \subseteq Keys(s, f)
    BY <2>1, Zenon DEF Keys
  <2>3. Keyed(s, f) => Keyed(r, f)
    BY <2>1, Zenon DEF Keyed
  <2> QED BY <2>2, <2>3, Zenon
<1>6. ASSUME Has(f, x), Keys(s, f) = {} PROVE Keys(r, f) = {Key(f, x)} /\ Keyed(r, f)
  <2>1. \A k \in 1 .. Len(s) : ~Has(f, s[k])
    BY <1>6, Zenon DEF Keys
  <2>2. \A k \in 1 .. Len(r) : Has(f, r[k]) <=> k = i
    BY <1>2, <1>6, <2>1, Zenon
  <2>3. Keyed(r, f)
    BY <2>2, Zenon DEF Keyed
  <2>4. Keys(r, f) = {Key(f, x)}
    BY <1>2, <2>2, Zenon DEF Keys
  <2> QED BY <2>3, <2>4, Zenon
<1> QED BY <1>4, <1>5, <1>6, Zenon

\* Both sides draw their ids in steps of two.
LEMMA Parity ==
  /\ Evens \subseteq Nat /\ Odds \subseteq Nat /\ Evens \intersect Odds = {}
  /\ 0 \in Evens /\ 1 \in Odds
  /\ \A k \in Evens : k + 2 \in Evens
  /\ \A k \in Odds : k + 2 \in Odds
BY DEF Evens, Odds

\* A frame is known by its t.
LEMMA Kinds ==
  /\ \A m \in ClientFrames :
       /\ m.t = "reply" => m \in Replies
       /\ m.t = "subscribed" => m \in Subscribeds
       /\ m.t = "sdp" => m \in ServerOffers \union ServerAnswers
       /\ m.t = "published" => m \in Publisheds
  /\ \A m \in ServerFrames :
       /\ m.t = "request" => m \in Requests
       /\ m.t = "sdp" => m \in ClientOffers \union ClientAnswers
BY DEF ClientFrames, ServerFrames, Replies, Subscribeds, ServerOffers, ServerAnswers, Publisheds,
       Requests, ClientOffers, ClientAnswers, Candidate

\* The frames that the two sides make.
LEMMA Frames ==
  /\ Candidate \in ClientFrames /\ Candidate \in ServerFrames
  /\ \A x \in Tasks : Request("add", x) \in Requests /\ Request("remove", x) \in Requests
  /\ \A x \in Tasks : [t |-> "reply", of |-> x] \in Replies
  /\ \A x \in Pubs : [t |-> "published", of |-> x] \in Publisheds
  /\ \A x \in Subs, y \in Evens : [t |-> "subscribed", of |-> x, id |-> y] \in Subscribeds
  /\ \A y \in Odds, T \in SUBSET Pubs : Sdp("offer", y, T) \in ClientOffers
  /\ \A y \in Evens, T \in SUBSET Pubs : Sdp("answer", y, T) \in ClientAnswers
  /\ \A y \in Evens : Sdp("offer", y, {}) \in ServerOffers
  /\ \A y \in Odds : Sdp("answer", y, {}) \in ServerAnswers
  /\ Requests \subseteq ServerFrames /\ ClientOffers \subseteq ServerFrames
  /\ ClientAnswers \subseteq ServerFrames
  /\ Replies \subseteq ClientFrames /\ Subscribeds \subseteq ClientFrames
  /\ ServerOffers \subseteq ClientFrames /\ ServerAnswers \subseteq ClientFrames
  /\ Publisheds \subseteq ClientFrames
BY Zenon DEF ClientFrames, ServerFrames, Replies, Subscribeds, ServerOffers, ServerAnswers, Publisheds,
       Requests, ClientOffers, ClientAnswers, Candidate, Sdp, Request

\* The steps of the sdp handler's goroutine.
LEMMA Goes ==
  ASSUME NEW h \in Handlers
  PROVE  /\ h.m \in ClientOffers \union ClientAnswers
         /\ h.m.id \in Nat /\ h.m.tracks \subseteq Pubs
         /\ h.m.type = "offer" => h \in OfferHandlers /\ h.m \in ClientOffers
         /\ h.m.type = "answer" => h \in AnswerHandlers /\ h.m \in ClientAnswers
         /\ h.m.type \in {"offer", "answer"}
         /\ h.at \in {"answer", "send"} => h.m.type = "offer"
         /\ \A a \in {"try", "remote", "cands"} : [h EXCEPT !.at = a] \in Handlers
         /\ \A a \in {"answer", "send"} : h.m.type = "offer" => [h EXCEPT !.at = a] \in Handlers
         /\ \A a : [h EXCEPT !.at = a].m = h.m /\ [h EXCEPT !.at = a].at = a
BY Parity, Zenon DEF Handlers, OfferHandlers, AnswerHandlers, ClientOffers, ClientAnswers

\* The state is initialised.
LEMMA InitInv == Init => Inv
<1> SUFFICES ASSUME Init PROVE Inv
  BY Zenon
<1>1. StateInv
  BY Parity DEF Init, StateInv, Clients, ClientPeers, Buffers, ServerPeers, Histories, Sigs, Stable, Tasks
<1>2. \A f : Keys(<<>>, f) = {} /\ Keyed(<<>>, f)
  BY DEF Keys, Keyed
<1>3. \A x : ~In(x, <<>>)
  BY DEF In
<1>4. NoneStranded /\ UnlockInv
  BY DEF Init, NoneStranded, UnlockInv, UnlockSafe
<1>5. RegisterInv
  BY <1>3, Zenon DEF Init, RegisterInv
<1>6. AnswerInv
  BY <1>2, Zenon DEF Init, AnswerInv
<1>7. /\ Telling = {} /\ Awaiting = {} /\ Taken = {} /\ Offered = {}
      /\ Places = <<{}, {}, {}, {}, {}, {}>>
  BY <1>2, Zenon DEF Init, Telling, Awaiting, Taken, Sending, Offered, Places
<1>8. \A k \in 1 .. 6 : Places[k] = {}
  BY <1>7
<1>9. IdInv /\ PairInv
  BY <1>2, <1>7, <1>8, Zenon DEF Init, IdInv, OnceInv, PairInv, Paired, Apart
<1> QED BY <1>1, <1>4, <1>5, <1>6, <1>9, Zenon DEF Inv

\* A task of the client is over.
LEMMA Ends ==
  ASSUME client \in Clients, NEW D \in SUBSET Tasks, Over(D)
  PROVE  client' \in Clients /\ client'.at = "idle" /\ client'.await = client.await /\ bufs' \in Buffers
<1>1. <<>> \in Seq(ServerOffers \union ServerAnswers) /\ <<>> \in Seq(Subscribeds)
  OBVIOUS
<1>2. bufs' \in Buffers
  BY <1>1, Zenon DEF Over, Buffers
<1>3. client' \in Clients /\ client'.at = "idle" /\ client'.await = client.await
  BY Zenon DEF Over, Clients
<1> QED BY <1>2, <1>3, Zenon

\* Every step keeps the types, and the client's step tells what it waits for.
LEMMA StateStep == StateInv /\ [Next]_vars => StateInv'
<1> SUFFICES ASSUME StateInv, [Next]_vars PROVE StateInv'
  BY Zenon
<1> USE NegotiationAssumption DEF StateInv
<1>t. /\ Tasks = Pubs \union Subs /\ Pubs \intersect Subs = {} /\ None \notin Tasks
  BY Zenon DEF Tasks
<1>c. /\ client \in Clients /\ cpeer \in ClientPeers /\ bufs \in Buffers
      /\ speer \in ServerPeers /\ hist \in Histories
  BY Zenon
<1>1. ASSUME NEW p \in Pubs, PublishStart(p) PROVE StateInv'
  BY <1>1, <1>t, Frames, Appended, ZenonT(40) DEF PublishStart, server, Clients, ClientPeers
<1>2. ASSUME NEW s \in Subs, SubscribeStart(s) PROVE StateInv'
  BY <1>2, <1>t, Frames, Appended, Zenon DEF SubscribeStart, server, Clients, Buffers
<1>3. CASE ClientReceives
  <2>1. /\ toClient # <<>> /\ toClient' = Tail(toClient)
        /\ UNCHANGED <<toServer, reqs, handlers, callbacks, speer, pubs, subs, bound, hist>>
    BY <1>3, Zenon DEF ClientReceives
  <2>2. Head(toClient) \in ClientFrames /\ toClient' \in Seq(ClientFrames)
    BY <2>1, Tailed, Zenon
  <2>3. PICK m \in ClientFrames : m = Head(toClient)
    BY <2>2, Zenon
  <2>4. CASE m.t = "reply" /\ OnReply(m.of)
    <3>1. CASE client' = client
      BY <2>1, <2>2, <2>4, <3>1, Zenon DEF OnReply
    <3>2. CASE /\ client.task = m.of /\ client.at = "ack"
               /\ client' = [client EXCEPT !.at = IF m.of \in Pubs THEN "offer" ELSE "subscribed"]
      <4>1. client' \in Clients /\ client'.task = client.task /\ client.task \in Tasks
            /\ client'.at = IF m.of \in Pubs THEN "offer" ELSE "subscribed"
        BY <3>2, Zenon DEF Clients
      <4> QED BY <1>t, <2>1, <2>2, <2>4, <3>2, <4>1, Zenon DEF OnReply
    <3>3. CASE client' = [client EXCEPT !.task = None, !.at = "idle"]
      <4>1. client' \in Clients /\ client'.at = "idle"
        BY <3>3, Zenon DEF Clients
      <4> QED BY <2>1, <2>2, <2>4, <4>1, Zenon DEF OnReply
    <3> QED BY <2>4, <3>1, <3>2, <3>3, Zenon DEF OnReply
  <2>5. CASE m.t = "subscribed" /\ OnSubscribed(m)
    <3>1. m \in Subscribeds
      BY <2>3, <2>5, Kinds, Zenon
    <3>2. negs' \subseteq Negs
      <4>1. negs \subseteq Negs /\ \A n \in Negs : [n EXCEPT !.at = "lock"] \in Negs
        BY Zenon DEF StateInv, Negs
      <4>2. negs' = {IF n.id = m.id THEN [n EXCEPT !.at = "lock"] ELSE n : n \in negs}
        BY <2>5, Zenon DEF OnSubscribed
      <4> QED BY <4>1, <4>2, Zenon
    <3>3. bufs' \in Buffers
      BY <2>5, <3>1, Appended, Zenon DEF OnSubscribed, Buffers
    <3> QED BY <2>1, <2>2, <2>5, <3>2, <3>3, Zenon DEF OnSubscribed
  <2>6. CASE m.t = "sdp" /\ OnSdp(m)
    <3>1. m \in ServerOffers \union ServerAnswers
      BY <2>3, <2>6, Kinds, Zenon
    <3>2. bufs' \in Buffers
      BY <2>6, <3>1, Appended, Zenon DEF OnSdp, Buffers
    <3> QED BY <2>1, <2>2, <2>6, <3>2, Zenon DEF OnSdp
  <2>7. CASE m.t = "published" /\ OnPublished(m.of)
    BY <2>1, <2>2, <2>7, Zenon DEF OnPublished, Buffers
  <2>8. CASE m.t = "candidate" /\ OnCandidate
    <3>1. cpeer' \in ClientPeers /\ cpeer'.sig = cpeer.sig
      <4>1. cpeer.added + 1 \in Nat /\ cpeer.pending + 1 \in Nat
        BY DEF ClientPeers
      <4> QED BY <2>8, <4>1, Zenon DEF OnCandidate, ClientPeers
    <3> QED BY <2>1, <2>2, <2>8, <3>1, Zenon DEF OnCandidate
  <2> QED BY <1>3, <2>3, <2>4, <2>5, <2>6, <2>7, <2>8, Zenon DEF ClientReceives
<1>4. CASE Offer
  <2>1. PICK id \in Odds : id = nextSdpMsgId(client.sdpId)
    BY Parity, Zenon DEF nextSdpMsgId, Clients
  <2>2. Sdp("offer", id, cpeer.senders) \in ServerFrames
    BY Frames, Zenon DEF ClientPeers
  <2>3. client' \in Clients /\ cpeer' \in ClientPeers /\ bufs' \in Buffers
    BY <1>4, <2>1, Parity, Zenon DEF Offer, Clients, ClientPeers, Buffers, Sigs
  <2>4. toServer' \in Seq(ServerFrames)
    BY <1>4, <2>1, <2>2, Appended DEF Offer
  <2> QED BY <1>4, <1>t, <2>1, <2>3, <2>4, Zenon DEF Offer, server, Clients, ClientPeers
<1>5. CASE TakeSdp
  <2>1. /\ client.at \in {"answer", "setup"} /\ bufs.sdp # <<>>
        /\ bufs' = [bufs EXCEPT !.sdp = Tail(@)] /\ UNCHANGED <<net, server>>
    BY <1>5, Zenon DEF TakeSdp
  <2>2. /\ Head(bufs.sdp) \in ServerOffers \union ServerAnswers
        /\ Tail(bufs.sdp) \in Seq(ServerOffers \union ServerAnswers)
    BY <2>1, Tailed, Zenon DEF Buffers
  <2>3. PICK m \in ServerOffers \union ServerAnswers : m = Head(bufs.sdp)
    BY <2>2, Zenon
  <2>4. bufs' \in Buffers
    BY <2>1, <2>2, Zenon DEF Buffers
  <2>5. CASE ~Awaited(m) /\ UNCHANGED <<client, cpeer, hist>>
    BY <2>1, <2>4, <2>5, Zenon DEF net, server
  <2>6. CASE client' = [client EXCEPT !.at = "cands"] /\ client.at = "answer" /\ SetAnswer(m)
    <3>1. client' \in Clients /\ cpeer' \in ClientPeers /\ hist' \in Histories
      BY <2>6, Zenon DEF SetAnswer, Clients, ClientPeers, Histories, Sigs, Stable
    <3> QED BY <1>t, <2>1, <2>4, <2>6, <3>1, Zenon DEF net, server, Clients
  <2>7. CASE client' = [client EXCEPT !.at = "cands"] /\ client.at = "setup" /\ SetOffer(m)
    <3>1. m.id \in Nat
      BY Parity, Zenon DEF ServerOffers, ServerAnswers
    <3>2. client' \in Clients /\ cpeer' \in ClientPeers /\ hist' \in Histories
      BY <2>7, <3>1, Zenon DEF SetOffer, Clients, ClientPeers, Histories, Sigs
    <3> QED BY <1>t, <2>1, <2>4, <2>7, <3>2, Zenon DEF net, server, Clients
  <2> QED BY <1>5, <2>1, <2>3, <2>5, <2>6, <2>7, Zenon DEF TakeSdp
<1>6. CASE DrainCandidates
  <2>1. client.at = "cands" /\ UNCHANGED <<bufs, net, server, hist>>
    BY <1>6, Zenon DEF DrainCandidates
  <2>2. cpeer' \in ClientPeers
    <3>1. cpeer.added + cpeer.pending \in Nat
      BY DEF ClientPeers
    <3> QED BY <1>6, <3>1, Zenon DEF DrainCandidates, ClientPeers
  <2>3. /\ client' \in Clients /\ client'.task = client.task /\ client'.await = client.await
        /\ client'.at = IF client.task \in Pubs THEN "published" ELSE "reply"
    BY <1>6, Zenon DEF DrainCandidates, Clients
  <2> QED BY <1>t, <2>1, <2>2, <2>3, Zenon DEF net, server
<1>7. CASE Reply
  <2>1. client.at = "reply" /\ client.task \in Subs /\ client.await \in Evens
    BY <1>7, Zenon DEF Reply
  <2>2. Sdp("answer", client.await, cpeer.senders) \in ServerFrames
    BY <2>1, Frames, Zenon DEF ClientPeers
  <2>3. client' \in Clients /\ cpeer' \in ClientPeers /\ bufs' \in Buffers
    <3>1. client.done \union {client.task} \in SUBSET Tasks
      BY <1>t, <2>1, Zenon DEF Clients
    <3>2. client' \in Clients /\ bufs' \in Buffers
      BY <1>7, <3>1, Ends, Zenon DEF Reply
    <3>3. cpeer' \in ClientPeers
      BY <1>7, Zenon DEF Reply, ClientPeers, Sigs, Stable
    <3> QED BY <3>2, <3>3, Zenon
  <2>4. toServer' \in Seq(ServerFrames)
    BY <1>7, <2>2, Appended DEF Reply
  <2> QED BY <1>7, <1>t, <2>3, <2>4, Zenon DEF Reply, Over, server, Clients
<1>8. CASE PublishEnd
  <2>1. client.done \union {client.task} \in SUBSET Tasks
    BY <1>8, <1>t, Zenon DEF PublishEnd, Clients
  <2>2. client' \in Clients /\ bufs' \in Buffers /\ client'.at = "idle"
    BY <1>8, <2>1, Ends, Zenon DEF PublishEnd
  <2> QED BY <1>8, <2>2, Zenon DEF PublishEnd, net, server
<1>9. CASE TakeSubscribed
  <2>1. /\ client.at = "subscribed" /\ bufs.sub # <<>> /\ client.task \in Subs
        /\ bufs' = [bufs EXCEPT !.sub = Tail(@)] /\ UNCHANGED <<cpeer, net, server, hist>>
    BY <1>9, Zenon DEF TakeSubscribed
  <2>2. Head(bufs.sub) \in Subscribeds /\ Tail(bufs.sub) \in Seq(Subscribeds)
    BY <2>1, Tailed, Zenon DEF Buffers
  <2>3. PICK m \in Subscribeds : m = Head(bufs.sub)
    BY <2>2, Zenon
  <2>4. bufs' \in Buffers
    BY <2>1, <2>2, Zenon DEF Buffers
  <2>5. client' = IF m.of = client.task
                   THEN [client EXCEPT !.at = "setup", !.await = m.id] ELSE client
    BY <1>9, <2>3, Zenon DEF TakeSubscribed
  <2>6. m.id \in Evens /\ m.id \in Nat
    BY Parity, Zenon DEF Subscribeds
  <2> QED BY <1>t, <2>1, <2>4, <2>5, <2>6, Zenon DEF net, server, Clients
<1>10. CASE ClientCandidate
  <2>1. cpeer' \in ClientPeers /\ cpeer'.sig = cpeer.sig
    <3>1. cpeer.found + 1 \in Nat
      BY DEF ClientPeers
    <3> QED BY <1>10, <3>1, Zenon DEF ClientCandidate, ClientPeers
  <2>2. toServer' \in Seq(ServerFrames)
    BY <1>10, Frames, Appended, Zenon DEF ClientCandidate
  <2> QED BY <1>10, <2>1, <2>2, Zenon DEF ClientCandidate, server
<1>11. CASE GiveUp
  <2>1. client.task \in Tasks /\ hist' \in Histories
    BY <1>11, Zenon DEF GiveUp, Histories
  <2>2. /\ Request("remove", client.task) \in ServerFrames
        /\ Append(toServer, Request("remove", client.task)) \in Seq(ServerFrames)
    BY <2>1, Frames, Appended
  <2>3. CASE client.at = "ack" /\ Over(client.done) /\ UNCHANGED <<cpeer, toServer>>
    <3>1. client' \in Clients /\ bufs' \in Buffers /\ client'.at = "idle"
      BY <2>3, Ends, Zenon DEF Clients
    <3> QED BY <1>11, <2>1, <2>3, <3>1, Zenon DEF GiveUp, server
  <2>4. CASE /\ client.at \in {"answer", "published"} /\ Over(client.done)
             /\ cpeer' = [cpeer EXCEPT !.senders = @ \ {client.task}]
             /\ toServer' = Append(toServer, Request("remove", client.task))
    <3>1. client' \in Clients /\ bufs' \in Buffers /\ client'.at = "idle"
      BY <2>4, Ends, Zenon DEF Clients
    <3>2. cpeer' \in ClientPeers
      BY <2>4, Zenon DEF ClientPeers
    <3> QED BY <1>11, <2>1, <2>2, <2>4, <3>1, <3>2, Zenon DEF GiveUp, server
  <2>5. CASE /\ client.at \in {"subscribed", "setup"} /\ client' = [client EXCEPT !.at = "clean"]
             /\ bufs' = [bufs EXCEPT !.sdpOn = FALSE, !.sdp = <<>>, !.sub = <<>>]
             /\ toServer' = Append(toServer, Request("remove", client.task)) /\ UNCHANGED cpeer
    <3>1. client' \in Clients /\ client'.at = "clean" /\ client'.task = client.task
      BY <2>5, Zenon DEF Clients
    <3>2. bufs' \in Buffers
      <4>1. <<>> \in Seq(ServerOffers \union ServerAnswers) /\ <<>> \in Seq(Subscribeds)
        OBVIOUS
      <4> QED BY <2>5, <4>1, Zenon DEF Buffers
    <3> QED BY <1>11, <1>t, <2>1, <2>2, <2>5, <3>1, <3>2, Zenon DEF GiveUp, server
  <2> QED BY <1>11, <2>3, <2>4, <2>5, Zenon DEF GiveUp
<1>12. CASE ServerReceives
  <2>1. /\ toServer # <<>> /\ toServer' = Tail(toServer)
        /\ UNCHANGED <<browser, toClient, negs, callbacks, pubs, subs, bound, hist>>
    BY <1>12, Zenon DEF ServerReceives
  <2>2. Head(toServer) \in ServerFrames /\ toServer' \in Seq(ServerFrames)
    BY <2>1, Tailed, Zenon
  <2>3. PICK m \in ServerFrames : m = Head(toServer)
    BY <2>2, Zenon
  <2>4. CASE m.t = "request" /\ reqs' = reqs \union {m} /\ UNCHANGED <<handlers, speer>>
    BY <2>1, <2>2, <2>4, Kinds, Zenon DEF browser
  <2>5. CASE /\ m.t = "sdp" /\ handlers' = Append(handlers, [m |-> m, at |-> "try"])
             /\ UNCHANGED <<reqs, speer>>
    <3>1. m \in ClientOffers \union ClientAnswers
      BY <2>5, Kinds, Zenon
    <3>2. [m |-> m, at |-> "try"] \in Handlers
      BY <3>1, Zenon DEF Handlers, OfferHandlers, AnswerHandlers
    <3>3. handlers' \in Seq(Handlers)
      BY <2>5, <3>2, Appended
    <3> QED BY <2>1, <2>2, <2>5, <3>3, Zenon DEF browser
  <2>6. CASE m.t = "candidate" /\ OnServerCandidate
    <3>1. speer.added + 1 \in Nat
      BY DEF ServerPeers
    <3>2. speer' \in ServerPeers
      BY <2>6, <3>1, Zenon DEF OnServerCandidate, ServerPeers
    <3> QED BY <2>1, <2>2, <2>6, <3>2, Zenon DEF OnServerCandidate, browser
  <2> QED BY <1>12, <2>3, <2>4, <2>5, <2>6, Zenon DEF ServerReceives
<1>13. CASE CandidateLocked
  <2>1. speer.added + 1 \in Nat /\ speer.pending + 1 \in Nat
    BY DEF ServerPeers
  <2>2. speer' \in ServerPeers
    BY <1>13, <2>1, Zenon DEF CandidateLocked, ServerPeers
  <2> QED BY <1>13, <2>2, Zenon DEF CandidateLocked, browser, net
<1>14. CASE CallbackTry
  <2>1. callbacks' \in [try : Nat, unlock : Nat]
    <3>1. callbacks.try - 1 \in Nat /\ callbacks.unlock + 1 \in Nat
      BY <1>14 DEF CallbackTry
    <3> QED BY <1>14, <3>1, Zenon DEF CallbackTry
  <2>2. speer' \in ServerPeers
    BY <1>14, Zenon DEF CallbackTry, ServerPeers
  <2> QED BY <1>14, <2>1, <2>2, Zenon DEF CallbackTry, browser, net
<1>15. CASE CallbackUnlock
  <2>1. callbacks' \in [try : Nat, unlock : Nat]
    <3>1. callbacks.unlock - 1 \in Nat
      BY <1>15 DEF CallbackUnlock
    <3> QED BY <1>15, <3>1, Zenon DEF CallbackUnlock
  <2>2. speer' \in ServerPeers /\ speer.neg_mux \in BOOLEAN
    BY <1>15, Zenon DEF CallbackUnlock, ServerPeers
  <2>3. hist' \in Histories
    BY <1>15, <2>2, Zenon DEF CallbackUnlock, Histories
  <2> QED BY <1>15, <2>1, <2>2, <2>3, Zenon DEF CallbackUnlock, browser, net
<1>16. CASE ServerCandidate
  <2>1. speer.found + 1 \in Nat
    BY DEF ServerPeers
  <2>2. speer' \in ServerPeers
    BY <1>16, <2>1, Zenon DEF ServerCandidate, ServerPeers
  <2>3. toClient' \in Seq(ClientFrames)
    BY <1>16, Frames, Appended, Zenon DEF ServerCandidate
  <2> QED BY <1>16, <2>2, <2>3, Zenon DEF ServerCandidate, browser
<1>17. ASSUME NEW r \in reqs, Serve(r) PROVE StateInv'
  <2>1. r \in Requests /\ r.of \in Tasks
    BY Zenon DEF Requests
  <2>2. pubs' \subseteq Pubs /\ subs' \subseteq Subs
    BY <1>17, <2>1, Zenon DEF Serve
  <2>3. hist' \in Histories
    BY <1>17, <2>2, Zenon DEF Serve, Histories
  <2>4. toClient' \in Seq(ClientFrames)
    BY <1>17, <2>1, Frames, Appended DEF Serve
  <2> QED BY <1>17, <2>2, <2>3, <2>4, Zenon DEF Serve, browser
<1>18. ASSUME NEW s \in Subs, Accept(s) PROVE StateInv'
  <2>1. speer.sdpMsgId + 2 \in Evens
    BY Parity, Zenon DEF ServerPeers
  <2>2. speer' \in ServerPeers
    BY <1>18, <2>1, Zenon DEF Accept, ServerPeers
  <2>3. hist' \in Histories
    <3>1. hist.accepts[s] + 1 \in Nat /\ hist.overtaken \in BOOLEAN
      BY DEF Histories
    <3>2. [hist.accepts EXCEPT ![s] = @ + 1] \in [Subs -> Nat]
      BY <3>1, Zenon DEF Histories
    <3>3. PICK b \in BOOLEAN : b = (hist.overtaken \/ handlers # <<>>)
      BY Zenon
    <3>4. hist' = [hist EXCEPT !.accepts = [hist.accepts EXCEPT ![s] = @ + 1], !.overtaken = b]
      BY <1>18, <3>3, Zenon DEF Accept
    <3> QED BY <3>2, <3>4, Zenon DEF Histories
  <2>4. negs' \subseteq Negs
    BY <1>18, <2>1 DEF Accept, Negs
  <2> QED BY <1>18, <2>2, <2>3, <2>4, Zenon DEF Accept, browser, net
<1>19. ASSUME NEW n \in negs, Tell(n) PROVE StateInv'
  <2>1. n.of \in Subs /\ n.id \in Evens
    BY Zenon DEF Negs
  <2>2. negs' \subseteq Negs
    BY <1>19, Zenon DEF Tell, Step, Negs
  <2>3. toClient' \in Seq(ClientFrames)
    BY <1>19, <2>1, Frames, Appended DEF Tell
  <2> QED BY <1>19, <2>2, <2>3, Zenon DEF Tell, browser
<1>20. ASSUME NEW n \in negs, StartLock(n) PROVE StateInv'
  <2>1. negs' \subseteq Negs
    BY <1>20, Zenon DEF StartLock, Step, Negs
  <2>2. speer' \in ServerPeers
    BY <1>20, Zenon DEF StartLock, ServerPeers
  <2> QED BY <1>20, <2>1, <2>2, Zenon DEF StartLock, browser, net
<1>21. ASSUME NEW n \in negs, StartOffer(n) PROVE StateInv'
  <2>1. negs' \subseteq Negs
    <3>1. [n EXCEPT !.at = "send"] \in Negs
      BY Zenon DEF Negs
    <3> QED BY <1>21, <3>1, Zenon DEF StartOffer, Step
  <2>2. [st |-> "local", id |-> n.id] \in Sigs
    BY Parity, Zenon DEF Negs, Sigs
  <2>3. speer' \in ServerPeers
    BY <1>21, <2>2, ZenonT(40) DEF StartOffer, ServerPeers
  <2>4. hist' \in Histories
    BY <1>21, Zenon DEF StartOffer, Histories
  <2> QED BY <1>21, <2>1, <2>3, <2>4, Zenon DEF StartOffer, browser, net
<1>22. ASSUME NEW n \in negs, StartSend(n) PROVE StateInv'
  <2>1. n.id \in Evens
    BY Zenon DEF Negs
  <2>2. toClient' \in Seq(ClientFrames)
    BY <1>22, <2>1, Frames, Appended DEF StartSend
  <2> QED BY <1>22, <2>2, Zenon DEF StartSend, browser
<1>h. ASSUME NEW i \in DOMAIN handlers
      PROVE  i \in 1 .. Len(handlers) /\ handlers[i] \in Handlers
  OBVIOUS
<1>23. ASSUME NEW i \in DOMAIN handlers, SdpTry(i) PROVE StateInv'
  <2>1. [handlers[i] EXCEPT !.at = "remote"] \in Handlers
    BY <1>h, Goes, Zenon
  <2>2. handlers' \in Seq(Handlers)
    BY <1>23, <1>h, <2>1 DEF SdpTry
  <2>3. speer' \in ServerPeers
    BY <1>23, Zenon DEF SdpTry, ServerPeers
  <2> QED BY <1>23, <2>2, <2>3, Zenon DEF SdpTry, browser, net
<1>24. ASSUME NEW i \in DOMAIN handlers, SdpRemote(i) PROVE StateInv'
  <2>1. PICK m : m = handlers[i].m
    BY Zenon
  <2>2. m.id \in Nat /\ m.tracks \subseteq Pubs
    BY <1>h, <2>1, Goes, Zenon
  <2>3. [handlers[i] EXCEPT !.at = "cands"] \in Handlers
    BY <1>h, Goes, Zenon
  <2>4. RemoveAt(handlers, i) \in Seq(Handlers)
    BY <1>h, Dropped, Zenon
  <2>5. handlers' \in Seq(Handlers)
    <3>1. [handlers EXCEPT ![i].at = "cands"] \in Seq(Handlers)
      BY <1>h, <2>3
    <3> QED BY <1>24, <2>4, <3>1, Zenon DEF SdpRemote
  <2>6. hist' \in Histories
    BY <1>24, Zenon DEF SdpRemote, Histories
  <2>7. callbacks' \in [try : Nat, unlock : Nat]
    BY <1>24 DEF SdpRemote
  <2>8. Stable \in Sigs /\ [st |-> "remote", id |-> m.id] \in Sigs
    BY <2>2, Zenon DEF Sigs, Stable
  <2>9. speer' \in ServerPeers
    <3>1. CASE UNCHANGED speer
      BY <3>1, Zenon
    <3>2. CASE speer' = [speer EXCEPT !.sig = IF m.type = "offer" THEN [st |-> "remote", id |-> m.id]
                                                                ELSE Stable,
                                      !.remote = TRUE, !.tracks = m.tracks]
      BY <2>2, <2>8, <3>2, Zenon DEF ServerPeers
    <3> QED BY <1>24, <2>1, <3>1, <3>2, Zenon DEF SdpRemote
  <2> QED BY <1>24, <2>5, <2>6, <2>7, <2>9, Zenon DEF SdpRemote, browser, net
<1>25. ASSUME NEW i \in DOMAIN handlers, SdpCandidates(i) PROVE StateInv'
  <2>1. RemoveAt(handlers, i) \in Seq(Handlers)
    BY <1>h, Dropped, Zenon
  <2>2. handlers[i].m.type # "answer" => [handlers[i] EXCEPT !.at = "answer"] \in Handlers
    BY <1>h, Goes, Zenon
  <2>3. handlers' \in Seq(Handlers)
    BY <1>25, <1>h, <2>1, <2>2 DEF SdpCandidates
  <2>4. speer.added + speer.pending \in Nat
    BY DEF ServerPeers
  <2>5. speer' \in ServerPeers
    BY <1>25, <2>4, Zenon DEF SdpCandidates, ServerPeers
  <2> QED BY <1>25, <2>3, <2>5, Zenon DEF SdpCandidates, browser, net
<1>26. ASSUME NEW i \in DOMAIN handlers, SdpAnswer(i) PROVE StateInv'
  <2>1. [handlers[i] EXCEPT !.at = "send"] \in Handlers
    BY <1>26, <1>h, Goes, Zenon DEF SdpAnswer
  <2>2. handlers' \in Seq(Handlers)
    BY <1>26, <1>h, <2>1 DEF SdpAnswer
  <2>3. speer' \in ServerPeers
    BY <1>26, Zenon DEF SdpAnswer, ServerPeers, Sigs, Stable
  <2>4. hist' \in Histories
    BY <1>26, Zenon DEF SdpAnswer, Histories
  <2>5. callbacks' \in [try : Nat, unlock : Nat]
    <3>1. callbacks.try + 1 \in Nat
      OBVIOUS
    <3> QED BY <1>26, <3>1, Zenon DEF SdpAnswer
  <2> QED BY <1>26, <2>2, <2>3, <2>4, <2>5, Zenon DEF SdpAnswer, browser, net
<1>27. ASSUME NEW i \in DOMAIN handlers, SdpSend(i) PROVE StateInv'
  <2>1. RemoveAt(handlers, i) \in Seq(Handlers)
    BY <1>h, Dropped, Zenon
  <2>2. handlers[i].m.id \in Odds
    BY <1>27, <1>h, Goes, Zenon DEF SdpSend, ClientOffers
  <2>3. toClient' \in Seq(ClientFrames)
    BY <1>27, <2>2, Frames, Appended DEF SdpSend
  <2> QED BY <1>27, <2>1, <2>3, Zenon DEF SdpSend, browser
<1>28. ASSUME NEW p \in Pubs, OnTrack(p) PROVE StateInv'
  <2>1. BindWalk(hist.arrived \union {p}) \subseteq Pubs
    BY Zenon DEF BindWalk
  <2>2. ASSUME NEW q \in Pubs
        PROVE  Append(toClient, [t |-> "published", of |-> q]) \in Seq(ClientFrames)
    <3>1. [t |-> "published", of |-> q] \in ClientFrames
      BY Frames, Zenon
    <3> QED BY <3>1, Appended
  <2>3. toClient' \in Seq(ClientFrames)
    BY <1>28, <2>1, <2>2, Zenon DEF OnTrack
  <2>4. hist' \in Histories
    BY <1>28, Zenon DEF OnTrack, Histories
  <2> QED BY <1>28, <2>3, <2>4, Zenon DEF OnTrack, browser
<1>29. CASE UNCHANGED vars
  BY <1>29, Zenon DEF vars
<1> QED BY <1>1, <1>2, <1>3, <1>4, <1>5, <1>6, <1>7, <1>8, <1>9, <1>10, <1>11, <1>12, <1>13,
           <1>14, <1>15, <1>16, <1>17, <1>18, <1>19, <1>20, <1>21, <1>22, <1>23, <1>24, <1>25,
           <1>26, <1>27, <1>28, <1>29, Zenon DEF Next, ClientNext, ServerNext

\* What the browser does leaves the server's peer connection, its goroutines, except
\* that an acknowledgement lets one go on, and what is remembered of them alone.
LEMMA ClientSteps ==
  ASSUME StateInv, ClientNext \/ GiveUp
  PROVE  /\ UNCHANGED <<reqs, handlers, callbacks, speer, pubs, subs, bound>>
         /\ hist' \in Histories
         /\ hist'.overtaken = hist.overtaken /\ hist'.crashed = hist.crashed
         /\ hist'.registered = hist.registered /\ hist'.arrived = hist.arrived
         /\ hist.givenUp \subseteq hist'.givenUp
<1>1. hist \in Histories /\ client.task \in Tasks \union {None}
  BY Zenon DEF StateInv, Clients
<1>2. CASE GiveUp
  <2>1. client.task \in Tasks /\ hist' = [hist EXCEPT !.givenUp = @ \union {client.task}]
    BY <1>2, NegotiationAssumption, Zenon DEF GiveUp
  <2>2. UNCHANGED server
    BY <1>2, Zenon DEF GiveUp
  <2> QED BY <1>1, <2>1, <2>2, Zenon DEF server, Histories
<1>3. CASE TakeSdp
  <2>1. UNCHANGED server
    BY <1>3, Zenon DEF TakeSdp
  <2>2. PICK b \in BOOLEAN : hist' = [hist EXCEPT !.mispaired = b] \/ hist' = hist
    BY <1>3, Zenon DEF TakeSdp, SetAnswer, SetOffer
  <2> QED BY <1>1, <2>1, <2>2, Zenon DEF server, Histories
<1>4. CASE ClientReceives
  BY <1>1, <1>4, Zenon DEF ClientReceives
<1>5. CASE UNCHANGED <<server, hist>>
  BY <1>1, <1>5, Zenon DEF server
<1>6. ASSUME NEW p \in Pubs, PublishStart(p) PROVE UNCHANGED <<server, hist>>
  BY <1>6, Zenon DEF PublishStart
<1>7. ASSUME NEW s \in Subs, SubscribeStart(s) PROVE UNCHANGED <<server, hist>>
  BY <1>7, Zenon DEF SubscribeStart
<1>8. CASE Offer
  BY <1>5, <1>8, Zenon DEF Offer
<1>9. CASE DrainCandidates
  BY <1>5, <1>9, Zenon DEF DrainCandidates
<1>10. CASE Reply
  BY <1>5, <1>10, Zenon DEF Reply
<1>11. CASE PublishEnd
  BY <1>5, <1>11, Zenon DEF PublishEnd
<1>12. CASE TakeSubscribed
  BY <1>5, <1>12, Zenon DEF TakeSubscribed
<1>13. CASE ClientCandidate
  BY <1>5, <1>13, Zenon DEF ClientCandidate
<1> QED BY <1>2, <1>3, <1>4, <1>5, <1>6, <1>7, <1>8, <1>9, <1>10, <1>11, <1>12, <1>13, Zenon DEF ClientNext

\* The mutex is taken when the callback unlocks, as long as nothing was overtaken.
LEMMA UnlockStep == StateInv /\ UnlockInv /\ [Next]_vars => UnlockInv'
<1> SUFFICES ASSUME StateInv, UnlockInv, [Next]_vars PROVE UnlockInv'
  BY Zenon
<1>s. speer \in ServerPeers /\ hist \in Histories /\ callbacks \in [try : Nat, unlock : Nat]
  BY Zenon DEF StateInv
<1>l. ASSUME callbacks' = callbacks, hist.overtaken => hist'.overtaken,
             hist'.crashed = hist.crashed, speer.neg_mux => speer'.neg_mux
      PROVE  UnlockInv'
  BY <1>l, Zenon DEF UnlockInv, UnlockSafe
<1>1. CASE ClientNext \/ GiveUp
  BY <1>1, <1>l, ClientSteps, Zenon
<1>2. CASE CallbackTry
  <2>1. /\ callbacks.try > 0 /\ callbacks'.try = callbacks.try - 1
        /\ callbacks'.unlock = callbacks.unlock + 1 /\ speer'.neg_mux = TRUE /\ hist' = hist
    BY <1>2, <1>s, Zenon DEF CallbackTry, ServerPeers
  <2> QED BY <1>s, <2>1 DEF UnlockInv, UnlockSafe
<1>3. CASE CallbackUnlock
  <2>1. /\ callbacks.unlock > 0 /\ callbacks'.try = callbacks.try
        /\ callbacks'.unlock = callbacks.unlock - 1
        /\ hist'.overtaken = hist.overtaken /\ (hist'.crashed <=> ~speer.neg_mux)
    BY <1>3, <1>s, Zenon DEF CallbackUnlock, Histories
  <2> QED BY <1>s, <2>1 DEF UnlockInv, UnlockSafe
<1>4. ASSUME NEW i \in DOMAIN handlers, SdpRemote(i) PROVE UnlockInv'
  <2>1. /\ hist'.overtaken <=> hist.overtaken \/ Overtakes(i)
        /\ hist'.crashed = hist.crashed
    BY <1>4, <1>s, Zenon DEF SdpRemote, Histories
  <2>2. speer'.neg_mux = speer.neg_mux
    BY <1>4, <1>s, Zenon DEF SdpRemote, ServerPeers
  <2>3. callbacks' = callbacks \/ callbacks' = [callbacks EXCEPT !.try = @ + 1]
    BY <1>4, Zenon DEF SdpRemote
  <2> QED BY <1>s, <2>1, <2>2, <2>3 DEF UnlockInv, UnlockSafe, Overtakes
<1>5. ASSUME NEW i \in DOMAIN handlers, SdpAnswer(i) PROVE UnlockInv'
  <2>1. /\ hist'.overtaken <=> hist.overtaken \/ Overtakes(1)
        /\ hist'.crashed = hist.crashed
    BY <1>5, <1>s, Zenon DEF SdpAnswer, Histories
  <2>2. speer'.neg_mux = speer.neg_mux /\ callbacks' = [callbacks EXCEPT !.try = @ + 1]
    BY <1>5, <1>s, Zenon DEF SdpAnswer, ServerPeers
  <2> QED BY <1>s, <2>1, <2>2 DEF UnlockInv, UnlockSafe, Overtakes
<1>6. CASE ServerReceives \/ CandidateLocked \/ ServerCandidate
  BY <1>6, <1>l, <1>s, Zenon DEF ServerReceives, OnServerCandidate, CandidateLocked, ServerCandidate, ServerPeers
<1>7. ASSUME NEW r \in reqs, Serve(r) PROVE UnlockInv'
  BY <1>7, <1>l, <1>s, Zenon DEF Serve, Histories
<1>8. ASSUME NEW s \in Subs, Accept(s) PROVE UnlockInv'
  BY <1>8, <1>l, <1>s, Zenon DEF Accept, Histories, ServerPeers
<1>9. ASSUME NEW n \in negs, Tell(n) \/ StartLock(n) \/ StartSend(n) PROVE UnlockInv'
  BY <1>9, <1>l, <1>s, Zenon DEF Tell, StartLock, StartSend, ServerPeers
<1>10. ASSUME NEW n \in negs, StartOffer(n) PROVE UnlockInv'
  BY <1>10, <1>l, <1>s, Zenon DEF StartOffer, Histories, ServerPeers
<1>11. ASSUME NEW i \in DOMAIN handlers, SdpTry(i) \/ SdpCandidates(i) \/ SdpSend(i) PROVE UnlockInv'
  BY <1>11, <1>l, <1>s, Zenon DEF SdpTry, SdpCandidates, SdpSend, ServerPeers
<1>12. ASSUME NEW p \in Pubs, OnTrack(p) PROVE UnlockInv'
  BY <1>12, <1>l, <1>s, Zenon DEF OnTrack, Histories
<1>13. CASE UNCHANGED vars
  BY <1>13, <1>l, Zenon DEF vars
<1> QED BY <1>1, <1>2, <1>3, <1>4, <1>5, <1>6, <1>7, <1>8, <1>9, <1>10, <1>11, <1>12, <1>13, Zenon
        DEF Next, ServerNext

\* Somebody is about to add the candidates that were put off.
LEMMA StrandedStep == StateInv /\ NoneStranded /\ [Next]_vars => NoneStranded'
<1> SUFFICES ASSUME StateInv, NoneStranded, [Next]_vars PROVE NoneStranded'
  BY Zenon
<1>s. /\ client \in Clients /\ cpeer \in ClientPeers
      /\ speer \in ServerPeers /\ handlers \in Seq(Handlers)
  BY Zenon DEF StateInv
<1>i. ASSUME NEW i \in DOMAIN handlers PROVE i \in 1 .. Len(handlers) /\ handlers[i] \in Handlers
  BY <1>s
<1>h. ASSUME NEW q \in Seq(Handlers)
      PROVE  (\E i \in DOMAIN q : q[i].at = "cands") <=> \E h : In(h, q) /\ h.at = "cands"
  BY DEF In
<1>b. ASSUME \/ ~cpeer'.remote \/ cpeer'.pending = 0 \/ client'.at = "cands"
             \/ /\ (cpeer'.remote => cpeer.remote) /\ cpeer'.pending = cpeer.pending
                /\ client.at = "cands" => client'.at = "cands",
             \/ ~speer'.remote \/ speer'.pending = 0
             \/ \E h : In(h, handlers') /\ h.at = "cands"
             \/ /\ (speer'.remote => speer.remote) /\ speer'.pending = speer.pending
                /\ \A h : In(h, handlers) /\ h.at = "cands" => In(h, handlers')
      PROVE  NoneStranded'
  <2>1. handlers' \in Seq(Handlers) /\ cpeer.pending \in Nat /\ speer.pending \in Nat
    BY <1>s, StateStep, Zenon DEF StateInv, ClientPeers, ServerPeers
  <2>0. speer.remote /\ speer.pending > 0 => \E h : In(h, handlers) /\ h.at = "cands"
    BY <1>h, <1>s, Zenon DEF NoneStranded
  <2>2. speer'.remote /\ speer'.pending > 0 => \E h : In(h, handlers') /\ h.at = "cands"
    BY <1>b, <2>0, <2>1
  <2>3. cpeer'.remote /\ cpeer'.pending > 0 => client'.at = "cands"
    BY <1>b, <2>1 DEF NoneStranded
  <2> QED BY <1>h, <2>1, <2>2, <2>3, Zenon DEF NoneStranded
<1>1. CASE ClientNext \/ GiveUp
  <2>1. speer' = speer /\ handlers' = handlers
    BY <1>1, ClientSteps, Zenon
  <2>2. SUFFICES \/ ~cpeer'.remote \/ cpeer'.pending = 0 \/ client'.at = "cands"
                 \/ /\ (cpeer'.remote => cpeer.remote) /\ cpeer'.pending = cpeer.pending
                    /\ client.at = "cands" => client'.at = "cands"
    BY <1>b, <2>1, Zenon
  <2>3. CASE ClientReceives
    <3>1. PICK m : \/ OnReply(m.of) \/ OnSubscribed(m) \/ OnSdp(m) \/ OnPublished(m.of) \/ OnCandidate
      BY <2>3, Zenon DEF ClientReceives
    <3> QED BY <1>s, <3>1, Zenon DEF OnReply, OnSubscribed, OnSdp, OnPublished, OnCandidate, Clients, ClientPeers,
               NoneStranded
  <2>4. CASE TakeSdp
    BY <1>s, <2>4, Zenon DEF TakeSdp, Clients
  <2>5. CASE GiveUp
    BY <1>s, <2>5, Zenon DEF GiveUp, Over, Clients, ClientPeers
  <2>6. CASE DrainCandidates
    BY <1>s, <2>6, Zenon DEF DrainCandidates, ClientPeers
  <2>7. ASSUME NEW p \in Pubs, PublishStart(p)
        PROVE  /\ (cpeer'.remote => cpeer.remote) /\ cpeer'.pending = cpeer.pending
               /\ client.at # "cands"
    BY <1>s, <2>7, Zenon DEF PublishStart, ClientPeers
  <2>8. ASSUME NEW s \in Subs, SubscribeStart(s) PROVE cpeer' = cpeer /\ client.at # "cands"
    BY <2>8, Zenon DEF SubscribeStart
  <2>9. CASE Offer \/ Reply
    BY <1>s, <2>9, ZenonT(40) DEF Offer, Reply, ClientPeers
  <2>10. CASE PublishEnd \/ TakeSubscribed
    BY <2>10, Zenon DEF PublishEnd, TakeSubscribed
  <2>11. CASE ClientCandidate
    BY <1>s, <2>11 DEF ClientCandidate, ClientPeers
  <2> QED BY <1>1, <2>3, <2>4, <2>5, <2>6, <2>7, <2>8, <2>9, <2>10, <2>11, Zenon DEF ClientNext
<1>2. CASE ServerNext
  <2>1. client' = client /\ cpeer' = cpeer
    BY <1>2, Zenon DEF ServerNext, ServerReceives, CandidateLocked, CallbackTry, CallbackUnlock,
                ServerCandidate, Serve, Accept, Tell, StartLock, StartOffer, StartSend, SdpTry,
                SdpRemote, SdpCandidates, SdpAnswer, SdpSend, OnTrack, browser
  <2>2. SUFFICES \/ ~speer'.remote \/ speer'.pending = 0
                 \/ \E h : In(h, handlers') /\ h.at = "cands"
                 \/ /\ (speer'.remote => speer.remote) /\ speer'.pending = speer.pending
                    /\ \A h : In(h, handlers) /\ h.at = "cands" => In(h, handlers')
    BY <1>b, <2>1, Zenon
  <2>3. CASE ServerReceives
    <3>1. CASE UNCHANGED handlers
      BY <1>s, <2>3, <3>1, Zenon DEF ServerReceives, OnServerCandidate, ServerPeers
    <3>2. CASE handlers' = Append(handlers, [m |-> Head(toServer), at |-> "try"]) /\ UNCHANGED speer
      <4>1. Len(handlers) \in Nat /\ Len(handlers') = Len(handlers) + 1
            /\ \A i \in 1 .. Len(handlers) : handlers'[i] = handlers[i]
        BY <1>s, <3>2
      <4> QED BY <3>2, <4>1 DEF In
    <3> QED BY <2>3, <3>1, <3>2, Zenon DEF ServerReceives, OnServerCandidate
  <2>4. CASE CandidateLocked
    BY <1>s, <2>4, Zenon DEF CandidateLocked, ServerPeers
  <2>5. ASSUME NEW i \in DOMAIN handlers, SdpTry(i)
        PROVE  /\ (speer'.remote => speer.remote) /\ speer'.pending = speer.pending
               /\ \A h : In(h, handlers) /\ h.at = "cands" => In(h, handlers')
    <3>0. i \in 1 .. Len(handlers) /\ handlers[i] \in Handlers
      BY <1>i, Zenon
    <3>1. Puts(handlers', handlers, i, [handlers[i] EXCEPT !.at = "remote"])
      BY <2>5, <3>0, Zenon DEF SdpTry, Puts
    <3>2. [handlers[i] EXCEPT !.at = "remote"] \in Handlers
      BY <3>0, Goes, Zenon
    <3>3. \A y : In(y, handlers) /\ y # handlers[i] => In(y, handlers')
      BY <3>0, <1>s, <3>1, <3>2, Replaced
    <3> QED BY <1>s, <2>5, <3>3, Zenon DEF SdpTry, ServerPeers
  <2>6. ASSUME NEW i \in DOMAIN handlers, SdpRemote(i)
        PROVE  \/ \E h : In(h, handlers') /\ h.at = "cands"
               \/ /\ (speer'.remote => speer.remote) /\ speer'.pending = speer.pending
                  /\ \A h : In(h, handlers) /\ h.at = "cands" => In(h, handlers')
    <3>0. i \in 1 .. Len(handlers) /\ handlers[i] \in Handlers
      BY <1>i, Zenon
    <3>1. CASE handlers' = RemoveAt(handlers, i) /\ UNCHANGED speer
      <4>1. \A y : In(y, handlers) /\ y # handlers[i] => In(y, RemoveAt(handlers, i))
        BY <3>0, <1>s, Dropped, Zenon
      <4> QED BY <2>6, <3>1, <4>1, Zenon DEF SdpRemote
    <3>2. CASE handlers' = [handlers EXCEPT ![i].at = "cands"]
      <4>1. PICK x : x = [handlers[i] EXCEPT !.at = "cands"]
        BY Zenon
      <4>2. x \in Handlers /\ x.at = "cands"
        BY <3>0, <4>1, Goes, Zenon
      <4>3. Puts(handlers', handlers, i, x)
        BY <3>2, <4>1, Zenon DEF Puts
      <4>4. In(x, handlers')
        BY <3>0, <1>s, <4>2, <4>3, Replaced, Zenon
      <4> QED BY <4>2, <4>4, Zenon
    <3> QED BY <2>6, <3>1, <3>2, Zenon DEF SdpRemote
  <2>7. ASSUME NEW i \in DOMAIN handlers, SdpCandidates(i) PROVE speer'.pending = 0
    BY <1>s, <2>7, Zenon DEF SdpCandidates, ServerPeers
  <2>8. ASSUME NEW i \in DOMAIN handlers, SdpAnswer(i)
        PROVE  /\ (speer'.remote => speer.remote) /\ speer'.pending = speer.pending
               /\ \A h : In(h, handlers) /\ h.at = "cands" => In(h, handlers')
    <3>0. i \in 1 .. Len(handlers) /\ handlers[i] \in Handlers
      BY <1>i, Zenon
    <3>1. Puts(handlers', handlers, i, [handlers[i] EXCEPT !.at = "send"])
      BY <2>8, <3>0, Zenon DEF SdpAnswer, Puts
    <3>2. [handlers[i] EXCEPT !.at = "send"] \in Handlers
      BY <3>0, <2>8, Goes, Zenon DEF SdpAnswer
    <3>3. \A y : In(y, handlers) /\ y # handlers[i] => In(y, handlers')
      BY <3>0, <1>s, <3>1, <3>2, Replaced
    <3> QED BY <1>s, <2>8, <3>3, Zenon DEF SdpAnswer, ServerPeers
  <2>9. ASSUME NEW i \in DOMAIN handlers, SdpSend(i)
        PROVE  /\ speer' = speer
               /\ \A h : In(h, handlers) /\ h.at = "cands" => In(h, handlers')
    <3>0. i \in 1 .. Len(handlers) /\ handlers[i] \in Handlers
      BY <1>i, Zenon
    <3>1. \A y : In(y, handlers) /\ y # handlers[i] => In(y, RemoveAt(handlers, i))
      BY <3>0, <1>s, Dropped, Zenon
    <3> QED BY <2>9, <3>1, Zenon DEF SdpSend
  <2>10. ASSUME UNCHANGED handlers, (speer'.remote => speer.remote), speer'.pending = speer.pending
         PROVE  /\ (speer'.remote => speer.remote) /\ speer'.pending = speer.pending
                /\ \A h : In(h, handlers) /\ h.at = "cands" => In(h, handlers')
    BY <2>10, Zenon
  <2>11. CASE CallbackTry \/ CallbackUnlock \/ ServerCandidate
    BY <1>s, <2>10, <2>11, Zenon DEF CallbackTry, CallbackUnlock, ServerCandidate, ServerPeers
  <2>12. ASSUME NEW r \in reqs, Serve(r) PROVE UNCHANGED <<handlers, speer>>
    BY <2>12, Zenon DEF Serve
  <2>13. ASSUME NEW s \in Subs, Accept(s)
         PROVE  UNCHANGED handlers /\ (speer'.remote => speer.remote) /\ speer'.pending = speer.pending
    BY <1>s, <2>13, Zenon DEF Accept, ServerPeers
  <2>14. ASSUME NEW n \in negs, Tell(n) \/ StartLock(n) \/ StartOffer(n) \/ StartSend(n)
         PROVE  UNCHANGED handlers /\ (speer'.remote => speer.remote) /\ speer'.pending = speer.pending
    BY <1>s, <2>14, Zenon DEF Tell, StartLock, StartOffer, StartSend, ServerPeers
  <2>15. ASSUME NEW p \in Pubs, OnTrack(p) PROVE UNCHANGED <<handlers, speer>>
    BY <2>15, Zenon DEF OnTrack
  <2> QED BY <1>2, <2>3, <2>4, <2>5, <2>6, <2>7, <2>8, <2>9, <2>10, <2>11, <2>12, <2>13, <2>14, <2>15
          DEF ServerNext
<1>3. CASE UNCHANGED vars
  BY <1>3, Zenon DEF vars, NoneStranded
<1> QED BY <1>1, <1>2, <1>3, Zenon DEF Next

\* Requests and candidates carry no tracks, and only replies acknowledge.
LEMMA Others ==
  /\ \A m \in ClientOffers \union ClientAnswers : m \notin Requests /\ m # Candidate
  /\ \A m \in Replies : m \notin Subscribeds \union ServerOffers \union ServerAnswers \union Publisheds
                        /\ m # Candidate
BY DEF ClientOffers, ClientAnswers, Requests, Candidate, Replies, Subscribeds, ServerOffers,
       ServerAnswers, Publisheds

\* The tracks under way belong to registered publications.
LEMMA RegisterStep == StateInv /\ RegisterInv /\ [Next]_vars => RegisterInv'
<1> SUFFICES ASSUME StateInv, RegisterInv, [Next]_vars PROVE RegisterInv'
  BY Zenon
<1>s. /\ client \in Clients /\ cpeer \in ClientPeers /\ speer \in ServerPeers
      /\ hist \in Histories /\ handlers \in Seq(Handlers)
      /\ toServer \in Seq(ServerFrames) /\ toClient \in Seq(ClientFrames)
  BY Zenon DEF StateInv
<1>t. Tasks = Pubs \union Subs /\ Pubs \intersect Subs = {} /\ None \notin Tasks
  BY NegotiationAssumption, Zenon DEF Tasks
<1>l. ASSUME hist.registered \subseteq hist'.registered, hist.givenUp \subseteq hist'.givenUp,
             \A m \in ClientOffers \union ClientAnswers :
               In(m, toServer') => In(m, toServer) \/ m.tracks \subseteq Backed',
             \A h \in Handlers : In(h, handlers') =>
               \/ h.m.tracks \subseteq Backed' \/ \E g \in Handlers : In(g, handlers) /\ h.m = g.m,
             speer'.tracks \subseteq Backed',
             \A p \in cpeer'.senders \ Backed' : client'.task = p /\ client'.at = "ack",
             \A m \in Replies : In(m, toClient') /\ m.of \in Pubs =>
               In(m, toClient) \/ m.of \in hist'.registered,
             hist'.arrived \subseteq Backed'
      PROVE  RegisterInv'
  <2>1. Backed \subseteq Backed'
    BY <1>l, Zenon DEF Backed
  <2> QED BY <1>l, <2>1, Zenon DEF RegisterInv
<1>1. CASE ClientNext \/ GiveUp
  <2>1. /\ UNCHANGED <<handlers, speer>> /\ hist'.registered = hist.registered
        /\ hist.givenUp \subseteq hist'.givenUp /\ hist'.arrived = hist.arrived
    BY <1>1, ClientSteps, Zenon
  <2>2. Backed \subseteq Backed'
    BY <2>1, Zenon DEF Backed
  <2>3. client.at # "ack" => cpeer.senders \subseteq Backed
    BY Zenon DEF RegisterInv
  <2>4. \A m \in Replies : In(m, toClient') => In(m, toClient)
    <3>1. toClient' = toClient \/ (toClient # <<>> /\ toClient' = Tail(toClient))
      BY <1>1, Zenon DEF ClientNext, PublishStart, SubscribeStart, ClientReceives, Offer, TakeSdp,
                  DrainCandidates, Reply, PublishEnd, TakeSubscribed, ClientCandidate, GiveUp, net
    <3>2. toClient # <<>> => \A y : In(y, Tail(toClient)) => In(y, toClient)
      BY <1>s, Tailed, Zenon
    <3> QED BY <3>1, <3>2, Zenon
  <2>5. ASSUME \A m \in ClientOffers \union ClientAnswers :
                 In(m, toServer') => In(m, toServer) \/ m.tracks \subseteq Backed',
               \A p \in cpeer'.senders \ Backed' : client'.task = p /\ client'.at = "ack"
        PROVE  RegisterInv'
    <3>1. speer'.tracks \subseteq Backed' /\ hist'.arrived \subseteq Backed'
      BY <2>1, <2>2, Zenon DEF RegisterInv
    <3>2. \A h \in Handlers : In(h, handlers') => \E g \in Handlers : In(g, handlers) /\ h.m = g.m
      BY <2>1, Zenon
    <3> QED BY <1>l, <2>1, <2>4, <2>5, <3>1, <3>2, Zenon
  <2>6. ASSUME NEW x \in Requests \union {Candidate}, toServer' = Append(toServer, x)
        PROVE  \A m \in ClientOffers \union ClientAnswers : In(m, toServer') => In(m, toServer)
    <3>1. x \in ServerFrames
      BY Frames, Zenon
    <3>2. \A y : In(y, toServer') <=> In(y, toServer) \/ y = x
      BY <1>s, <2>6, <3>1, Appended, Zenon
    <3> QED BY <3>2, Others, Zenon
  <2>7. ASSUME NEW p \in Pubs, PublishStart(p) PROVE RegisterInv'
    <3>1. cpeer.senders \subseteq Backed' /\ cpeer'.senders = cpeer.senders \union {p}
          /\ client'.task = p /\ client'.at = "ack"
      BY <1>s, <2>2, <2>3, <2>7, Zenon DEF PublishStart, Clients, ClientPeers
    <3>2. Request("add", p) \in Requests /\ toServer' = Append(toServer, Request("add", p))
      BY <1>t, <2>7, Frames, Zenon DEF PublishStart
    <3> QED BY <2>5, <2>6, <3>1, <3>2, Zenon
  <2>8. ASSUME NEW s \in Subs, SubscribeStart(s) PROVE RegisterInv'
    <3>1. cpeer' = cpeer /\ cpeer.senders \subseteq Backed'
      BY <2>2, <2>3, <2>8, Zenon DEF SubscribeStart
    <3>2. Request("add", s) \in Requests /\ toServer' = Append(toServer, Request("add", s))
      BY <1>t, <2>8, Frames, Zenon DEF SubscribeStart
    <3> QED BY <2>5, <2>6, <3>1, <3>2, Zenon
  <2>9. CASE ClientReceives
    <3>1. toServer' = toServer /\ toClient # <<>> /\ cpeer'.senders = cpeer.senders
      BY <1>s, <2>9, Zenon DEF ClientReceives, OnReply, OnSubscribed, OnSdp, OnPublished, OnCandidate, ClientPeers
    <3>2. PICK m \in ClientFrames : m = Head(toClient) /\ In(m, toClient)
      BY <1>s, <3>1, Tailed, Zenon
    <3>3. CASE client' = client
      BY <2>2, <2>5, <3>1, <3>3, Zenon DEF RegisterInv
    <3>4. CASE m.t = "reply" /\ OnReply(m.of) /\ client' # client
      <4>1. m \in Replies /\ m.of \in Tasks
        BY <3>4, Kinds, Zenon DEF Replies
      <4>2. client.task = m.of
        BY <3>4, Zenon DEF OnReply
      <4>3. m.of \in Pubs => m.of \in Backed'
        BY <2>2, <3>2, <4>1, Zenon DEF RegisterInv, Backed
      <4>4. cpeer.senders \subseteq Backed'
        BY <2>2, <1>s, <4>2, <4>3, Zenon DEF RegisterInv, ClientPeers
      <4> QED BY <2>5, <3>1, <4>4, Zenon
    <3> QED BY <2>9, <3>2, <3>3, <3>4, Zenon DEF ClientReceives, OnSubscribed, OnSdp, OnPublished, OnCandidate
  <2>10. CASE Offer \/ Reply
    <3>1. cpeer.senders \subseteq Backed' /\ cpeer'.senders = cpeer.senders
      BY <1>s, <2>2, <2>3, <2>10, Zenon DEF Offer, Reply, ClientPeers
    <3>2. PICK x \in ServerFrames : toServer' = Append(toServer, x) /\ x.tracks = cpeer.senders
      <4>1. CASE Offer
        <5>1. PICK id \in Odds : id = nextSdpMsgId(client.sdpId)
          BY <1>s, Parity, Zenon DEF nextSdpMsgId, Clients
        <5>2. Sdp("offer", id, cpeer.senders) \in ServerFrames
          BY <1>s, Frames, Zenon DEF ClientPeers
        <5>3. Sdp("offer", id, cpeer.senders).tracks = cpeer.senders
          BY Zenon DEF Sdp
        <5> QED BY <4>1, <5>1, <5>2, <5>3, Zenon DEF Offer
      <4>2. CASE Reply
        <5>1. client.await \in Evens
          BY <4>2, Zenon DEF Reply, StateInv
        <5>2. Sdp("answer", client.await, cpeer.senders) \in ServerFrames
          BY <1>s, <5>1, Frames, Zenon DEF ClientPeers
        <5>3. Sdp("answer", client.await, cpeer.senders).tracks = cpeer.senders
          BY Zenon DEF Sdp
        <5> QED BY <4>2, <5>2, <5>3, Zenon DEF Reply
      <4> QED BY <2>10, <4>1, <4>2, Zenon
    <3>3. \A y : In(y, toServer') <=> In(y, toServer) \/ y = x
      BY <1>s, <3>2, Appended, Zenon
    <3> QED BY <2>5, <3>1, <3>2, <3>3, Zenon
  <2>11. CASE TakeSdp \/ DrainCandidates
    <3>1. toServer' = toServer /\ cpeer.senders \subseteq Backed' /\ cpeer'.senders = cpeer.senders
      BY <1>s, <2>2, <2>3, <2>11, Zenon DEF TakeSdp, SetAnswer, SetOffer, DrainCandidates, net, ClientPeers
    <3> QED BY <2>5, <3>1, Zenon
  <2>12. CASE PublishEnd \/ TakeSubscribed
    <3>1. toServer' = toServer /\ cpeer.senders \subseteq Backed' /\ cpeer' = cpeer
      BY <2>2, <2>3, <2>12, Zenon DEF PublishEnd, TakeSubscribed, net
    <3> QED BY <2>5, <3>1, Zenon
  <2>13. CASE ClientCandidate
    <3>1. client' = client /\ cpeer'.senders = cpeer.senders /\ toServer' = Append(toServer, Candidate)
      BY <1>s, <2>13, Zenon DEF ClientCandidate, ClientPeers
    <3>2. \A p \in cpeer'.senders \ Backed' : client'.task = p /\ client'.at = "ack"
      BY <2>2, <3>1, Zenon DEF RegisterInv
    <3> QED BY <2>5, <2>6, <3>1, <3>2, Zenon
  <2>14. CASE GiveUp
    <3>1. client.task \in Backed' /\ client.task \in Tasks
      BY <1>s, <2>14, NegotiationAssumption, Zenon DEF GiveUp, Backed, Histories
    <3>2. cpeer.senders \subseteq Backed'
      BY <2>2, <3>1, Zenon DEF RegisterInv
    <3>3. cpeer'.senders \subseteq cpeer.senders
      BY <1>s, <2>14 DEF GiveUp, ClientPeers
    <3>4. toServer' = toServer \/ toServer' = Append(toServer, Request("remove", client.task))
      BY <2>14, Zenon DEF GiveUp
    <3>5. Request("remove", client.task) \in Requests
      BY <3>1, Frames, Zenon
    <3> QED BY <2>5, <2>6, <3>2, <3>3, <3>4, <3>5, Zenon
  <2> QED BY <1>1, <2>7, <2>8, <2>9, <2>10, <2>11, <2>12, <2>13, <2>14, Zenon DEF ClientNext
<1>2. CASE ServerNext
  <2>1. UNCHANGED <<client, cpeer>>
    BY <1>2, Zenon DEF ServerNext, ServerReceives, CandidateLocked, CallbackTry, CallbackUnlock,
                ServerCandidate, Serve, Accept, Tell, StartLock, StartOffer, StartSend, SdpTry,
                SdpRemote, SdpCandidates, SdpAnswer, SdpSend, OnTrack, browser
  <2>2. \A y : toServer # <<>> /\ In(y, Tail(toServer)) => In(y, toServer)
    BY <1>s, Tailed, Zenon
  <2>3. ASSUME hist.registered \subseteq hist'.registered, hist'.givenUp = hist.givenUp,
               toServer' = toServer \/ (toServer # <<>> /\ toServer' = Tail(toServer)),
               \A h \in Handlers : In(h, handlers') =>
                 \/ h.m.tracks \subseteq Backed \/ \E g \in Handlers : In(g, handlers) /\ h.m = g.m,
               speer'.tracks \subseteq Backed, hist'.arrived \subseteq Backed,
               \A m \in Replies : In(m, toClient') /\ m.of \in Pubs =>
                 In(m, toClient) \/ m.of \in hist'.registered
        PROVE  RegisterInv'
    <3>1. Backed \subseteq Backed'
      BY <2>3, Zenon DEF Backed
    <3>2. \A m \in ClientOffers \union ClientAnswers : In(m, toServer') => In(m, toServer)
      BY <2>2, <2>3, Zenon
    <3>3. \A p \in cpeer'.senders \ Backed' : client'.task = p /\ client'.at = "ack"
      BY <2>1, <3>1, Zenon DEF RegisterInv
    <3> QED BY <1>l, <2>3, <3>1, <3>2, <3>3, Zenon
  <2>4. \A h \in Handlers : handlers' = handlers /\ In(h, handlers') =>
           \E g \in Handlers : In(g, handlers) /\ h.m = g.m
    BY Zenon
  <2>5. speer.tracks \subseteq Backed /\ hist.arrived \subseteq Backed
    BY Zenon DEF RegisterInv
  <2>6. ASSUME NEW x \in ClientFrames, x \notin Replies, toClient' = Append(toClient, x)
        PROVE  \A m \in Replies : In(m, toClient') => In(m, toClient)
    <3>1. \A y : In(y, toClient') <=> In(y, toClient) \/ y = x
      BY <1>s, <2>6, Appended, Zenon
    <3> QED BY <2>6, <3>1, Zenon
  <2>7. CASE ServerReceives
    <3>1. /\ toServer # <<>> /\ toServer' = Tail(toServer) /\ UNCHANGED <<toClient, hist>>
      BY <2>7, Zenon DEF ServerReceives
    <3>2. PICK m \in ServerFrames : m = Head(toServer) /\ In(m, toServer)
      BY <1>s, <3>1, Tailed, Zenon
    <3>3. speer'.tracks = speer.tracks
      BY <1>s, <2>7, Zenon DEF ServerReceives, OnServerCandidate, ServerPeers
    <3>4. CASE handlers' = handlers
      BY <2>3, <2>4, <2>5, <3>1, <3>3, <3>4, Zenon
    <3>5. CASE m.t = "sdp" /\ handlers' = Append(handlers, [m |-> m, at |-> "try"])
      <4>1. m \in ClientOffers \union ClientAnswers
        BY <3>5, Kinds, Zenon
      <4>2. m.tracks \subseteq Backed
        BY <3>2, <4>1, Zenon DEF RegisterInv
      <4>3. [m |-> m, at |-> "try"] \in Handlers
        BY <4>1, Zenon DEF Handlers, OfferHandlers, AnswerHandlers
      <4>4. \A y : In(y, handlers') <=> In(y, handlers) \/ y = [m |-> m, at |-> "try"]
        BY <1>s, <3>5, <4>3, Appended
      <4>5. \A h \in Handlers : In(h, handlers') =>
               \/ h.m.tracks \subseteq Backed \/ \E g \in Handlers : In(g, handlers) /\ h.m = g.m
        BY <4>2, <4>4
      <4> QED BY <2>3, <2>5, <3>1, <3>3, <4>5, Zenon
    <3> QED BY <2>7, <3>2, <3>4, <3>5, Zenon DEF ServerReceives, OnServerCandidate
  <2>8. CASE CandidateLocked \/ CallbackTry
    <3>1. UNCHANGED <<hist, toServer, toClient, handlers>> /\ speer'.tracks = speer.tracks
      BY <1>s, <2>8, Zenon DEF CandidateLocked, CallbackTry, net, ServerPeers
    <3> QED BY <2>3, <2>4, <2>5, <3>1, Zenon
  <2>9. CASE CallbackUnlock
    <3>1. /\ UNCHANGED <<toServer, toClient, handlers>> /\ speer'.tracks = speer.tracks
          /\ hist'.registered = hist.registered /\ hist'.givenUp = hist.givenUp
          /\ hist'.arrived = hist.arrived
      BY <1>s, <2>9, Zenon DEF CallbackUnlock, net, ServerPeers, Histories
    <3> QED BY <2>3, <2>4, <2>5, <3>1, Zenon
  <2>10. CASE ServerCandidate
    <3>1. /\ UNCHANGED <<hist, toServer, handlers>> /\ speer'.tracks = speer.tracks
          /\ toClient' = Append(toClient, Candidate)
      BY <1>s, <2>10, Zenon DEF ServerCandidate, ServerPeers
    <3>2. Candidate \in ClientFrames /\ Candidate \notin Replies
      BY Frames, Others, Zenon
    <3> QED BY <2>3, <2>4, <2>5, <2>6, <3>1, <3>2, Zenon
  <2>11. ASSUME NEW r \in reqs, Serve(r) PROVE RegisterInv'
    <3>1. r \in Requests /\ r.of \in Tasks /\ r.op \in {"add", "remove"}
      BY Zenon DEF Requests, StateInv
    <3>2. /\ UNCHANGED <<toServer, handlers, speer>> /\ hist'.registered = hist.registered \union pubs'
          /\ hist'.givenUp = hist.givenUp /\ hist'.arrived = hist.arrived
      BY <1>s, <2>11, Zenon DEF Serve, Histories
    <3>3. r.op = "add" /\ r.of \in Pubs => r.of \in pubs'
      BY <2>11, Zenon DEF Serve
    <3>4. [t |-> "reply", of |-> r.of] \in ClientFrames /\ [t |-> "reply", of |-> r.of] \in Replies
      BY <3>1, Frames, Zenon
    <3>5. CASE toClient' = toClient
      BY <2>3, <2>4, <2>5, <3>2, <3>5, Zenon
    <3>6. CASE ~(r.op = "remove" /\ r.of \in Pubs) /\ toClient' = Append(toClient, [t |-> "reply", of |-> r.of])
      <4>1. \A y : In(y, toClient') <=> In(y, toClient) \/ y = [t |-> "reply", of |-> r.of]
        BY <1>s, <3>4, <3>6, Appended
      <4>2. \A m \in Replies : In(m, toClient') /\ m.of \in Pubs =>
               In(m, toClient) \/ m.of \in hist'.registered
        BY <3>1, <3>2, <3>3, <3>6, <4>1
      <4> QED BY <2>3, <2>4, <2>5, <3>2, <4>2, Zenon
    <3> QED BY <2>11, <3>5, <3>6, Zenon DEF Serve
  <2>12. ASSUME NEW s \in Subs, Accept(s) PROVE RegisterInv'
    <3>1. /\ UNCHANGED <<toServer, toClient, handlers>> /\ speer'.tracks = speer.tracks
          /\ hist'.registered = hist.registered /\ hist'.givenUp = hist.givenUp
          /\ hist'.arrived = hist.arrived
      BY <1>s, <2>12, Zenon DEF Accept, net, ServerPeers, Histories
    <3> QED BY <2>3, <2>4, <2>5, <3>1, Zenon
  <2>13. ASSUME NEW n \in negs, Tell(n) PROVE RegisterInv'
    <3>1. PICK x : x = [t |-> "subscribed", of |-> n.of, id |-> n.id]
      BY Zenon
    <3>2. x \in Subscribeds
      BY <3>1, Frames, Zenon DEF StateInv, Negs
    <3>3. x \in ClientFrames /\ x \notin Replies
      BY <3>2, Frames, Others, Zenon
    <3>4. UNCHANGED <<toServer, handlers, speer, hist>> /\ toClient' = Append(toClient, x)
      BY <2>13, <3>1, Zenon DEF Tell
    <3> QED BY <2>3, <2>4, <2>5, <2>6, <3>3, <3>4, Zenon
  <2>14. ASSUME NEW n \in negs, StartLock(n) PROVE RegisterInv'
    <3>1. UNCHANGED <<hist, toServer, toClient, handlers>> /\ speer'.tracks = speer.tracks
      BY <1>s, <2>14, Zenon DEF StartLock, net, ServerPeers
    <3> QED BY <2>3, <2>4, <2>5, <3>1, Zenon
  <2>15. ASSUME NEW n \in negs, StartOffer(n) PROVE RegisterInv'
    <3>1. /\ UNCHANGED <<toServer, toClient, handlers>> /\ speer'.tracks = speer.tracks
          /\ hist'.registered = hist.registered /\ hist'.givenUp = hist.givenUp
          /\ hist'.arrived = hist.arrived
      BY <1>s, <2>15, Zenon DEF StartOffer, net, ServerPeers, Histories
    <3> QED BY <2>3, <2>4, <2>5, <3>1, Zenon
  <2>16. ASSUME NEW n \in negs, StartSend(n) PROVE RegisterInv'
    <3>1. PICK x : x = Sdp("offer", n.id, {})
      BY Zenon
    <3>2. x \in ServerOffers
      BY <3>1, Frames, Zenon DEF StateInv, Negs
    <3>3. x \in ClientFrames /\ x \notin Replies
      BY <3>2, Frames, Others, Zenon
    <3>4. UNCHANGED <<toServer, handlers, speer, hist>> /\ toClient' = Append(toClient, x)
      BY <2>16, <3>1, Zenon DEF StartSend
    <3> QED BY <2>3, <2>4, <2>5, <2>6, <3>3, <3>4, Zenon
  <2>h. ASSUME NEW i \in DOMAIN handlers
        PROVE  i \in 1 .. Len(handlers) /\ handlers[i] \in Handlers /\ In(handlers[i], handlers)
    BY <1>s DEF In
  <2>r. ASSUME NEW i \in DOMAIN handlers, handlers' = RemoveAt(handlers, i)
        PROVE  \A h \in Handlers : In(h, handlers') => \E g \in Handlers : In(g, handlers) /\ h.m = g.m
    BY <1>s, <2>h, <2>r, Dropped, Zenon
  <2>p. ASSUME NEW i \in DOMAIN handlers, NEW a, [handlers[i] EXCEPT !.at = a] \in Handlers,
               handlers' = [handlers EXCEPT ![i].at = a]
        PROVE  \A h \in Handlers : In(h, handlers') => \E g \in Handlers : In(g, handlers) /\ h.m = g.m
    <3>0. i \in 1 .. Len(handlers) /\ handlers[i] \in Handlers /\ In(handlers[i], handlers)
      BY <2>h, Zenon
    <3>1. PICK x \in Handlers : x = [handlers[i] EXCEPT !.at = a]
      BY <2>p, Zenon
    <3>2. x.m = handlers[i].m
      BY <3>0, <3>1, Goes, Zenon
    <3>3. Puts(handlers', handlers, i, x)
      BY <2>p, <3>1, Zenon DEF Puts
    <3>4. \A y : In(y, handlers') => In(y, handlers) \/ y = x
      BY <1>s, <3>0, <3>3, Replaced
    <3> QED BY <3>0, <3>2, <3>4, Zenon
  <2>17. ASSUME NEW i \in DOMAIN handlers, SdpTry(i) PROVE RegisterInv'
    <3>1. UNCHANGED <<hist, toServer, toClient>> /\ speer'.tracks = speer.tracks
      BY <1>s, <2>17, Zenon DEF SdpTry, net, ServerPeers
    <3>2. \A h \in Handlers : In(h, handlers') => \E g \in Handlers : In(g, handlers) /\ h.m = g.m
      BY <2>17, <2>h, <2>p, Goes, Zenon DEF SdpTry
    <3> QED BY <2>3, <2>5, <3>1, <3>2, Zenon
  <2>18. ASSUME NEW i \in DOMAIN handlers, SdpRemote(i) PROVE RegisterInv'
    <3>1. /\ UNCHANGED <<toServer, toClient>> /\ hist'.registered = hist.registered
          /\ hist'.givenUp = hist.givenUp /\ hist'.arrived = hist.arrived
      BY <1>s, <2>18, Zenon DEF SdpRemote, net, Histories
    <3>2. handlers[i].m.tracks \subseteq Backed
      BY <2>h, Zenon DEF RegisterInv
    <3>3. speer'.tracks = speer.tracks \/ speer'.tracks = handlers[i].m.tracks
      BY <1>s, <2>18, Zenon DEF SdpRemote, ServerPeers
    <3>4. \A h \in Handlers : In(h, handlers') => \E g \in Handlers : In(g, handlers) /\ h.m = g.m
      <4>1. [handlers[i] EXCEPT !.at = "cands"] \in Handlers
        BY <2>h, Goes, Zenon
      <4> QED BY <2>18, <2>r, <2>p, <4>1 DEF SdpRemote
    <3> QED BY <2>3, <2>5, <3>1, <3>2, <3>3, <3>4, Zenon
  <2>19. ASSUME NEW i \in DOMAIN handlers, SdpCandidates(i) PROVE RegisterInv'
    <3>1. UNCHANGED <<hist, toServer, toClient>> /\ speer'.tracks = speer.tracks
      BY <1>s, <2>19, Zenon DEF SdpCandidates, net, ServerPeers
    <3>2. handlers[i].m.type # "answer" => [handlers[i] EXCEPT !.at = "answer"] \in Handlers
      BY <2>h, Goes, Zenon
    <3>3. \A h \in Handlers : In(h, handlers') => \E g \in Handlers : In(g, handlers) /\ h.m = g.m
      BY <2>19, <2>r, <2>p, <3>2, Zenon DEF SdpCandidates
    <3> QED BY <2>3, <2>5, <3>1, <3>3, Zenon
  <2>20. ASSUME NEW i \in DOMAIN handlers, SdpAnswer(i) PROVE RegisterInv'
    <3>1. /\ UNCHANGED <<toServer, toClient>> /\ hist'.registered = hist.registered
          /\ hist'.givenUp = hist.givenUp /\ hist'.arrived = hist.arrived
      BY <1>s, <2>20, Zenon DEF SdpAnswer, net, Histories
    <3>2. speer'.tracks = speer.tracks
      BY <1>s, <2>20, Zenon DEF SdpAnswer, ServerPeers
    <3>3. [handlers[i] EXCEPT !.at = "send"] \in Handlers
      BY <2>20, <2>h, Goes, Zenon DEF SdpAnswer
    <3>4. \A h \in Handlers : In(h, handlers') => \E g \in Handlers : In(g, handlers) /\ h.m = g.m
      BY <2>20, <2>p, <3>3, Zenon DEF SdpAnswer
    <3> QED BY <2>3, <2>5, <3>1, <3>2, <3>4, Zenon
  <2>21. ASSUME NEW i \in DOMAIN handlers, SdpSend(i) PROVE RegisterInv'
    <3>1. PICK x : x = Sdp("answer", handlers[i].m.id, {})
      BY Zenon
    <3>2. handlers[i].m.id \in Odds
      BY <2>21, <2>h, Goes, ZenonT(40) DEF SdpSend, ClientOffers
    <3>3. x \in ClientFrames /\ x \notin Replies
      BY <3>1, <3>2, Frames, Others, Zenon
    <3>4. UNCHANGED <<toServer, speer, hist>> /\ toClient' = Append(toClient, x)
          /\ handlers' = RemoveAt(handlers, i)
      BY <2>21, <3>1, Zenon DEF SdpSend
    <3>5. \A h \in Handlers : In(h, handlers') => \E g \in Handlers : In(g, handlers) /\ h.m = g.m
      BY <2>r, <3>4, Zenon
    <3> QED BY <2>3, <2>5, <2>6, <3>3, <3>4, <3>5, Zenon
  <2>22. ASSUME NEW p \in Pubs, OnTrack(p) PROVE RegisterInv'
    <3>1. /\ UNCHANGED <<toServer, handlers, speer>> /\ hist'.registered = hist.registered
          /\ hist'.givenUp = hist.givenUp /\ hist'.arrived = hist.arrived \union {p}
          /\ p \in speer.tracks
      BY <1>s, <2>22, Zenon DEF OnTrack, Histories
    <3>2. CASE toClient' = toClient
      BY <2>3, <2>4, <2>5, <3>1, <3>2, Zenon
    <3>3. ASSUME NEW q \in Pubs, toClient' = Append(toClient, [t |-> "published", of |-> q])
          PROVE  RegisterInv'
      <4>1. PICK x : x = [t |-> "published", of |-> q]
        BY ZenonT(40)
      <4>2. x \in Publisheds
        BY <4>1, Frames, Zenon
      <4>3. x \in ClientFrames /\ x \notin Replies
        BY <4>2, Frames, Others, Zenon
      <4> QED BY <2>3, <2>4, <2>5, <2>6, <3>1, <3>3, <4>1, <4>3, Zenon
    <3>4. BindWalk(hist.arrived \union {p}) \subseteq Pubs
      BY ZenonT(40) DEF BindWalk, StateInv
    <3> QED BY <2>22, <3>2, <3>3, <3>4, Zenon DEF OnTrack
  <2> QED BY <1>2, <2>7, <2>8, <2>9, <2>10, <2>11, <2>12, <2>13, <2>14, <2>15, <2>16, <2>17, <2>18,
             <2>19, <2>20, <2>21, <2>22, Zenon DEF ServerNext
<1>3. CASE UNCHANGED vars
  BY <1>3, Zenon DEF vars, RegisterInv, Backed
<1> QED BY <1>1, <1>2, <1>3, Zenon DEF Next

\* A goroutine of the sdp handler ends: its offer, or its answer, is out of the list.
LEMMA HandlerEnds ==
  ASSUME StateInv, NEW i \in DOMAIN handlers, handlers' = RemoveAt(handlers, i)
  PROVE  \A f : /\ Keys(handlers', f) \subseteq Keys(handlers, f)
                /\ Keyed(handlers, f) => Keyed(handlers', f)
<1>1. handlers \in Seq(Handlers)
  BY Zenon DEF StateInv
<1>2. i \in 1 .. Len(handlers)
  BY <1>1
<1> QED BY <1>1, <1>2, Dropped, Zenon

\* A goroutine of the sdp handler goes on: its description may have another key.
LEMMA HandlerGoes ==
  ASSUME StateInv, NEW i \in DOMAIN handlers, NEW x \in Handlers,
         Puts(handlers', handlers, i, x), NEW f
  PROVE  /\ ~Has(f, x) => Keys(handlers', f) \subseteq Keys(handlers, f)
         /\ ~Has(f, x) /\ Keyed(handlers, f) => Keyed(handlers', f)
         /\ ~Has(f, x) /\ Keyed(handlers, f) /\ Has(f, handlers[i])
              => Key(f, handlers[i]) \notin Keys(handlers', f)
         /\ Has(f, x) /\ Has(f, handlers[i]) /\ Key(f, x) = Key(f, handlers[i])
              => Keys(handlers', f) \subseteq Keys(handlers, f)
         /\ Has(f, x) /\ Has(f, handlers[i]) /\ Key(f, x) = Key(f, handlers[i]) /\ Keyed(handlers, f)
              => Keyed(handlers', f)
         /\ Has(f, x) /\ Keys(handlers, f) = {} => Keys(handlers', f) = {Key(f, x)} /\ Keyed(handlers', f)
<1>1. handlers \in Seq(Handlers)
  BY Zenon DEF StateInv
<1>2. i \in 1 .. Len(handlers)
  BY <1>1
<1> QED BY <1>1, <1>2, Rekeyed, Zenon

\* The goroutine keeps its description.
LEMMA HandlerMoves ==
  ASSUME StateInv, NEW i \in DOMAIN handlers, NEW a,
         handlers' = [handlers EXCEPT ![i].at = a], [handlers[i] EXCEPT !.at = a] \in Handlers
  PROVE  \E x \in Handlers : /\ Puts(handlers', handlers, i, x)
                             /\ x.m = handlers[i].m /\ x.at = a
<1>1. PICK h \in Handlers : h = handlers[i]
  BY DEF StateInv
<1>2. PICK x \in Handlers : x = [h EXCEPT !.at = a]
  BY <1>1, Zenon
<1>3. x.m = h.m /\ x.at = a
  BY <1>2, Goes
<1>4. Puts(handlers', handlers, i, x)
  BY <1>1, <1>2, Zenon DEF Puts
<1> QED BY <1>1, <1>3, <1>4, Zenon

\* Which goroutines have a key.
LEMMA HandlerKeys ==
  ASSUME NEW h \in Handlers
  PROVE  /\ Has(Answering, h) <=> h.m.type = "offer" /\ h.at \in {"cands", "answer"}
         /\ Has(Answering, h) => Key(Answering, h) = h.m.id
         /\ Has(PendingId, h) <=> h.m.type = "answer" /\ h.at \in {"try", "remote"}
         /\ Has(PendingId, h) => Key(PendingId, h) = h.m.id
         /\ Has(PendingId, h) => Key(PendingId, h) \in Evens
BY Goes, Zenon DEF Handlers, OfferHandlers, AnswerHandlers, ClientOffers, ClientAnswers, Answering, PendingId,
       Has, Key

\* SetRemoteDescription by a goroutine of the sdp handler: an early return, or the
\* description is set and the goroutine goes on as x.
Refused(i) ==
  /\ handlers' = RemoveAt(handlers, i)
  /\ speer' = speer /\ hist'.mispaired = hist.mispaired
Accepted(i, x) ==
  /\ Puts(handlers', handlers, i, x) /\ x.m = handlers[i].m /\ x.at = "cands"
  /\ handlers[i].at = "remote" /\ speer'.sdpMsgId = speer.sdpMsgId
  /\ speer.sig.st # "remote"
  /\ x.m.type = "offer" => /\ speer.sig.st = "stable"
                           /\ speer'.sig = [st |-> "remote", id |-> x.m.id]
  /\ x.m.type = "answer" => /\ speer.sig.st = "local" /\ x.m.id = speer.sdpMsgId
                            /\ speer'.sig = Stable
  /\ hist'.mispaired <=> hist.mispaired \/ (x.m.type = "answer" /\ x.m.id # speer.sig.id)

\* The sdp handler's goroutine sets its description, or returns.
LEMMA RemoteSteps ==
  ASSUME StateInv, NEW i \in DOMAIN handlers, SdpRemote(i)
  PROVE  Refused(i) \/ \E x \in Handlers : Accepted(i, x)
<1>s. speer \in ServerPeers /\ hist \in Histories
  BY Zenon DEF StateInv
<1>1. PICK h \in Handlers : h = handlers[i]
  BY DEF StateInv
<1>2. h.m.type \in {"offer", "answer"} /\ [h EXCEPT !.at = "cands"] \in Handlers
  BY Goes, Zenon
<1>3. CASE /\ handlers' = RemoveAt(handlers, i)
           /\ hist' = [hist EXCEPT !.overtaken = @ \/ Overtakes(i)] /\ UNCHANGED speer
  BY <1>s, <1>3, Zenon DEF Refused, Histories
<1>4. CASE /\ ~Unmatched(h.m) /\ Settable(h.m)
           /\ speer' = [speer EXCEPT
                          !.sig = IF h.m.type = "offer" THEN [st |-> "remote", id |-> h.m.id] ELSE Stable,
                          !.remote = TRUE, !.tracks = h.m.tracks]
           /\ handlers' = [handlers EXCEPT ![i].at = "cands"]
           /\ hist' = [hist EXCEPT
                         !.overtaken = @ \/ Overtakes(i),
                         !.mispaired = @ \/ (h.m.type = "answer" /\ h.m.id # speer.sig.id)]
  <2>1. PICK x \in Handlers : Puts(handlers', handlers, i, x) /\ x.m = handlers[i].m /\ x.at = "cands"
    BY <1>1, <1>2, <1>4, HandlerMoves, Zenon
  <2>2. handlers[i].at = "remote"
    BY Zenon DEF SdpRemote
  <2>3. /\ speer'.sdpMsgId = speer.sdpMsgId
        /\ speer'.sig = IF h.m.type = "offer" THEN [st |-> "remote", id |-> h.m.id] ELSE Stable
    BY <1>s, <1>4, Zenon DEF ServerPeers
  <2>4. hist'.mispaired <=> hist.mispaired \/ (h.m.type = "answer" /\ h.m.id # speer.sig.id)
    BY <1>s, <1>4, ZenonT(40) DEF Histories
  <2>5. /\ h.m.type = "offer" => speer.sig.st = "stable"
        /\ h.m.type = "answer" => speer.sig.st = "local" /\ h.m.id = speer.sdpMsgId
    BY <1>4, Zenon DEF Settable, Unmatched
  <2> QED BY <1>1, <1>2, <2>1, <2>2, <2>3, <2>4, <2>5, Zenon DEF Accepted
<1> QED BY <1>1, <1>3, <1>4, Zenon DEF SdpRemote

\* The goroutine that answers is alone, with its offer.
LEMMA AnswerStep == StateInv /\ AnswerInv /\ [Next]_vars => AnswerInv'
<1> SUFFICES ASSUME StateInv, AnswerInv, [Next]_vars PROVE AnswerInv'
  BY Zenon
<1>s. /\ speer \in ServerPeers /\ speer.sig \in Sigs /\ handlers \in Seq(Handlers)
      /\ toServer \in Seq(ServerFrames)
  BY Zenon DEF StateInv, ServerPeers
<1>k. ASSUME Keys(handlers', Answering) \subseteq Keys(handlers, Answering), Keyed(handlers', Answering),
             speer'.sig = speer.sig \/ Keys(handlers', Answering) = {}
      PROVE  AnswerInv'
  <2>1. \A y \in Keys(handlers', Answering) : speer'.sig = [st |-> "remote", id |-> y]
    BY <1>k, Zenon DEF AnswerInv
  <2> QED BY <1>k, <2>1, Zenon DEF AnswerInv, Answering
<1>l. ASSUME handlers' = handlers, speer'.sig = speer.sig \/ speer.sig.st # "remote" PROVE AnswerInv'
  BY <1>k, <1>l DEF AnswerInv
<1>m. ASSUME NEW y \in Keys(handlers, Answering) PROVE speer.sig.st = "remote" /\ speer.sig.id = y
  <2>1. speer.sig = [st |-> "remote", id |-> y]
    BY Zenon DEF AnswerInv
  <2> QED BY <2>1
<1>n. speer.sig.st # "remote" => Keys(handlers, Answering) = {}
  BY <1>m, Zenon
<1>h. ASSUME NEW i \in DOMAIN handlers PROVE handlers[i] \in Handlers
  BY <1>s
<1>1. CASE ClientNext \/ GiveUp
  BY <1>1, <1>l, ClientSteps, Zenon
<1>2. CASE ServerReceives
  <2>1. speer'.sig = speer.sig
    BY <1>2, <1>s, Zenon DEF ServerReceives, OnServerCandidate, ServerPeers
  <2>2. PICK m \in ServerFrames : m = Head(toServer)
    BY <1>2, <1>s, Tailed, Zenon DEF ServerReceives
  <2>3. CASE m.t = "sdp" /\ handlers' = Append(handlers, [m |-> m, at |-> "try"])
    <3>1. PICK x : x = [m |-> m, at |-> "try"]
      BY Zenon
    <3>2. x \in Handlers
      BY <2>3, <3>1, Kinds, Zenon DEF Handlers, OfferHandlers, AnswerHandlers
    <3>3. ~Has(Answering, x)
      BY <3>1, <3>2, HandlerKeys, Zenon
    <3>4. /\ Keys(handlers', Answering) = Keys(handlers, Answering)
          /\ Keyed(handlers, Answering) => Keyed(handlers', Answering)
      BY <1>s, <2>3, <3>1, <3>2, <3>3, Appended
    <3> QED BY <1>k, <2>1, <3>4, Zenon DEF AnswerInv
  <2> QED BY <1>2, <1>l, <2>1, <2>2, <2>3, Zenon DEF ServerReceives, OnServerCandidate
<1>3. CASE CandidateLocked \/ CallbackTry \/ CallbackUnlock \/ ServerCandidate
  BY <1>3, <1>l, <1>s, Zenon DEF CandidateLocked, CallbackTry, CallbackUnlock, ServerCandidate, ServerPeers
<1>4. ASSUME NEW r \in reqs, Serve(r) PROVE AnswerInv'
  BY <1>4, <1>l, Zenon DEF Serve
<1>5. ASSUME NEW s \in Subs, Accept(s) PROVE AnswerInv'
  BY <1>5, <1>l, <1>s, Zenon DEF Accept, ServerPeers
<1>6. ASSUME NEW n \in negs, Tell(n) \/ StartLock(n) \/ StartOffer(n) \/ StartSend(n) PROVE AnswerInv'
  BY <1>6, <1>l, <1>s DEF Tell, StartLock, StartOffer, StartSend, ServerPeers, Stable
<1>7. ASSUME NEW p \in Pubs, OnTrack(p) PROVE AnswerInv'
  BY <1>7, <1>l, Zenon DEF OnTrack
<1>8. ASSUME NEW i \in DOMAIN handlers, SdpTry(i) PROVE AnswerInv'
  <2>1. [handlers[i] EXCEPT !.at = "remote"] \in Handlers
    BY <1>h, Goes, Zenon
  <2>2. PICK x \in Handlers : Puts(handlers', handlers, i, x) /\ x.at = "remote"
    BY <1>8, <2>1, HandlerMoves, Zenon DEF SdpTry
  <2>3. ~Has(Answering, x)
    BY <2>2, HandlerKeys, Zenon
  <2>4. Keys(handlers', Answering) \subseteq Keys(handlers, Answering) /\ Keyed(handlers', Answering)
    BY <2>2, <2>3, HandlerGoes, Zenon DEF AnswerInv
  <2>5. speer'.sig = speer.sig
    BY <1>8, <1>s, Zenon DEF SdpTry, ServerPeers
  <2> QED BY <1>k, <2>4, <2>5, Zenon
<1>9. ASSUME NEW i \in DOMAIN handlers, SdpRemote(i) PROVE AnswerInv'
  <2>1. CASE Refused(i)
    BY <1>k, <2>1, HandlerEnds, Zenon DEF AnswerInv, Refused
  <2>2. ASSUME NEW x \in Handlers, Accepted(i, x) PROVE AnswerInv'
    <3>1. Puts(handlers', handlers, i, x) /\ x.at = "cands" /\ x.m.type \in {"offer", "answer"}
      BY <2>2, Goes, Zenon DEF Accepted
    <3>2. Keys(handlers, Answering) = {}
      BY <1>n, <2>2, Zenon DEF Accepted
    <3>3. CASE x.m.type = "offer"
      <4>1. Has(Answering, x) /\ Key(Answering, x) = x.m.id
        BY <3>1, <3>3, HandlerKeys, Zenon
      <4>2. Keys(handlers', Answering) = {x.m.id} /\ Keyed(handlers', Answering)
        BY <3>1, <3>2, <4>1, HandlerGoes, Zenon
      <4>3. speer'.sig = [st |-> "remote", id |-> x.m.id]
        BY <2>2, <3>3, Zenon DEF Accepted
      <4> QED BY <4>2, <4>3, Zenon DEF AnswerInv, Answering
    <3>4. CASE x.m.type = "answer"
      <4>1. ~Has(Answering, x)
        BY <3>1, <3>4, HandlerKeys, Zenon
      <4>2. Keys(handlers', Answering) \subseteq Keys(handlers, Answering) /\ Keyed(handlers', Answering)
        BY <3>1, <4>1, HandlerGoes, Zenon DEF AnswerInv
      <4> QED BY <1>k, <3>2, <4>2, Zenon
    <3> QED BY <3>1, <3>3, <3>4, Zenon
  <2> QED BY <1>9, <2>1, <2>2, RemoteSteps, Zenon
<1>10. ASSUME NEW i \in DOMAIN handlers, SdpCandidates(i) PROVE AnswerInv'
  <2>1. speer'.sig = speer.sig
    BY <1>10, <1>s, Zenon DEF SdpCandidates, ServerPeers
  <2>2. CASE handlers' = RemoveAt(handlers, i)
    BY <1>k, <2>1, <2>2, HandlerEnds, Zenon DEF AnswerInv
  <2>3. CASE handlers[i].m.type # "answer" /\ handlers' = [handlers EXCEPT ![i].at = "answer"]
    <3>1. PICK h \in Handlers : h = handlers[i]
      BY <1>h, Zenon
    <3>2. h.m.type = "offer" /\ h.at = "cands" /\ [h EXCEPT !.at = "answer"] \in Handlers
      BY <1>10, <2>3, <3>1, Goes, Zenon DEF SdpCandidates
    <3>3. PICK x \in Handlers : Puts(handlers', handlers, i, x) /\ x.at = "answer" /\ x.m = h.m
      BY <2>3, <3>1, <3>2, HandlerMoves, ZenonT(40)
    <3>4. Has(Answering, x) /\ Has(Answering, h) /\ Key(Answering, x) = Key(Answering, h)
      BY <3>2, <3>3, HandlerKeys, Zenon
    <3>5. Keys(handlers', Answering) \subseteq Keys(handlers, Answering) /\ Keyed(handlers', Answering)
      BY <3>1, <3>3, <3>4, HandlerGoes, ZenonT(40) DEF AnswerInv
    <3> QED BY <1>k, <2>1, <3>5, Zenon
  <2> QED BY <1>10, <2>2, <2>3, Zenon DEF SdpCandidates
<1>11. ASSUME NEW i \in DOMAIN handlers, SdpAnswer(i) PROVE AnswerInv'
  <2>1. PICK h \in Handlers : h = handlers[i]
    BY <1>h, Zenon
  <2>2. h.at = "answer" /\ h.m.type = "offer" /\ [h EXCEPT !.at = "send"] \in Handlers
    BY <1>11, <2>1, Goes, Zenon DEF SdpAnswer
  <2>3. PICK x \in Handlers : Puts(handlers', handlers, i, x) /\ x.at = "send"
    BY <1>11, <2>1, <2>2, HandlerMoves, ZenonT(40) DEF SdpAnswer
  <2>4. ~Has(Answering, x) /\ Has(Answering, h)
    BY <2>2, <2>3, HandlerKeys, Zenon
  <2>5. /\ Keys(handlers', Answering) \subseteq Keys(handlers, Answering) /\ Keyed(handlers', Answering)
        /\ Key(Answering, h) \notin Keys(handlers', Answering)
    BY <2>1, <2>3, <2>4, HandlerGoes, Zenon DEF AnswerInv
  <2>6. Key(Answering, h) \in Keys(handlers, Answering)
    BY <1>s, <2>1, <2>4 DEF Keys
  <2>7. \A y, z \in Keys(handlers, Answering) : y = z
    BY <1>m, Zenon
  <2> QED BY <1>k, <2>5, <2>6, <2>7, Zenon
<1>12. ASSUME NEW i \in DOMAIN handlers, SdpSend(i) PROVE AnswerInv'
  BY <1>12, <1>k, HandlerEnds, Zenon DEF SdpSend, AnswerInv
<1>13. CASE UNCHANGED vars
  BY <1>13, <1>l, Zenon DEF vars
<1> QED BY <1>1, <1>2, <1>3, <1>4, <1>5, <1>6, <1>7, <1>8, <1>9, <1>10, <1>11, <1>12, <1>13, Zenon
        DEF Next, ServerNext

\* Which frames carry an id of the server.
LEMMA FrameKeys ==
  /\ \A x : (Has(SubscribedId, x) <=> x \in Subscribeds) /\ (x \in Subscribeds => Key(SubscribedId, x) = x.id)
  /\ \A x : (Has(OfferId, x) <=> x \in ServerOffers) /\ (x \in ServerOffers => Key(OfferId, x) = x.id)
  /\ \A x : (Has(AnswerId, x) <=> x \in ClientAnswers) /\ (x \in ClientAnswers => Key(AnswerId, x) = x.id)
  /\ \A x \in Replies \union ServerAnswers \union Publisheds \union {Candidate} :
       x \notin Subscribeds /\ x \notin ServerOffers
  /\ \A x \in Subscribeds : x \notin ServerOffers
  /\ \A x \in ServerOffers : x \notin Subscribeds
  /\ \A x \in Requests \union ClientOffers \union {Candidate} : x \notin ClientAnswers
<1>1. \A x : (Has(SubscribedId, x) <=> x \in Subscribeds) /\ (x \in Subscribeds => Key(SubscribedId, x) = x.id)
  BY Zenon DEF Has, Key, SubscribedId
<1>2. \A x : (Has(OfferId, x) <=> x \in ServerOffers) /\ (x \in ServerOffers => Key(OfferId, x) = x.id)
  BY Zenon DEF Has, Key, OfferId
<1>3. \A x : (Has(AnswerId, x) <=> x \in ClientAnswers) /\ (x \in ClientAnswers => Key(AnswerId, x) = x.id)
  BY Zenon DEF Has, Key, AnswerId
<1>4. /\ \A x \in Replies \union ServerAnswers \union Publisheds \union {Candidate} :
           x \notin Subscribeds /\ x \notin ServerOffers
      /\ \A x \in Subscribeds : x \notin ServerOffers
      /\ \A x \in ServerOffers : x \notin Subscribeds
      /\ \A x \in Requests \union ClientOffers \union {Candidate} : x \notin ClientAnswers
  BY DEF Replies, ServerAnswers, Publisheds, Candidate, Subscribeds, ServerOffers, Requests,
         ClientOffers, ClientAnswers
<1> QED BY <1>1, <1>2, <1>3, <1>4, Zenon

\* The server sends a frame.
LEMMA ServerSends ==
  ASSUME StateInv, NEW x \in ClientFrames, toClient' = Append(toClient, x)
  PROVE  /\ x \notin Subscribeds =>
              /\ Keys(toClient', SubscribedId) = Keys(toClient, SubscribedId)
              /\ Keyed(toClient, SubscribedId) => Keyed(toClient', SubscribedId)
         /\ x \in Subscribeds =>
              /\ Keys(toClient', SubscribedId) = Keys(toClient, SubscribedId) \union {x.id}
              /\ Keyed(toClient, SubscribedId) /\ x.id \notin Keys(toClient, SubscribedId)
                   => Keyed(toClient', SubscribedId)
         /\ x \notin ServerOffers => Keys(toClient', OfferId) = Keys(toClient, OfferId)
         /\ x \in ServerOffers => Keys(toClient', OfferId) = Keys(toClient, OfferId) \union {x.id}
<1>1. toClient \in Seq(ClientFrames)
  BY Zenon DEF StateInv
<1>2. /\ \A f : Keys(toClient', f) = IF Has(f, x) THEN Keys(toClient, f) \union {Key(f, x)} ELSE Keys(toClient, f)
      /\ \A f : Keyed(toClient, f) /\ (Has(f, x) => Key(f, x) \notin Keys(toClient, f)) => Keyed(toClient', f)
  BY <1>1, Appended
<1> QED BY <1>2, FrameKeys, Zenon

\* The client sends a frame.
LEMMA ClientSends ==
  ASSUME StateInv, NEW x \in ServerFrames, toServer' = Append(toServer, x)
  PROVE  /\ x \notin ClientAnswers =>
              /\ Keys(toServer', AnswerId) = Keys(toServer, AnswerId)
              /\ Keyed(toServer, AnswerId) => Keyed(toServer', AnswerId)
         /\ x \in ClientAnswers =>
              /\ Keys(toServer', AnswerId) = Keys(toServer, AnswerId) \union {x.id}
              /\ Keyed(toServer, AnswerId) /\ x.id \notin Keys(toServer, AnswerId)
                   => Keyed(toServer', AnswerId)
<1>1. toServer \in Seq(ServerFrames)
  BY ZenonT(40) DEF StateInv
<1>2. /\ \A f : Keys(toServer', f) = IF Has(f, x) THEN Keys(toServer, f) \union {Key(f, x)} ELSE Keys(toServer, f)
      /\ \A f : Keyed(toServer, f) /\ (Has(f, x) => Key(f, x) \notin Keys(toServer, f)) => Keyed(toServer', f)
  BY <1>1, Appended
<1> QED BY <1>2, FrameKeys, Zenon

\* No id comes up from nowhere: every one stays, or goes, or one moves on to the next
\* place; and none is offered that was not.
Stays(P, Q) == \A k \in 1 .. 6 : Q[k] \subseteq P[k]
Moves(P, Q, j, l, y) ==
  /\ j \in 1 .. 6 /\ l \in 1 .. 6 /\ j # l
  /\ y \in P[j] /\ y \notin Q[j]
  /\ Q[l] \subseteq P[l] \union {y}
  /\ \A k \in 1 .. 6 : k # l => Q[k] \subseteq P[k]
Passes ==
  /\ OnceInv'
  /\ \A n \in negs' : \E o \in negs : n.id = o.id
  /\ Stays(Places, Places') \/ \E j, l, y : Moves(Places, Places', j, l, y)
  /\ Offered' \subseteq Offered

\* What is apart remains so, and nothing is new.
LEMMA Separate ==
  ASSUME NEW P, NEW Q, Apart(P), Stays(P, Q) \/ \E j, l, y : Moves(P, Q, j, l, y)
  PROVE  /\ Apart(Q)
         /\ \A k \in 1 .. 6 : \A y \in Q[k] : \E l \in 1 .. 6 : y \in P[l]
<1>1. CASE Stays(P, Q)
  BY <1>1, Zenon DEF Stays, Apart
<1>2. ASSUME NEW j, NEW l, NEW y, Moves(P, Q, j, l, y)
      PROVE  /\ Apart(Q)
             /\ \A k \in 1 .. 6 : \A z \in Q[k] : \E m \in 1 .. 6 : z \in P[m]
  <2>1. \A k \in 1 .. 6 : k # l => y \notin Q[k]
    BY <1>2, Zenon DEF Moves, Apart
  <2>2. \A k \in 1 .. 6 : \A z \in Q[k] : z # y => z \in P[k]
    BY <1>2, Zenon DEF Moves
  <2>3. Apart(Q)
    BY <2>1, <2>2 DEF Apart
  <2>4. \A k \in 1 .. 6 : \A z \in Q[k] : \E m \in 1 .. 6 : z \in P[m]
    BY <1>2, <2>2, Zenon DEF Moves
  <2> QED BY <2>3, <2>4, Zenon
<1> QED BY <1>1, <1>2, Zenon

\* The server's side stays as it is while ids are passed on.
LEMMA Passing ==
  ASSUME IdInv, PairInv, Passes, speer'.sdpMsgId = speer.sdpMsgId, speer'.sig = speer.sig,
         hist'.mispaired = hist.mispaired
  PROVE  IdInv' /\ PairInv'
<1>1. PICK P : P = Places
  BY Zenon
<1>2. PICK Q : Q = Places'
  BY Zenon
<1>3. /\ Apart(Q)
      /\ \A k \in 1 .. 6 : \A y \in Q[k] : \E l \in 1 .. 6 : y \in P[l]
  BY <1>1, <1>2, Separate, Zenon DEF IdInv, Passes
<1>4. IdInv'
  BY <1>1, <1>2, <1>3, Zenon DEF IdInv, Passes
<1>5. PairInv'
  BY <1>1, <1>2, <1>3, Zenon DEF PairInv, Passes, Paired
<1> QED BY <1>4, <1>5, Zenon

\* What a step that passes no id on leaves in each place.
NegsPass ==
  /\ Telling' \subseteq Telling /\ Sending' \subseteq Sending
  /\ \A n \in negs' : \E o \in negs : n.id = o.id
  /\ \A n, o \in negs' : n.id = o.id => n = o
ClientboundPass ==
  /\ Keys(toClient', SubscribedId) \subseteq Keys(toClient, SubscribedId)
  /\ Keyed(toClient', SubscribedId)
  /\ Keys(toClient', OfferId) \subseteq Keys(toClient, OfferId)
BufsPass ==
  /\ Keys(bufs'.sub, SubscribedId) \subseteq Keys(bufs.sub, SubscribedId)
  /\ Keyed(bufs'.sub, SubscribedId)
  /\ Keys(bufs'.sdp, OfferId) \subseteq Keys(bufs.sdp, OfferId)
TaskPass == Awaiting' \subseteq Awaiting /\ Taken' \subseteq Taken
ServerboundPass ==
  /\ Keys(toServer', AnswerId) \subseteq Keys(toServer, AnswerId)
  /\ Keyed(toServer', AnswerId)
HandlersPass ==
  /\ Keys(handlers', PendingId) \subseteq Keys(handlers, PendingId)
  /\ Keyed(handlers', PendingId)
PeerPass ==
  /\ speer'.sdpMsgId = speer.sdpMsgId /\ speer'.sig = speer.sig
  /\ hist'.mispaired = hist.mispaired

\* What is left alone passes.
LEMMA Unmoved ==
  ASSUME IdInv
  PROVE  /\ negs' = negs => NegsPass
         /\ toClient' = toClient => ClientboundPass
         /\ bufs' = bufs => BufsPass
         /\ client' = client => TaskPass
         /\ toServer' = toServer => ServerboundPass
         /\ handlers' = handlers => HandlersPass
<1>1. negs' = negs => NegsPass
  BY Zenon DEF IdInv, OnceInv, NegsPass, Telling, Sending
<1>2. toClient' = toClient => ClientboundPass
  BY Zenon DEF IdInv, OnceInv, ClientboundPass
<1>3. bufs' = bufs => BufsPass
  BY Zenon DEF IdInv, OnceInv, BufsPass
<1>4. client' = client => TaskPass
  BY Zenon DEF TaskPass, Awaiting, Taken
<1>5. toServer' = toServer => ServerboundPass
  BY Zenon DEF IdInv, OnceInv, ServerboundPass
<1>6. handlers' = handlers => HandlersPass
  BY Zenon DEF IdInv, OnceInv, HandlersPass
<1> QED BY <1>1, <1>2, <1>3, <1>4, <1>5, <1>6, Zenon

\* The six places by name.
LEMMA PlacesAre ==
  /\ \A k : k \in 1 .. 6 <=> k = 1 \/ k = 2 \/ k = 3 \/ k = 4 \/ k = 5 \/ k = 6
  /\ Places[1] = Telling /\ Places[2] = Keys(toClient, SubscribedId)
  /\ Places[3] = Keys(bufs.sub, SubscribedId) /\ Places[4] = Awaiting
  /\ Places[5] = Keys(toServer, AnswerId) /\ Places[6] = Keys(handlers, PendingId)
  /\ Places'[1] = Telling' /\ Places'[2] = Keys(toClient', SubscribedId)
  /\ Places'[3] = Keys(bufs'.sub, SubscribedId) /\ Places'[4] = Awaiting'
  /\ Places'[5] = Keys(toServer', AnswerId) /\ Places'[6] = Keys(handlers', PendingId)
<1>1. \A k : k \in 1 .. 6 <=> k = 1 \/ k = 2 \/ k = 3 \/ k = 4 \/ k = 5 \/ k = 6
  OBVIOUS
<1>2. /\ Places[1] = Telling /\ Places[2] = Keys(toClient, SubscribedId)
      /\ Places[3] = Keys(bufs.sub, SubscribedId) /\ Places[4] = Awaiting
      /\ Places[5] = Keys(toServer, AnswerId) /\ Places[6] = Keys(handlers, PendingId)
  BY Zenon DEF Places
<1>3. /\ Places'[1] = Telling' /\ Places'[2] = Keys(toClient', SubscribedId)
      /\ Places'[3] = Keys(bufs'.sub, SubscribedId) /\ Places'[4] = Awaiting'
      /\ Places'[5] = Keys(toServer', AnswerId) /\ Places'[6] = Keys(handlers', PendingId)
  BY Zenon DEF Places, SubscribedId, AnswerId, PendingId
<1> QED BY <1>1, <1>2, <1>3, Zenon

\* Nothing comes to the places other than l: place by place.
LEMMA Elsewhere ==
  ASSUME NEW l,
         l = 1 \/ Telling' \subseteq Telling,
         l = 2 \/ Keys(toClient', SubscribedId) \subseteq Keys(toClient, SubscribedId),
         l = 3 \/ Keys(bufs'.sub, SubscribedId) \subseteq Keys(bufs.sub, SubscribedId),
         l = 4 \/ Awaiting' \subseteq Awaiting,
         l = 5 \/ Keys(toServer', AnswerId) \subseteq Keys(toServer, AnswerId),
         l = 6 \/ Keys(handlers', PendingId) \subseteq Keys(handlers, PendingId)
  PROVE  \A k \in 1 .. 6 : k # l => Places'[k] \subseteq Places[k]
<1> SUFFICES ASSUME NEW k \in 1 .. 6, k # l PROVE Places'[k] \subseteq Places[k]
  BY Zenon
<1>1. CASE k = 1 BY <1>1, PlacesAre, Zenon
<1>2. CASE k = 2 BY <1>2, PlacesAre, Zenon
<1>3. CASE k = 3 BY <1>3, PlacesAre, Zenon
<1>4. CASE k = 4 BY <1>4, PlacesAre, Zenon
<1>5. CASE k = 5 BY <1>5, PlacesAre, Zenon
<1>6. CASE k = 6 BY <1>6, PlacesAre, Zenon
<1> QED BY <1>1, <1>2, <1>3, <1>4, <1>5, <1>6, PlacesAre, Zenon

\* Nothing comes to any place.
LEMMA Remain ==
  ASSUME Telling' \subseteq Telling,
         Keys(toClient', SubscribedId) \subseteq Keys(toClient, SubscribedId),
         Keys(bufs'.sub, SubscribedId) \subseteq Keys(bufs.sub, SubscribedId),
         Awaiting' \subseteq Awaiting,
         Keys(toServer', AnswerId) \subseteq Keys(toServer, AnswerId),
         Keys(handlers', PendingId) \subseteq Keys(handlers, PendingId)
  PROVE  Stays(Places, Places')
<1> SUFFICES ASSUME NEW k \in 1 .. 6 PROVE Places'[k] \subseteq Places[k]
  BY Zenon DEF Stays
<1>1. CASE k = 1 BY <1>1, PlacesAre, Zenon
<1>2. CASE k = 2 BY <1>2, PlacesAre, Zenon
<1>3. CASE k = 3 BY <1>3, PlacesAre, Zenon
<1>4. CASE k = 4 BY <1>4, PlacesAre, Zenon
<1>5. CASE k = 5 BY <1>5, PlacesAre, Zenon
<1>6. CASE k = 6 BY <1>6, PlacesAre, Zenon
<1> QED BY <1>1, <1>2, <1>3, <1>4, <1>5, <1>6, PlacesAre, Zenon

\* The id goes from the goroutine that tells it to the frames to the client.
LEMMA Told ==
  ASSUME NEW y, y \in Telling, y \notin Telling', Keys(toClient', SubscribedId) \subseteq Keys(toClient, SubscribedId) \union {y},
         Telling' \subseteq Telling,
         Keys(bufs'.sub, SubscribedId) \subseteq Keys(bufs.sub, SubscribedId),
         Awaiting' \subseteq Awaiting,
         Keys(toServer', AnswerId) \subseteq Keys(toServer, AnswerId),
         Keys(handlers', PendingId) \subseteq Keys(handlers, PendingId)
  PROVE  Moves(Places, Places', 1, 2, y)
<1>1. \A k \in 1 .. 6 : k # 2 => Places'[k] \subseteq Places[k]
  BY Elsewhere
<1>2. 1 \in 1 .. 6 /\ 2 \in 1 .. 6 /\ 1 # 2
  OBVIOUS
<1>3. y \in Places[1] /\ y \notin Places'[1] /\ Places'[2] \subseteq Places[2] \union {y}
  BY PlacesAre, Zenon
<1> QED BY <1>1, <1>2, <1>3, Zenon DEF Moves

\* It goes on to the buffer of the "subscribed" messages.
LEMMA Reaches ==
  ASSUME NEW y, y \in Keys(toClient, SubscribedId), y \notin Keys(toClient', SubscribedId), Keys(bufs'.sub, SubscribedId) \subseteq Keys(bufs.sub, SubscribedId) \union {y},
         Telling' \subseteq Telling,
         Keys(toClient', SubscribedId) \subseteq Keys(toClient, SubscribedId),
         Awaiting' \subseteq Awaiting,
         Keys(toServer', AnswerId) \subseteq Keys(toServer, AnswerId),
         Keys(handlers', PendingId) \subseteq Keys(handlers, PendingId)
  PROVE  Moves(Places, Places', 2, 3, y)
<1>1. \A k \in 1 .. 6 : k # 3 => Places'[k] \subseteq Places[k]
  BY Elsewhere
<1>2. 2 \in 1 .. 6 /\ 3 \in 1 .. 6 /\ 2 # 3
  OBVIOUS
<1>3. y \in Places[2] /\ y \notin Places'[2] /\ Places'[3] \subseteq Places[3] \union {y}
  BY PlacesAre, Zenon
<1> QED BY <1>1, <1>2, <1>3, Zenon DEF Moves

\* It goes on to the subscription that awaits the offer.
LEMMA TakenUp ==
  ASSUME NEW y, y \in Keys(bufs.sub, SubscribedId), y \notin Keys(bufs'.sub, SubscribedId), Awaiting' \subseteq Awaiting \union {y},
         Telling' \subseteq Telling,
         Keys(toClient', SubscribedId) \subseteq Keys(toClient, SubscribedId),
         Keys(bufs'.sub, SubscribedId) \subseteq Keys(bufs.sub, SubscribedId),
         Keys(toServer', AnswerId) \subseteq Keys(toServer, AnswerId),
         Keys(handlers', PendingId) \subseteq Keys(handlers, PendingId)
  PROVE  Moves(Places, Places', 3, 4, y)
<1>1. \A k \in 1 .. 6 : k # 4 => Places'[k] \subseteq Places[k]
  BY Elsewhere
<1>2. 3 \in 1 .. 6 /\ 4 \in 1 .. 6 /\ 3 # 4
  OBVIOUS
<1>3. y \in Places[3] /\ y \notin Places'[3] /\ Places'[4] \subseteq Places[4] \union {y}
  BY PlacesAre, Zenon
<1> QED BY <1>1, <1>2, <1>3, Zenon DEF Moves

\* It goes on to the answers on their way to the server.
LEMMA Replied ==
  ASSUME NEW y, y \in Awaiting, y \notin Awaiting', Keys(toServer', AnswerId) \subseteq Keys(toServer, AnswerId) \union {y},
         Telling' \subseteq Telling,
         Keys(toClient', SubscribedId) \subseteq Keys(toClient, SubscribedId),
         Keys(bufs'.sub, SubscribedId) \subseteq Keys(bufs.sub, SubscribedId),
         Awaiting' \subseteq Awaiting,
         Keys(handlers', PendingId) \subseteq Keys(handlers, PendingId)
  PROVE  Moves(Places, Places', 4, 5, y)
<1>1. \A k \in 1 .. 6 : k # 5 => Places'[k] \subseteq Places[k]
  BY Elsewhere
<1>2. 4 \in 1 .. 6 /\ 5 \in 1 .. 6 /\ 4 # 5
  OBVIOUS
<1>3. y \in Places[4] /\ y \notin Places'[4] /\ Places'[5] \subseteq Places[5] \union {y}
  BY PlacesAre, Zenon
<1> QED BY <1>1, <1>2, <1>3, Zenon DEF Moves

\* It goes on to the handler of the answer.
LEMMA Handled ==
  ASSUME NEW y, y \in Keys(toServer, AnswerId), y \notin Keys(toServer', AnswerId), Keys(handlers', PendingId) \subseteq Keys(handlers, PendingId) \union {y},
         Telling' \subseteq Telling,
         Keys(toClient', SubscribedId) \subseteq Keys(toClient, SubscribedId),
         Keys(bufs'.sub, SubscribedId) \subseteq Keys(bufs.sub, SubscribedId),
         Awaiting' \subseteq Awaiting,
         Keys(toServer', AnswerId) \subseteq Keys(toServer, AnswerId)
  PROVE  Moves(Places, Places', 5, 6, y)
<1>1. \A k \in 1 .. 6 : k # 6 => Places'[k] \subseteq Places[k]
  BY Elsewhere
<1>2. 5 \in 1 .. 6 /\ 6 \in 1 .. 6 /\ 5 # 6
  OBVIOUS
<1>3. y \in Places[5] /\ y \notin Places'[5] /\ Places'[6] \subseteq Places[6] \union {y}
  BY PlacesAre, Zenon
<1> QED BY <1>1, <1>2, <1>3, Zenon DEF Moves

\* An id that is in one place is in no other.
LEMMA InOnePlace ==
  ASSUME IdInv, NEW j \in 1 .. 6, NEW y \in Places[j]
  PROVE  \A k \in 1 .. 6 : k # j => y \notin Places[k]
BY Zenon DEF IdInv, Apart

\* An id has not reached the next place yet.
LEMMA NotYet ==
  ASSUME IdInv, NEW y
  PROVE  /\ y \in Telling => y \notin Keys(toClient, SubscribedId)
         /\ y \in Keys(toClient, SubscribedId) => y \notin Keys(bufs.sub, SubscribedId)
         /\ y \in Awaiting => y \notin Keys(toServer, AnswerId)
         /\ y \in Keys(toServer, AnswerId) => y \notin Keys(handlers, PendingId)
<1>1. ASSUME y \in Telling PROVE y \notin Keys(toClient, SubscribedId)
  <2>1. y \in Places[1]
    BY <1>1, PlacesAre, Zenon
  <2>2. 1 \in 1 .. 6 /\ 2 \in 1 .. 6 /\ 2 # 1
    OBVIOUS
  <2>3. y \notin Places[2]
    BY <2>1, <2>2, InOnePlace, Zenon
  <2> QED BY <2>3, PlacesAre, Zenon
<1>2. ASSUME y \in Keys(toClient, SubscribedId) PROVE y \notin Keys(bufs.sub, SubscribedId)
  <2>1. y \in Places[2]
    BY <1>2, PlacesAre, Zenon
  <2>2. 2 \in 1 .. 6 /\ 3 \in 1 .. 6 /\ 3 # 2
    OBVIOUS
  <2>3. y \notin Places[3]
    BY <2>1, <2>2, InOnePlace, Zenon
  <2> QED BY <2>3, PlacesAre, Zenon
<1>3. ASSUME y \in Awaiting PROVE y \notin Keys(toServer, AnswerId)
  <2>1. y \in Places[4]
    BY <1>3, PlacesAre, Zenon
  <2>2. 4 \in 1 .. 6 /\ 5 \in 1 .. 6 /\ 5 # 4
    OBVIOUS
  <2>3. y \notin Places[5]
    BY <2>1, <2>2, InOnePlace, Zenon
  <2> QED BY <2>3, PlacesAre, Zenon
<1>4. ASSUME y \in Keys(toServer, AnswerId) PROVE y \notin Keys(handlers, PendingId)
  <2>1. y \in Places[5]
    BY <1>4, PlacesAre, Zenon
  <2>2. 5 \in 1 .. 6 /\ 6 \in 1 .. 6 /\ 6 # 5
    OBVIOUS
  <2>3. y \notin Places[6]
    BY <2>1, <2>2, InOnePlace, Zenon
  <2> QED BY <2>3, PlacesAre, Zenon
<1> QED BY <1>1, <1>2, <1>3, <1>4, Zenon

\* A step that passes no id on.
LEMMA Quiet ==
  ASSUME IdInv, PairInv, NegsPass, ClientboundPass, BufsPass, TaskPass, ServerboundPass, HandlersPass
  PROVE  Passes /\ (PeerPass => IdInv' /\ PairInv')
<1>1. Stays(Places, Places')
  BY Remain, Zenon DEF NegsPass, ClientboundPass, BufsPass, TaskPass, ServerboundPass, HandlersPass
<1>2. Offered' \subseteq Offered
  BY Zenon DEF Offered, NegsPass, ClientboundPass, BufsPass, TaskPass, ServerboundPass, HandlersPass
<1>3. OnceInv'
  BY Zenon DEF OnceInv, NegsPass, ClientboundPass, BufsPass, ServerboundPass, HandlersPass
<1>4. Passes
  BY <1>1, <1>2, <1>3 DEF Passes, NegsPass
<1> QED BY <1>4, Passing, Zenon DEF PeerPass

\* What the client does keeps every id in one place, and each description meets its
\* counterpart.
LEMMA ClientPairs ==
  ASSUME StateInv, IdInv, PairInv, ClientNext \/ GiveUp
  PROVE  IdInv' /\ PairInv'
<1>s. /\ client \in Clients /\ bufs \in Buffers /\ hist \in Histories /\ cpeer \in ClientPeers
      /\ toServer \in Seq(ServerFrames) /\ toClient \in Seq(ClientFrames)
  BY Zenon DEF StateInv
<1>t. ASSUME client'.at \notin {"setup", "cands", "reply"} PROVE TaskPass /\ Awaiting' = {} /\ Taken' = {}
  BY <1>t, Zenon DEF TaskPass, Awaiting, Taken
<1>r. ASSUME NEW x \in ServerFrames, x \notin ClientAnswers, toServer' = Append(toServer, x)
      PROVE  ServerboundPass
  BY <1>r, ClientSends, Zenon DEF ServerboundPass, IdInv, OnceInv
<1>b. ASSUME bufs'.sub = bufs.sub \/ bufs'.sub = <<>>, bufs'.sdp = bufs.sdp \/ bufs'.sdp = <<>>
      PROVE  BufsPass
  <2>1. \A f : Keys(<<>>, f) = {} /\ Keyed(<<>>, f)
    BY DEF Keys, Keyed
  <2> QED BY <1>b, <2>1, Zenon DEF BufsPass, IdInv, OnceInv
<1>h. ASSUME UNCHANGED server PROVE NegsPass /\ HandlersPass /\ speer' = speer
  BY <1>h, Unmoved, Zenon DEF server
<1>o. \A x \in Requests \union ClientOffers \union {Candidate} : x \in ServerFrames /\ x \notin ClientAnswers
  BY FrameKeys, Zenon DEF ServerFrames
<1>1. ASSUME NEW p \in Pubs, PublishStart(p) PROVE IdInv' /\ PairInv'
  <2>1. client'.at = "ack"
    BY <1>1, <1>s, Zenon DEF PublishStart, Clients
  <2>2. ServerboundPass
    BY <1>1, <1>r, <1>o, Frames, Zenon DEF PublishStart, Tasks
  <2>3. NegsPass /\ HandlersPass /\ ClientboundPass /\ BufsPass /\ PeerPass
    BY <1>1, <1>h, Unmoved, Zenon DEF PublishStart, PeerPass
  <2> QED BY <1>t, <2>1, <2>2, <2>3, Quiet, Zenon
<1>2. ASSUME NEW s \in Subs, SubscribeStart(s) PROVE IdInv' /\ PairInv'
  <2>1. client'.at = "ack" /\ bufs'.sub = bufs.sub /\ bufs'.sdp = bufs.sdp
    BY <1>2, <1>s, Zenon DEF SubscribeStart, Clients, Buffers
  <2>2. ServerboundPass
    BY <1>2, <1>r, <1>o, Frames, Zenon DEF SubscribeStart, Tasks
  <2>3. NegsPass /\ HandlersPass /\ ClientboundPass /\ PeerPass
    BY <1>2, <1>h, Unmoved, Zenon DEF SubscribeStart, PeerPass
  <2> QED BY <1>b, <1>t, <2>1, <2>2, <2>3, Quiet, Zenon
<1>3. CASE Offer
  <2>1. client'.at = "answer" /\ bufs'.sub = bufs.sub /\ bufs'.sdp = bufs.sdp
    BY <1>3, <1>s, Zenon DEF Offer, Clients, Buffers
  <2>2. ServerboundPass
    <3>1. nextSdpMsgId(client.sdpId) \in Odds /\ cpeer.senders \in SUBSET Pubs
      BY <1>s, Parity, Zenon DEF nextSdpMsgId, Clients, ClientPeers
    <3> QED BY <1>3, <1>r, <1>o, <3>1, Frames, Zenon DEF Offer
  <2>3. NegsPass /\ HandlersPass /\ ClientboundPass /\ PeerPass
    BY <1>3, <1>h, Unmoved, Zenon DEF Offer, PeerPass
  <2> QED BY <1>b, <1>t, <2>1, <2>2, <2>3, Quiet, Zenon
<1>4. CASE DrainCandidates
  <2>1. /\ client'.task = client.task /\ client'.await = client.await
        /\ client.at = "cands" /\ client'.at \in {"published", "reply"}
    BY <1>4, <1>s, Zenon DEF DrainCandidates, Clients
  <2>2. TaskPass
    BY <2>1, Zenon DEF TaskPass, Awaiting, Taken
  <2>3. NegsPass /\ HandlersPass /\ ClientboundPass /\ ServerboundPass /\ BufsPass /\ PeerPass
    BY <1>4, <1>h, Unmoved, Zenon DEF DrainCandidates, PeerPass, net
  <2> QED BY <2>2, <2>3, Quiet, Zenon
<1>5. CASE PublishEnd
  <2>1. client'.at = "idle" /\ bufs'.sub = <<>> /\ bufs'.sdp = <<>>
    BY <1>5, <1>s, Zenon DEF PublishEnd, Over, Clients
  <2>2. NegsPass /\ HandlersPass /\ ClientboundPass /\ ServerboundPass /\ PeerPass
    BY <1>5, <1>h, Unmoved, Zenon DEF PublishEnd, PeerPass, net
  <2> QED BY <1>b, <1>t, <2>1, <2>2, Quiet, Zenon
<1>6. CASE ClientCandidate
  <2>1. ServerboundPass
    BY <1>6, <1>r, <1>o, Zenon DEF ClientCandidate
  <2>2. NegsPass /\ HandlersPass /\ ClientboundPass /\ BufsPass /\ TaskPass /\ PeerPass
    BY <1>6, <1>h, Unmoved, Zenon DEF ClientCandidate, PeerPass
  <2> QED BY <2>1, <2>2, Quiet, Zenon
<1>7. CASE GiveUp
  <2>1. UNCHANGED server /\ toClient' = toClient
    BY <1>7, Zenon DEF GiveUp
  <2>2. hist'.mispaired = hist.mispaired
    BY <1>7, <1>s, Zenon DEF GiveUp, Histories
  <2>3. /\ client'.at \in {"idle", "clean"}
        /\ bufs'.sub = <<>> /\ bufs'.sdp = <<>>
    <3>1. CASE Over(client.done)
      BY <1>s, <3>1, Zenon DEF Over, Clients
    <3>2. CASE /\ client' = [client EXCEPT !.at = "clean"]
               /\ bufs' = [bufs EXCEPT !.sdpOn = FALSE, !.sdp = <<>>, !.sub = <<>>]
      BY <1>s, <3>2, Zenon DEF Clients, Buffers
    <3> QED BY <1>7, <3>1, <3>2, Zenon DEF GiveUp
  <2>4. toServer' = toServer \/ toServer' = Append(toServer, Request("remove", client.task))
    BY <1>7, Zenon DEF GiveUp
  <2>5. client.at \in {"answer", "published", "subscribed", "setup", "ack"}
    BY <1>7, Zenon DEF GiveUp
  <2>6. client.task \in Tasks
    BY <2>5 DEF StateInv, Tasks
  <2>7. ServerboundPass
    BY <1>r, <1>o, <2>4, <2>6, Frames, Unmoved, Zenon
  <2>8. NegsPass /\ HandlersPass /\ ClientboundPass /\ PeerPass
    BY <1>h, <2>1, <2>2, Unmoved, Zenon DEF PeerPass
  <2> QED BY <1>b, <1>t, <2>3, <2>7, <2>8, Quiet, Zenon
<1>8. CASE Reply
  <2>1. client.at = "reply" /\ client.task \in Subs /\ client.await \in Evens
    BY <1>8, Zenon DEF Reply, StateInv
  <2>2. Awaiting = {client.await} /\ Taken = {client.await}
    BY <2>1, Zenon DEF Awaiting, Taken
  <2>3. client'.at = "idle" /\ bufs'.sub = <<>> /\ bufs'.sdp = <<>>
    BY <1>8, <1>s, Zenon DEF Reply, Over, Clients
  <2>4. Awaiting' = {} /\ Taken' = {} /\ BufsPass
    BY <1>b, <1>t, <2>3, Zenon
  <2>5. NegsPass /\ HandlersPass /\ ClientboundPass /\ PeerPass
    BY <1>8, <1>h, Unmoved, Zenon DEF Reply, PeerPass
  <2>6. PICK x : x = Sdp("answer", client.await, cpeer.senders)
    BY Zenon
  <2>7. x \in ClientAnswers /\ x \in ServerFrames /\ x.id = client.await
    BY <1>s, <2>1, <2>6, Frames, Zenon DEF ClientPeers, ServerFrames, Sdp
  <2>8. toServer' = Append(toServer, x)
    BY <1>8, <2>6, Zenon DEF Reply
  <2>9. client.await \notin Keys(toServer, AnswerId)
    BY <2>2, NotYet, Zenon
  <2>10. /\ Keys(toServer', AnswerId) = Keys(toServer, AnswerId) \union {client.await}
         /\ Keyed(toServer', AnswerId)
    BY <2>7, <2>8, <2>9, ClientSends, Zenon DEF IdInv, OnceInv
  <2>11. Moves(Places, Places', 4, 5, client.await)
    <3>1. client.await \in Awaiting /\ client.await \notin Awaiting' /\ Awaiting' \subseteq Awaiting
      BY <2>2, <2>4, Zenon
    <3> QED BY <2>4, <2>5, <2>10, <3>1, Replied, Zenon DEF NegsPass, HandlersPass, ClientboundPass, BufsPass
  <2>12. Offered' \subseteq Offered
    BY <2>2, <2>4, <2>5, <2>10, Zenon DEF Offered, NegsPass, HandlersPass, ClientboundPass, BufsPass
  <2>13. OnceInv'
    BY <2>4, <2>5, <2>10, ZenonT(40) DEF OnceInv, NegsPass, HandlersPass, ClientboundPass, BufsPass
  <2>14. Passes
    BY <2>5, <2>11, <2>12, <2>13, Zenon DEF Passes, NegsPass
  <2> QED BY <2>5, <2>14, Passing, Zenon DEF PeerPass
<1>9. CASE TakeSubscribed
  <2>1. PICK m \in Subscribeds : m = Head(bufs.sub)
    BY <1>9, <1>s, Tailed, Zenon DEF TakeSubscribed, Buffers
  <2>2. /\ Keys(bufs'.sub, SubscribedId) \subseteq Keys(bufs.sub, SubscribedId)
        /\ Keyed(bufs'.sub, SubscribedId)
        /\ m.id \in Keys(bufs.sub, SubscribedId) /\ m.id \notin Keys(bufs'.sub, SubscribedId)
        /\ bufs'.sdp = bufs.sdp
    <3>1. bufs.sub \in Seq(Subscribeds) /\ bufs.sub # <<>>
      BY <1>9, <1>s, Zenon DEF TakeSubscribed, Buffers
    <3>2. bufs'.sub = Tail(bufs.sub) /\ bufs'.sdp = bufs.sdp
      BY <1>9, <1>s, Zenon DEF TakeSubscribed, Buffers
    <3>3. Has(SubscribedId, m) /\ Key(SubscribedId, m) = m.id
      BY FrameKeys, Zenon
    <3>4. Keyed(bufs.sub, SubscribedId)
      BY Zenon DEF IdInv, OnceInv
    <3>5. /\ \A f : Keys(Tail(bufs.sub), f) \subseteq Keys(bufs.sub, f)
          /\ \A f : Keyed(bufs.sub, f) => Keyed(Tail(bufs.sub), f)
          /\ \A f : Has(f, m) => Key(f, m) \in Keys(bufs.sub, f)
          /\ \A f : Keyed(bufs.sub, f) /\ Has(f, m) => Key(f, m) \notin Keys(Tail(bufs.sub), f)
      BY <2>1, <3>1, Tailed, Zenon
    <3> QED BY <3>2, <3>3, <3>4, <3>5, Zenon
  <2>3. BufsPass
    BY <2>2, Zenon DEF BufsPass
  <2>4. NegsPass /\ HandlersPass /\ ClientboundPass /\ ServerboundPass /\ PeerPass
    BY <1>9, <1>h, Unmoved, Zenon DEF TakeSubscribed, PeerPass, net
  <2>5. CASE client' = client
    BY <2>3, <2>4, <2>5, Quiet, Unmoved, Zenon
  <2>6. CASE client' = [client EXCEPT !.at = "setup", !.await = m.id]
    <3>1. client'.at = "setup" /\ client'.await = m.id /\ client.at = "subscribed"
      BY <1>9, <1>s, <2>6, Zenon DEF Clients, TakeSubscribed
    <3>2. Awaiting' \subseteq {m.id} /\ Taken' = {}
      BY <3>1, Zenon DEF Awaiting, Taken
    <3>3. Moves(Places, Places', 3, 4, m.id)
      BY <2>2, <2>3, <2>4, <3>2, TakenUp, Zenon
         DEF NegsPass, HandlersPass, ClientboundPass, ServerboundPass, BufsPass
    <3>4. Offered' \subseteq Offered
      BY <2>2, <2>3, <2>4, <3>2, Zenon DEF Offered, NegsPass, HandlersPass, ClientboundPass, ServerboundPass
    <3>5. OnceInv'
      BY <2>3, <2>4, ZenonT(40) DEF OnceInv, NegsPass, HandlersPass, ClientboundPass, ServerboundPass, BufsPass
    <3>6. Passes
      BY <2>4, <3>3, <3>4, <3>5, Zenon DEF Passes, NegsPass
    <3> QED BY <2>4, <3>6, Passing, Zenon DEF PeerPass
  <2> QED BY <1>9, <2>1, <2>5, <2>6 DEF TakeSubscribed
<1>10. CASE TakeSdp
  <2>s. bufs.sdp \in Seq(ServerOffers \union ServerAnswers) /\ bufs.sdp # <<>>
    BY <1>10, <1>s, Zenon DEF TakeSdp, Buffers
  <2>1. PICK m \in ServerOffers \union ServerAnswers : m = Head(bufs.sdp)
    BY <2>s, Tailed, Zenon
  <2>2. bufs'.sdp = Tail(bufs.sdp) /\ bufs'.sub = bufs.sub
    BY <1>10, <1>s DEF TakeSdp, Buffers
  <2>3. /\ \A f : Keys(Tail(bufs.sdp), f) \subseteq Keys(bufs.sdp, f)
        /\ \A f : Has(f, m) => Key(f, m) \in Keys(bufs.sdp, f)
    BY <2>1, <2>s, Tailed, Zenon
  <2>4. BufsPass
    BY <2>2, <2>3, Zenon DEF BufsPass, IdInv, OnceInv
  <2>5. NegsPass /\ HandlersPass /\ ClientboundPass /\ ServerboundPass /\ speer' = speer
    BY <1>10, <1>h, Unmoved, Zenon DEF TakeSdp, net
  <2>6. hist.mispaired = FALSE
    BY <1>s, Zenon DEF PairInv, Paired, Histories
  <2>7. CASE UNCHANGED <<client, cpeer, hist>>
    BY <2>4, <2>5, <2>7, Quiet, Unmoved, Zenon DEF PeerPass
  <2>8. CASE client.at = "answer" /\ m.id = client.await /\ client' = [client EXCEPT !.at = "cands"]
             /\ SetAnswer(m)
    <3>1. client'.task = client.task /\ client.task \notin Subs
      BY <1>s, <2>8, NegotiationAssumption, Zenon DEF Clients, StateInv
    <3>2. TaskPass
      BY <3>1, Zenon DEF TaskPass, Awaiting, Taken
    <3>3. m.type = "answer"
      BY <2>8, Parity, Zenon DEF StateInv, ServerOffers, ServerAnswers
    <3>4. cpeer.sig = [st |-> "local", id |-> client.await]
      BY <2>8, Zenon DEF StateInv
    <3>5. cpeer.sig.st = "local" /\ cpeer.sig.id = m.id
      BY <2>8, <3>4
    <3>6. hist'.mispaired = FALSE
      BY <1>s, <2>6, <2>8, <3>3, <3>5 DEF SetAnswer, Histories
    <3> QED BY <2>4, <2>5, <2>6, <3>2, <3>6, Quiet, Zenon DEF PeerPass
  <2>9. CASE client.at = "setup" /\ m.id = client.await /\ client' = [client EXCEPT !.at = "cands"]
             /\ SetOffer(m)
    <3>1. client'.task = client.task /\ client'.await = client.await /\ client.task \in Subs
      BY <1>s, <2>9, Zenon DEF Clients, StateInv
    <3>2. Awaiting' \subseteq Awaiting /\ Taken' \subseteq {client.await}
      BY <2>9, <3>1, Zenon DEF Awaiting, Taken
    <3>3. client.await \in Evens
      BY <2>9, Zenon DEF StateInv
    <3>4. m \in ServerOffers
      BY <2>9, <3>3, Parity, Zenon DEF ServerAnswers
    <3>5. m.type = "offer"
      BY <3>4, Zenon DEF ServerOffers
    <3>6. client.await \in Keys(bufs.sdp, OfferId)
      BY <2>3, <2>9, <3>4, FrameKeys, Zenon
    <3>7. hist'.mispaired = FALSE
      BY <1>s, <2>6, <2>9, <3>5 DEF SetOffer, Histories
    <3>8. Stays(Places, Places')
      BY <2>4, <2>5, <3>2, Remain, Zenon
         DEF BufsPass, NegsPass, HandlersPass, ClientboundPass, ServerboundPass
    <3>9. Offered' \subseteq Offered
      BY <2>4, <2>5, <3>2, <3>6, ZenonT(40)
         DEF Offered, BufsPass, NegsPass, HandlersPass, ClientboundPass, ServerboundPass
    <3>10. OnceInv'
      BY <2>4, <2>5, Zenon DEF OnceInv, NegsPass, HandlersPass, ClientboundPass, ServerboundPass, BufsPass
    <3>11. Passes
      BY <2>5, <3>8, <3>9, <3>10, Zenon DEF Passes, NegsPass
    <3> QED BY <2>5, <2>6, <3>7, <3>11, Passing, Zenon
  <2> QED BY <1>10, <2>1, <2>7, <2>8, <2>9 DEF TakeSdp, Awaited
<1>11. CASE ClientReceives
  <2>1. PICK m \in ClientFrames : m = Head(toClient)
    BY <1>11, <1>s, Tailed, Zenon DEF ClientReceives
  <2>2. /\ \A f : Keys(toClient', f) \subseteq Keys(toClient, f)
        /\ \A f : Keyed(toClient, f) => Keyed(toClient', f)
        /\ \A f : Has(f, m) => Key(f, m) \in Keys(toClient, f)
        /\ \A f : Keyed(toClient, f) /\ Has(f, m) => Key(f, m) \notin Keys(toClient', f)
    <3>1. toClient # <<>> /\ toClient' = Tail(toClient)
      BY <1>11, Zenon DEF ClientReceives
    <3> QED BY <1>s, <2>1, <3>1, Tailed, Zenon
  <2>3. ClientboundPass
    BY <2>2, Zenon DEF ClientboundPass, IdInv, OnceInv
  <2>4. HandlersPass /\ ServerboundPass /\ PeerPass
    BY <1>11, Unmoved, Zenon DEF ClientReceives, PeerPass
  <2>5. CASE m.t = "reply" /\ OnReply(m.of)
    <3>1. client' = client \/ client'.at \notin {"setup", "cands", "reply"}
      BY <1>s, <2>5, Zenon DEF OnReply, Clients
    <3>2. TaskPass
      BY <1>t, <3>1, Unmoved, Zenon
    <3>3. NegsPass /\ BufsPass
      BY <2>5, Unmoved DEF OnReply
    <3> QED BY <2>3, <2>4, <3>2, <3>3, Quiet
  <2>6. CASE \/ m.t = "published" /\ OnPublished(m.of)
             \/ m.t = "candidate" /\ OnCandidate
    <3>1. bufs'.sub = bufs.sub /\ bufs'.sdp = bufs.sdp
      BY <1>s, <2>6, Zenon DEF OnPublished, OnCandidate, Buffers
    <3>2. NegsPass /\ TaskPass
      BY <2>6, Unmoved, Zenon DEF OnPublished, OnCandidate
    <3> QED BY <1>b, <2>3, <2>4, <3>1, <3>2, Quiet, Zenon
  <2>7. CASE m.t = "sdp" /\ OnSdp(m)
    <3>1. m \in ServerOffers \union ServerAnswers
      BY <2>7, Kinds, Zenon
    <3>2. NegsPass /\ TaskPass
      BY <2>7, Unmoved DEF OnSdp
    <3>3. CASE bufs' = bufs
      BY <2>3, <2>4, <3>2, <3>3, Quiet, Unmoved, Zenon
    <3>4. CASE bufs' = [bufs EXCEPT !.sdp = Append(@, m)]
      <4>1. bufs'.sub = bufs.sub /\ bufs'.sdp = Append(bufs.sdp, m)
        BY <1>s, <3>4, Zenon DEF Buffers
      <4>2. bufs.sdp \in Seq(ServerOffers \union ServerAnswers)
        BY <1>s, Zenon DEF Buffers
      <4>3. Keys(bufs'.sdp, OfferId) \subseteq Keys(bufs.sdp, OfferId) \union Keys(toClient, OfferId)
        <5>1. PICK S : S = ServerOffers \union ServerAnswers
          BY Zenon
        <5>2. PICK s : s = bufs.sdp
          BY Zenon
        <5>3. PICK r : r = bufs'.sdp
          BY Zenon
        <5>4. m \in S /\ s \in Seq(S) /\ r = Append(s, m)
          BY <3>1, <4>1, <4>2, <5>1, <5>2, <5>3, Zenon
        <5>5. \A f : Keys(r, f) = IF Has(f, m) THEN Keys(s, f) \union {Key(f, m)} ELSE Keys(s, f)
          BY <5>4, Appended
        <5> QED BY <2>2, <5>2, <5>3, <5>5, Zenon
      <4>4. /\ Keys(bufs'.sub, SubscribedId) \subseteq Keys(bufs.sub, SubscribedId)
            /\ Keyed(bufs'.sub, SubscribedId)
        BY <4>1, Zenon DEF IdInv, OnceInv
      <4>5. Stays(Places, Places')
        BY <2>3, <2>4, <3>2, <4>4, Remain, Zenon
           DEF NegsPass, TaskPass, HandlersPass, ClientboundPass, ServerboundPass
      <4>6. Offered' \subseteq Offered
        BY <2>3, <2>4, <3>2, <4>3, ZenonT(40)
           DEF Offered, NegsPass, TaskPass, HandlersPass, ClientboundPass, ServerboundPass
      <4>7. OnceInv'
        BY <2>3, <2>4, <3>2, <4>4, Zenon DEF OnceInv, NegsPass, HandlersPass, ClientboundPass, ServerboundPass
      <4>8. Passes
        BY <3>2, <4>5, <4>6, <4>7, Zenon DEF Passes, NegsPass
      <4> QED BY <2>4, <4>8, Passing, Zenon DEF PeerPass
    <3> QED BY <2>7, <3>3, <3>4, Zenon DEF OnSdp
  <2>8. CASE m.t = "subscribed" /\ OnSubscribed(m)
    <3>1. m \in Subscribeds
      BY <2>8, Kinds, Zenon
    <3>2. Has(SubscribedId, m) /\ Key(SubscribedId, m) = m.id
      BY <3>1, FrameKeys, Zenon
    <3>3. /\ m.id \in Keys(toClient, SubscribedId) /\ m.id \notin Keys(toClient', SubscribedId)
          /\ m.id \notin Keys(bufs.sub, SubscribedId)
      <4>1. m.id \in Keys(toClient, SubscribedId) /\ m.id \notin Keys(toClient', SubscribedId)
        BY <2>2, <3>2, Zenon DEF IdInv, OnceInv
      <4> QED BY <4>1, NotYet, Zenon
    <3>4. TaskPass
      BY <2>8, Unmoved, Zenon DEF OnSubscribed
    <3>5. NegsPass
      <4>1. negs' = {IF n.id = m.id THEN [n EXCEPT !.at = "lock"] ELSE n : n \in negs}
        BY <2>8, Zenon DEF OnSubscribed
      <4>2. \A n \in negs : [n EXCEPT !.at = "lock"].id = n.id /\ [n EXCEPT !.at = "lock"].at = "lock"
        BY Zenon DEF StateInv, Negs
      <4>3. ASSUME NEW x \in negs'
            PROVE  \E n \in negs : /\ x.id = n.id /\ (x = n \/ x.at = "lock")
                                   /\ x = IF n.id = m.id THEN [n EXCEPT !.at = "lock"] ELSE n
        BY <4>1, <4>2, Zenon
      <4>4. \A n \in negs' : \E o \in negs : n.id = o.id
        BY <4>3, Zenon
      <4>5. Telling' \subseteq Telling
        BY <4>3, Zenon DEF Telling
      <4>6. Sending' \subseteq Sending
        BY <4>3, Zenon DEF Sending
      <4>7. ASSUME NEW n \in negs', NEW o \in negs', n.id = o.id PROVE n = o
        <5>1. PICK a \in negs : n.id = a.id /\ n = IF a.id = m.id THEN [a EXCEPT !.at = "lock"] ELSE a
          BY <4>3, Zenon
        <5>2. PICK b \in negs : o.id = b.id /\ o = IF b.id = m.id THEN [b EXCEPT !.at = "lock"] ELSE b
          BY <4>3, Zenon
        <5>3. a = b
          BY <4>7, <5>1, <5>2, Zenon DEF IdInv, OnceInv
        <5> QED BY <5>1, <5>2, <5>3, Zenon
      <4> QED BY <4>4, <4>5, <4>6, <4>7, Zenon DEF NegsPass
    <3>6. CASE bufs' = bufs
      BY <2>3, <2>4, <3>4, <3>5, <3>6, Quiet, Unmoved, Zenon
    <3>7. CASE bufs' = [bufs EXCEPT !.sub = Append(@, m)]
      <4>1. bufs'.sdp = bufs.sdp /\ bufs'.sub = Append(bufs.sub, m)
        BY <1>s, <3>7 DEF Buffers
      <4>2. bufs.sub \in Seq(Subscribeds)
        BY <1>s, Zenon DEF Buffers
      <4>3. /\ Keys(bufs'.sub, SubscribedId) = Keys(bufs.sub, SubscribedId) \union {m.id}
            /\ Keyed(bufs.sub, SubscribedId) /\ m.id \notin Keys(bufs.sub, SubscribedId)
                 => Keyed(bufs'.sub, SubscribedId)
        <5>1. PICK s : s = bufs.sub
          BY Zenon
        <5>2. PICK r : r = bufs'.sub
          BY Zenon
        <5>3. s \in Seq(Subscribeds) /\ r = Append(s, m)
          BY <4>1, <4>2, <5>1, <5>2, Zenon
        <5>4. /\ \A f : Keys(r, f) = IF Has(f, m) THEN Keys(s, f) \union {Key(f, m)} ELSE Keys(s, f)
              /\ \A f : Keyed(s, f) /\ (Has(f, m) => Key(f, m) \notin Keys(s, f)) => Keyed(r, f)
          BY <3>1, <5>3, Appended
        <5> QED BY <3>2, <5>1, <5>2, <5>4, Zenon
      <4>4. Keyed(bufs'.sub, SubscribedId)
        BY <3>3, <4>3, Zenon DEF IdInv, OnceInv
      <4>5. Moves(Places, Places', 2, 3, m.id)
        BY <2>3, <2>4, <3>3, <3>4, <3>5, <4>3, Reaches, Zenon
           DEF NegsPass, TaskPass, HandlersPass, ClientboundPass, ServerboundPass
      <4>6. Offered' \subseteq Offered
        BY <2>3, <2>4, <3>4, <3>5, <4>1, Zenon
           DEF Offered, NegsPass, TaskPass, HandlersPass, ClientboundPass, ServerboundPass
      <4>7. OnceInv'
        BY <2>3, <2>4, <3>5, <4>4, Zenon DEF OnceInv, NegsPass, HandlersPass, ClientboundPass, ServerboundPass
      <4>8. Passes
        BY <3>5, <4>5, <4>6, <4>7, Zenon DEF Passes, NegsPass
      <4> QED BY <2>4, <4>8, Passing, Zenon DEF PeerPass
    <3> QED BY <2>8, <3>6, <3>7, Zenon DEF OnSubscribed
  <2>9. \/ m.t = "reply" /\ OnReply(m.of)
        \/ m.t = "subscribed" /\ OnSubscribed(m)
        \/ m.t = "sdp" /\ OnSdp(m)
        \/ m.t = "published" /\ OnPublished(m.of)
        \/ m.t = "candidate" /\ OnCandidate
    BY <1>11, <2>1, Zenon DEF ClientReceives
  <2> QED BY <2>5, <2>6, <2>7, <2>8, <2>9
<1> QED BY <1>1, <1>2, <1>3, <1>4, <1>5, <1>6, <1>7, <1>8, <1>9, <1>10, <1>11, Zenon DEF ClientNext

\* A goroutine that AcceptTrack started goes on, or ends.
LEMMA NegGoes ==
  ASSUME StateInv, IdInv, NEW n \in negs, NEW a, a # "tell",
         Step(n, a) \/ negs' = negs \ {n}
  PROVE  /\ Telling' \subseteq Telling
         /\ Sending' \subseteq IF negs' # negs \ {n} /\ a = "send" THEN Sending \union {n.id} ELSE Sending
         /\ n.id \notin Telling'
         /\ \A x \in negs' : \E o \in negs : x.id = o.id
         /\ \A x, o \in negs' : x.id = o.id => x = o
<1>1. PICK y : y = [n EXCEPT !.at = a]
  BY Zenon
<1>2. y.id = n.id /\ y.at = a
  BY <1>1, Zenon DEF StateInv, Negs
<1>3. \A x \in negs' : (x \in negs /\ x # n) \/ (x = y /\ negs' # negs \ {n})
  BY <1>1, Zenon DEF Step
<1>4. \A x, o \in negs : x.id = o.id => x = o
  BY Zenon DEF IdInv, OnceInv
<1>5. \A x \in negs' : \E o \in negs : x.id = o.id
  BY <1>2, <1>3, Zenon
<1>6. \A x, o \in negs' : x.id = o.id => x = o
  BY <1>2, <1>3, <1>4, Zenon
<1>7. Telling' \subseteq Telling /\ n.id \notin Telling'
  BY <1>2, <1>3, <1>4, Zenon DEF Telling
<1>8. Sending' \subseteq IF negs' # negs \ {n} /\ a = "send" THEN Sending \union {n.id} ELSE Sending
  BY <1>2, <1>3, Zenon DEF Sending
<1> QED BY <1>5, <1>6, <1>7, <1>8, Zenon

\* What a goroutine of the sdp handler leaves under way.
LEMMA HandlerPass ==
  ASSUME StateInv, IdInv, NEW i \in DOMAIN handlers
  PROVE  /\ handlers' = RemoveAt(handlers, i) => HandlersPass
         /\ \A x \in Handlers : Puts(handlers', handlers, i, x) /\ ~Has(PendingId, x) => HandlersPass
         /\ \A x \in Handlers :
              Puts(handlers', handlers, i, x) /\ Has(PendingId, x) /\ Has(PendingId, handlers[i])
                /\ Key(PendingId, x) = Key(PendingId, handlers[i]) => HandlersPass
<1>1. Keyed(handlers, PendingId)
  BY Zenon DEF IdInv, OnceInv
<1>2. handlers' = RemoveAt(handlers, i) => HandlersPass
  BY <1>1, HandlerEnds, Zenon DEF HandlersPass
<1>3. \A x \in Handlers : Puts(handlers', handlers, i, x) /\ ~Has(PendingId, x) => HandlersPass
  BY <1>1, HandlerGoes, Zenon DEF HandlersPass
<1>4. ASSUME NEW x \in Handlers, Puts(handlers', handlers, i, x), Has(PendingId, x),
             Has(PendingId, handlers[i]), Key(PendingId, x) = Key(PendingId, handlers[i])
      PROVE  HandlersPass
  BY <1>1, <1>4, HandlerGoes, Zenon DEF HandlersPass
<1> QED BY <1>2, <1>3, <1>4, Zenon

\* What the server does, apart from its own offers and answers, keeps every id in one
\* place.
LEMMA ServerPasses ==
  ASSUME StateInv, IdInv, PairInv,
         \/ ServerReceives \/ CandidateLocked \/ CallbackTry \/ CallbackUnlock \/ ServerCandidate
         \/ \E r \in reqs : Serve(r)
         \/ \E p \in Pubs : OnTrack(p)
         \/ \E n \in negs : Tell(n) \/ StartLock(n) \/ StartSend(n)
  PROVE  IdInv' /\ PairInv'
<1>s. /\ speer \in ServerPeers /\ hist \in Histories /\ handlers \in Seq(Handlers)
      /\ toServer \in Seq(ServerFrames) /\ toClient \in Seq(ClientFrames)
  BY Zenon DEF StateInv
<1>n. ASSUME UNCHANGED browser PROVE BufsPass /\ TaskPass
  BY <1>n, Unmoved, Zenon DEF browser
<1>f. ASSUME NEW x \in ClientFrames, x \notin Subscribeds, x \notin ServerOffers,
             toClient' = Append(toClient, x)
      PROVE  ClientboundPass
  BY <1>f, ServerSends, Zenon DEF ClientboundPass, IdInv, OnceInv
<1>o. \A x \in Replies \union ServerAnswers \union Publisheds \union {Candidate} :
        x \in ClientFrames /\ x \notin Subscribeds /\ x \notin ServerOffers
  BY FrameKeys, Zenon DEF ClientFrames
<1>1. CASE CandidateLocked \/ CallbackTry \/ CallbackUnlock
  <2>1. UNCHANGED browser /\ UNCHANGED net /\ UNCHANGED <<handlers, negs>>
    BY <1>1, Zenon DEF CandidateLocked, CallbackTry, CallbackUnlock
  <2>2. speer'.sdpMsgId = speer.sdpMsgId /\ speer'.sig = speer.sig
    <3>1. CASE CandidateLocked
      BY <1>s, <3>1, Zenon DEF CandidateLocked, ServerPeers
    <3>2. CASE CallbackTry
      BY <1>s, <3>2, Zenon DEF CallbackTry, ServerPeers
    <3>3. CASE CallbackUnlock
      BY <1>s, <3>3, Zenon DEF CallbackUnlock, ServerPeers
    <3> QED BY <1>1, <3>1, <3>2, <3>3, Zenon
  <2>3. hist'.mispaired = hist.mispaired
    BY <1>1, <1>s DEF CandidateLocked, CallbackTry, CallbackUnlock, Histories
  <2>4. NegsPass /\ HandlersPass /\ ClientboundPass /\ ServerboundPass
    BY <2>1, Unmoved, Zenon DEF net
  <2> QED BY <1>n, <2>1, <2>2, <2>3, <2>4, Quiet, Zenon DEF PeerPass
<1>2. CASE ServerCandidate
  <2>1. UNCHANGED browser /\ UNCHANGED <<toServer, handlers, negs, hist>>
    BY <1>2 DEF ServerCandidate
  <2>2. speer'.sdpMsgId = speer.sdpMsgId /\ speer'.sig = speer.sig
    BY <1>2, <1>s, Zenon DEF ServerCandidate, ServerPeers
  <2>3. ClientboundPass
    BY <1>2, <1>f, <1>o, Zenon DEF ServerCandidate
  <2>4. NegsPass /\ HandlersPass /\ ServerboundPass /\ PeerPass
    BY <2>1, <2>2, Unmoved, Zenon DEF PeerPass
  <2> QED BY <1>n, <2>1, <2>3, <2>4, Quiet, Zenon
<1>3. ASSUME NEW r \in reqs, Serve(r) PROVE IdInv' /\ PairInv'
  <2>1. UNCHANGED browser /\ UNCHANGED <<toServer, handlers, negs, speer>>
    BY <1>3, Zenon DEF Serve
  <2>2. hist'.mispaired = hist.mispaired
    BY <1>3, <1>s DEF Serve, Histories
  <2>3. r.of \in Tasks
    BY Zenon DEF StateInv, Requests
  <2>4. ClientboundPass
    BY <1>3, <1>f, <1>o, <2>3, Frames, Unmoved, Zenon DEF Serve
  <2>5. NegsPass /\ HandlersPass /\ ServerboundPass /\ PeerPass
    BY <2>1, <2>2, Unmoved DEF PeerPass
  <2> QED BY <1>n, <2>1, <2>4, <2>5, Quiet, Zenon
<1>4. ASSUME NEW p \in Pubs, OnTrack(p) PROVE IdInv' /\ PairInv'
  <2>1. UNCHANGED browser /\ UNCHANGED <<toServer, handlers, negs, speer>>
    BY <1>4, Zenon DEF OnTrack
  <2>2. hist'.mispaired = hist.mispaired
    BY <1>4, <1>s, Zenon DEF OnTrack, Histories
  <2>3. \A q \in BindWalk(hist.arrived \union {p}) : q \in Pubs
    BY ZenonT(40) DEF BindWalk, StateInv
  <2>4. ClientboundPass
    <3>1. \/ toClient' = toClient
          \/ \E q \in Pubs : toClient' = Append(toClient, [t |-> "published", of |-> q])
      BY <1>4, <2>3, Zenon DEF OnTrack
    <3> QED BY <1>f, <1>o, <3>1, Frames, Unmoved, Zenon
  <2>5. NegsPass /\ HandlersPass /\ ServerboundPass /\ PeerPass
    BY <2>1, <2>2, Unmoved, Zenon DEF PeerPass
  <2> QED BY <1>n, <2>1, <2>4, <2>5, Quiet, Zenon
<1>5. ASSUME NEW n \in negs, StartLock(n) PROVE IdInv' /\ PairInv'
  <2>1. UNCHANGED browser /\ UNCHANGED net /\ UNCHANGED <<handlers, hist>>
    BY <1>5, Zenon DEF StartLock
  <2>2. speer'.sdpMsgId = speer.sdpMsgId /\ speer'.sig = speer.sig
    BY <1>5, <1>s, Zenon DEF StartLock, ServerPeers
  <2>3. NegsPass
    BY <1>5, NegGoes DEF StartLock, NegsPass
  <2>4. ClientboundPass /\ HandlersPass /\ ServerboundPass /\ PeerPass
    BY <2>1, <2>2, Unmoved, Zenon DEF PeerPass, net
  <2> QED BY <1>n, <2>1, <2>3, <2>4, Quiet, Zenon
<1>6. ASSUME NEW n \in negs, StartSend(n) PROVE IdInv' /\ PairInv'
  <2>1. UNCHANGED browser /\ UNCHANGED <<toServer, handlers, speer, hist>>
    BY <1>6, Zenon DEF StartSend
  <2>2. NegsPass
    <3>1. negs' = negs \ {n} /\ "send" # "tell"
      BY <1>6, Zenon DEF StartSend
    <3> QED BY <3>1, NegGoes DEF NegsPass
  <2>3. BufsPass /\ TaskPass /\ HandlersPass /\ ServerboundPass /\ PeerPass
    BY <1>n, <2>1, Unmoved, Zenon DEF PeerPass
  <2>4. PICK x : x = Sdp("offer", n.id, {})
    BY Zenon
  <2>4a. x \in ServerOffers /\ x.id = n.id
    <3>1. n.id \in Evens
      BY ZenonT(40) DEF StateInv, Negs
    <3> QED BY <2>4, <3>1, Frames, ZenonT(40) DEF Sdp
  <2>5. x \in ClientFrames /\ x \notin Subscribeds /\ toClient' = Append(toClient, x)
    BY <1>6, <2>4, <2>4a, FrameKeys, ZenonT(40) DEF StartSend, ClientFrames
  <2>6. /\ Keys(toClient', SubscribedId) = Keys(toClient, SubscribedId)
        /\ Keyed(toClient', SubscribedId)
        /\ Keys(toClient', OfferId) = Keys(toClient, OfferId) \union {n.id}
    BY <2>4a, <2>5, ServerSends, ZenonT(40) DEF IdInv, OnceInv
  <2>7. n.id \in Sending
    BY <1>6, ZenonT(40) DEF StartSend, Sending
  <2>8. Stays(Places, Places')
    BY <2>2, <2>3, <2>6, PlacesAre, ZenonT(40) DEF Stays, NegsPass, BufsPass, TaskPass, HandlersPass, ServerboundPass
  <2>9. Offered' \subseteq Offered
    BY <2>2, <2>3, <2>6, <2>7, Zenon DEF Offered, NegsPass, BufsPass, TaskPass, HandlersPass, ServerboundPass
  <2>10. OnceInv'
    BY <2>2, <2>3, <2>6, ZenonT(40) DEF OnceInv, NegsPass, BufsPass, HandlersPass, ServerboundPass
  <2>11. Passes
    BY <2>2, <2>8, <2>9, <2>10, Zenon DEF Passes, NegsPass
  <2> QED BY <2>3, <2>11, Passing, Zenon DEF PeerPass
<1>7. ASSUME NEW n \in negs, Tell(n) PROVE IdInv' /\ PairInv'
  <2>1. UNCHANGED browser /\ UNCHANGED <<toServer, handlers, speer, hist>>
    BY <1>7, Zenon DEF Tell
  <2>2. NegsPass /\ n.id \notin Telling'
    BY <1>7, NegGoes, Zenon DEF Tell, NegsPass
  <2>3. BufsPass /\ TaskPass /\ HandlersPass /\ ServerboundPass /\ PeerPass
    BY <1>n, <2>1, Unmoved, Zenon DEF PeerPass
  <2>4. PICK x : x = [t |-> "subscribed", of |-> n.of, id |-> n.id]
    BY Zenon
  <2>4a. x \in Subscribeds /\ x.id = n.id
    <3>1. n.id \in Evens /\ n.of \in Subs
      BY ZenonT(40) DEF StateInv, Negs
    <3> QED BY <2>4, <3>1, Frames, ZenonT(40)
  <2>5. x \in ClientFrames /\ x \notin ServerOffers /\ toClient' = Append(toClient, x)
    BY <1>7, <2>4, <2>4a, FrameKeys, Zenon DEF Tell, ClientFrames
  <2>6. n.id \in Telling
    BY <1>7, ZenonT(40) DEF Tell, Telling
  <2>7. n.id \notin Keys(toClient, SubscribedId)
    BY <2>6, NotYet, Zenon
  <2>8. /\ Keys(toClient', SubscribedId) = Keys(toClient, SubscribedId) \union {n.id}
        /\ Keyed(toClient', SubscribedId)
        /\ Keys(toClient', OfferId) = Keys(toClient, OfferId)
    BY <2>4a, <2>5, <2>7, ServerSends, Zenon DEF IdInv, OnceInv
  <2>9. Moves(Places, Places', 1, 2, n.id)
    BY <2>2, <2>3, <2>6, <2>8, Told, Zenon DEF NegsPass, BufsPass, TaskPass, HandlersPass, ServerboundPass
  <2>10. Offered' \subseteq Offered
    BY <2>2, <2>3, <2>8, Zenon DEF Offered, NegsPass, BufsPass, TaskPass, HandlersPass, ServerboundPass
  <2>11. OnceInv'
    BY <2>2, <2>3, <2>8, ZenonT(40) DEF OnceInv, NegsPass, BufsPass, HandlersPass, ServerboundPass
  <2>12. Passes
    BY <2>2, <2>9, <2>10, <2>11, Zenon DEF Passes, NegsPass
  <2> QED BY <2>3, <2>12, Passing, Zenon DEF PeerPass
<1>8. CASE ServerReceives
  <2>1. UNCHANGED browser /\ UNCHANGED <<toClient, negs, hist>>
    BY <1>8, Zenon DEF ServerReceives
  <2>2. speer'.sdpMsgId = speer.sdpMsgId /\ speer'.sig = speer.sig
    BY <1>8, <1>s, Zenon DEF ServerReceives, OnServerCandidate, ServerPeers
  <2>3. BufsPass /\ TaskPass /\ NegsPass /\ ClientboundPass /\ PeerPass
    BY <1>n, <2>1, <2>2, Unmoved DEF PeerPass
  <2>4. PICK m \in ServerFrames : m = Head(toServer)
    BY <1>8, <1>s, Tailed, Zenon DEF ServerReceives
  <2>5. /\ \A f : Keys(toServer', f) \subseteq Keys(toServer, f)
        /\ \A f : Keyed(toServer, f) => Keyed(toServer', f)
        /\ \A f : Has(f, m) => Key(f, m) \in Keys(toServer, f)
        /\ \A f : Keyed(toServer, f) /\ Has(f, m) => Key(f, m) \notin Keys(toServer', f)
    <3>1. toServer # <<>> /\ toServer' = Tail(toServer)
      BY <1>8, Zenon DEF ServerReceives
    <3> QED BY <1>s, <2>4, <3>1, Tailed, Zenon
  <2>6. ServerboundPass
    BY <2>5, Zenon DEF ServerboundPass, IdInv, OnceInv
  <2>7. CASE handlers' = handlers
    BY <2>3, <2>6, <2>7, Quiet, Unmoved, Zenon
  <2>8. CASE m.t = "sdp" /\ handlers' = Append(handlers, [m |-> m, at |-> "try"])
    <3>1. PICK x : x = [m |-> m, at |-> "try"]
      BY Zenon
    <3>2. m \in ClientOffers \union ClientAnswers /\ x \in Handlers
      BY <2>8, <3>1, Kinds, Zenon DEF Handlers, OfferHandlers, AnswerHandlers
    <3>3. x.m = m /\ x.at = "try"
      BY <3>1, Zenon
    <3>4. /\ Keys(handlers', PendingId) = IF Has(PendingId, x) THEN Keys(handlers, PendingId) \union {Key(PendingId, x)}
                                          ELSE Keys(handlers, PendingId)
          /\ Keyed(handlers, PendingId) /\ (Has(PendingId, x) => Key(PendingId, x) \notin Keys(handlers, PendingId))
               => Keyed(handlers', PendingId)
      <4>1. handlers' = Append(handlers, x)
        BY <2>8, <3>1, Zenon
      <4>2. /\ \A f : Keys(handlers', f) = IF Has(f, x) THEN Keys(handlers, f) \union {Key(f, x)}
                                           ELSE Keys(handlers, f)
            /\ \A f : Keyed(handlers, f) /\ (Has(f, x) => Key(f, x) \notin Keys(handlers, f))
                        => Keyed(handlers', f)
        BY <1>s, <3>2, <4>1, Appended
      <4> QED BY <4>2, Zenon
    <3>5. Keyed(handlers, PendingId)
      BY Zenon DEF IdInv, OnceInv
    <3>6. CASE m \in ClientOffers
      <4>1. ~Has(PendingId, x)
        <5>1. m.type = "offer"
          BY <3>6, Zenon DEF ClientOffers
        <5> QED BY <3>2, <3>3, <5>1, HandlerKeys, Zenon
      <4>2. HandlersPass
        BY <3>4, <3>5, <4>1, Zenon DEF HandlersPass
      <4> QED BY <2>3, <2>6, <4>2, Quiet, Zenon
    <3>7. CASE m \in ClientAnswers
      <4>1. Has(PendingId, x) /\ Key(PendingId, x) = m.id
        <5>1. m.type = "answer"
          BY <3>7, Zenon DEF ClientAnswers
        <5> QED BY <3>2, <3>3, <5>1, HandlerKeys, Zenon
      <4>2. m.id \in Keys(toServer, AnswerId) /\ m.id \notin Keys(toServer', AnswerId)
        <5>1. Has(AnswerId, m) /\ Key(AnswerId, m) = m.id /\ Keyed(toServer, AnswerId)
          BY <3>7, FrameKeys, Zenon DEF IdInv, OnceInv
        <5> QED BY <2>5, <5>1, Zenon
      <4>3. m.id \notin Keys(handlers, PendingId)
        BY <4>2, NotYet, Zenon
      <4>4. Keys(handlers', PendingId) = Keys(handlers, PendingId) \union {m.id} /\ Keyed(handlers', PendingId)
        BY <3>4, <3>5, <4>1, <4>3, Zenon
      <4>5. Moves(Places, Places', 5, 6, m.id)
        BY <2>3, <2>6, <4>2, <4>4, Handled, Zenon DEF NegsPass, BufsPass, TaskPass, ClientboundPass, ServerboundPass
      <4>6. Offered' \subseteq Offered
        BY <2>3, <2>6, <4>2, <4>4, Zenon DEF Offered, NegsPass, BufsPass, TaskPass, ClientboundPass, ServerboundPass
      <4>7. OnceInv'
        BY <2>3, <2>6, <4>4, ZenonT(40) DEF OnceInv, NegsPass, BufsPass, ClientboundPass, ServerboundPass
      <4>8. Passes
        BY <2>3, <4>5, <4>6, <4>7, Zenon DEF Passes, NegsPass
      <4> QED BY <2>3, <4>8, Passing DEF PeerPass
    <3> QED BY <3>2, <3>6, <3>7, Zenon
  <2> QED BY <1>8, <2>4, <2>7, <2>8 DEF ServerReceives, OnServerCandidate
<1> QED BY <1>1, <1>2, <1>3, <1>4, <1>5, <1>6, <1>7, <1>8, Zenon

\* No pending offer of the server is left to be answered.
LEMMA Settled ==
  ASSUME IdInv, PairInv, Passes, speer'.sdpMsgId = speer.sdpMsgId, ~hist'.mispaired,
         speer.sig.st = "local" => \A k \in 1 .. 6 : speer.sdpMsgId \notin Places'[k]
  PROVE  IdInv' /\ PairInv'
<1>1. PICK P : P = Places
  BY Zenon
<1>2. PICK Q : Q = Places'
  BY Zenon
<1>3. /\ Apart(Q)
      /\ \A k \in 1 .. 6 : \A y \in Q[k] : \E l \in 1 .. 6 : y \in P[l]
  BY <1>1, <1>2, Separate, Zenon DEF IdInv, Passes
<1>4. IdInv'
  BY <1>1, <1>2, <1>3, Zenon DEF IdInv, Passes
<1>5. \A k \in 1 .. 6 : speer.sdpMsgId \notin Q[k] \intersect Offered'
  <2>1. CASE speer.sig.st = "local"
    BY <1>2, <2>1, Zenon
  <2>2. CASE speer.sig.st # "local"
    <3>1. ASSUME NEW k \in 1 .. 6, speer.sdpMsgId \in P[k] \intersect Offered PROVE FALSE
      <4>1. speer.sig = [st |-> "local", id |-> speer.sdpMsgId]
        BY <1>1, <3>1, Zenon DEF PairInv
      <4> QED BY <2>2, <4>1
    <3> QED BY <1>3, <3>1, Zenon DEF Passes
  <2> QED BY <2>1, <2>2, Zenon
<1>6. PairInv'
  BY <1>2, <1>5, Zenon DEF PairInv, Paired
<1> QED BY <1>4, <1>6, Zenon

\* AcceptTrack draws an id that is nowhere yet.
LEMMA AcceptPairs ==
  ASSUME StateInv, IdInv, PairInv, NEW s \in Subs, Accept(s)
  PROVE  IdInv' /\ PairInv'
<1>s. speer \in ServerPeers /\ hist \in Histories /\ speer.sdpMsgId \in Nat
  BY Parity, Zenon DEF StateInv, ServerPeers
<1>1. PICK y : y = speer.sdpMsgId + 2
  BY Zenon
<1>2. y \in Nat /\ speer'.sdpMsgId = y /\ speer'.sig = speer.sig
  BY <1>s, <1>1 DEF Accept, ServerPeers
<1>3. hist'.mispaired = hist.mispaired
  BY <1>s, Zenon DEF Accept, Histories
<1>4. UNCHANGED browser /\ UNCHANGED net /\ handlers' = handlers
  BY Zenon DEF Accept
<1>5. BufsPass /\ TaskPass /\ ClientboundPass /\ ServerboundPass /\ HandlersPass
  BY <1>4, Unmoved, Zenon DEF browser, net
<1>6. PICK x : x = [of |-> s, id |-> y, at |-> "tell"]
  BY Zenon
<1>7. x.id = y /\ x.at = "tell" /\ negs' = negs \union {x}
  BY <1>1, <1>6, Zenon DEF Accept
<1>8. \A n \in negs : n.id \in 0 .. speer.sdpMsgId /\ n.id # y
  BY <1>s, <1>1 DEF IdInv
<1>9. \A n, o \in negs' : n.id = o.id => n = o
  BY <1>7, <1>8, Zenon DEF IdInv, OnceInv
<1>10. Telling' = Telling \union {y}
  BY <1>7, Zenon DEF Telling
<1>11. Sending' \subseteq Sending
  BY <1>7, Zenon DEF Sending
<1>12. OnceInv'
  BY <1>5, <1>9, ZenonT(40) DEF OnceInv, BufsPass, ClientboundPass, ServerboundPass, HandlersPass
<1>13. Offered' \subseteq Offered
  BY <1>5, <1>11, Zenon DEF Offered, BufsPass, TaskPass, ClientboundPass, ServerboundPass, HandlersPass
<1>14. PICK P : P = Places
  BY Zenon
<1>15. PICK Q : Q = Places'
  BY Zenon
<1>16. Q[1] \subseteq P[1] \union {y} /\ \A k \in 1 .. 6 : k # 1 => Q[k] \subseteq P[k]
  BY <1>5, <1>10, <1>14, <1>15, PlacesAre, ZenonT(40)
     DEF BufsPass, TaskPass, ClientboundPass, ServerboundPass, HandlersPass
<1>17. /\ \A k \in 1 .. 6 : \A z \in P[k] : z \in 0 .. speer.sdpMsgId
       /\ \A z \in Offered : z \in 0 .. speer.sdpMsgId
       /\ Apart(P)
  BY <1>14, Zenon DEF IdInv
<1>18. y \notin 0 .. speer.sdpMsgId /\ 0 .. speer.sdpMsgId \subseteq 0 .. y /\ y \in 0 .. y
  BY <1>s, <1>1
<1>19. Apart(Q)
  BY <1>16, <1>17, <1>18 DEF Apart
<1>20. /\ \A k \in 1 .. 6 : \A z \in Q[k] : z \in 0 .. y
       /\ \A z \in Offered' : z \in 0 .. y
       /\ \A n \in negs' : n.id \in 0 .. y
  BY <1>7, <1>8, <1>13, <1>16, <1>17, <1>18, Zenon
<1>21. IdInv'
  BY <1>2, <1>12, <1>15, <1>19, <1>20, Zenon DEF IdInv
<1>22. y \notin Offered'
  BY <1>13, <1>17, <1>18, Zenon
<1>23. PairInv'
  BY <1>2, <1>3, <1>22, Zenon DEF PairInv, Paired
<1> QED BY <1>21, <1>23, Zenon

\* StartNegotiate sets its offer, under the id it has told, or gives up.
LEMMA OfferPairs ==
  ASSUME StateInv, IdInv, PairInv, NEW n \in negs, StartOffer(n)
  PROVE  IdInv' /\ PairInv'
<1>s. speer \in ServerPeers /\ hist \in Histories
  BY Zenon DEF StateInv
<1>1. hist'.mispaired = hist.mispaired
  BY <1>s, Zenon DEF StartOffer, Histories
<1>2. UNCHANGED browser /\ UNCHANGED net /\ handlers' = handlers
  BY Zenon DEF StartOffer
<1>3. BufsPass /\ TaskPass /\ ClientboundPass /\ ServerboundPass /\ HandlersPass
  BY <1>2, Unmoved, Zenon DEF browser, net
<1>4. CASE negs' = negs \ {n} /\ UNCHANGED speer
  <2>1. NegsPass
    <3>1. "send" # "tell"
      BY Zenon
    <3> QED BY <1>4, <3>1, NegGoes DEF NegsPass
  <2> QED BY <1>1, <1>3, <1>4, <2>1, Quiet DEF PeerPass
<1>5. CASE /\ speer.sig = Stable /\ Step(n, "send")
           /\ speer' = [speer EXCEPT !.sig = [st |-> "local", id |-> n.id], !.local = TRUE]
  <2>1. speer'.sdpMsgId = speer.sdpMsgId /\ speer'.sig = [st |-> "local", id |-> n.id]
    BY <1>s, <1>5, Zenon DEF ServerPeers
  <2>2. "send" # "tell"
    BY Zenon
  <2>3. /\ Telling' \subseteq Telling /\ Sending' \subseteq Sending \union {n.id}
        /\ \A x \in negs' : \E o \in negs : x.id = o.id
        /\ \A x, o \in negs' : x.id = o.id => x = o
    BY <1>5, <2>2, NegGoes, Zenon
  <2>4. PICK P : P = Places
    BY Zenon
  <2>5. PICK Q : Q = Places'
    BY Zenon
  <2>6. Stays(P, Q)
    BY <1>3, <2>3, <2>4, <2>5, Remain, Zenon
       DEF BufsPass, TaskPass, ClientboundPass, ServerboundPass, HandlersPass
  <2>7. Offered' \subseteq Offered \union {n.id}
    BY <1>3, <2>3, Zenon DEF Offered, BufsPass, TaskPass, ClientboundPass, ServerboundPass, HandlersPass
  <2>8. OnceInv'
    BY <1>3, <2>3, ZenonT(40) DEF OnceInv, BufsPass, ClientboundPass, ServerboundPass, HandlersPass
  <2>9. Apart(Q)
    BY <2>4, <2>6, Separate, ZenonT(40) DEF IdInv
  <2>10. IdInv'
    BY <2>1, <2>3, <2>4, <2>5, <2>6, <2>7, <2>8, <2>9, Zenon DEF IdInv, Stays
  <2>11. ASSUME NEW k \in 1 .. 6, speer.sdpMsgId \in P[k], speer.sdpMsgId \in Offered PROVE FALSE
    <3>1. speer.sig = [st |-> "local", id |-> speer.sdpMsgId]
      BY <2>4, <2>11, Zenon DEF PairInv
    <3> QED BY <1>5, <3>1 DEF Stable
  <2>12. ASSUME NEW k \in 1 .. 6, NEW z \in Q[k] \intersect Offered', z = speer.sdpMsgId PROVE z = n.id
    BY <2>6, <2>7, <2>11, <2>12, Zenon DEF Stays
  <2>13. PairInv'
    BY <1>1, <2>1, <2>5, <2>12, Zenon DEF PairInv, Paired
  <2> QED BY <2>10, <2>13, Zenon
<1> QED BY <1>4, <1>5, Zenon DEF StartOffer

\* The sdp handler keeps every id in one place, and each description meets its
\* counterpart.
LEMMA HandlerPairs ==
  ASSUME StateInv, AnswerInv, IdInv, PairInv, NEW i \in DOMAIN handlers,
         SdpTry(i) \/ SdpRemote(i) \/ SdpCandidates(i) \/ SdpAnswer(i) \/ SdpSend(i)
  PROVE  IdInv' /\ PairInv'
<1>s. /\ speer \in ServerPeers /\ hist \in Histories /\ handlers \in Seq(Handlers)
      /\ toClient \in Seq(ClientFrames)
  BY Zenon DEF StateInv
<1>h. PICK h \in Handlers : h = handlers[i]
  BY <1>s
<1>p. hist.mispaired = FALSE
  BY <1>s, Zenon DEF PairInv, Paired, Histories
<1>n. ASSUME UNCHANGED browser, UNCHANGED net, UNCHANGED negs
      PROVE  BufsPass /\ TaskPass /\ ClientboundPass /\ ServerboundPass /\ NegsPass
  BY <1>n, Unmoved, Zenon DEF browser, net
<1>1. CASE SdpTry(i)
  <2>1. UNCHANGED browser /\ UNCHANGED net /\ UNCHANGED negs /\ UNCHANGED hist
    BY <1>1, Zenon DEF SdpTry
  <2>2. speer'.sdpMsgId = speer.sdpMsgId /\ speer'.sig = speer.sig
    BY <1>1, <1>s, Zenon DEF SdpTry, ServerPeers
  <2>3. h.at = "try" /\ [h EXCEPT !.at = "remote"] \in Handlers
    BY <1>1, <1>h, Goes, Zenon DEF SdpTry
  <2>4. PICK x \in Handlers : Puts(handlers', handlers, i, x) /\ x.m = h.m /\ x.at = "remote"
    BY <1>1, <1>h, <2>3, HandlerMoves, ZenonT(40) DEF SdpTry
  <2>5. /\ Has(PendingId, x) <=> Has(PendingId, h)
        /\ Has(PendingId, x) => Key(PendingId, x) = Key(PendingId, h)
    BY <2>3, <2>4, HandlerKeys, Zenon
  <2>6. HandlersPass
    BY <1>h, <2>4, <2>5, HandlerPass, Zenon
  <2> QED BY <1>n, <2>1, <2>2, <2>6, Quiet, Zenon DEF PeerPass
<1>2. CASE SdpRemote(i)
  <2>1. UNCHANGED browser /\ UNCHANGED net /\ UNCHANGED negs
    BY <1>2, Zenon DEF SdpRemote
  <2>2. CASE Refused(i)
    BY <1>n, <2>1, <2>2, HandlerPass, Quiet, Zenon DEF Refused, PeerPass
  <2>3. ASSUME NEW x \in Handlers, Accepted(i, x) PROVE IdInv' /\ PairInv'
    <3>1. /\ Puts(handlers', handlers, i, x) /\ x.m = h.m /\ x.at = "cands" /\ h.at = "remote"
          /\ speer'.sdpMsgId = speer.sdpMsgId
          /\ x.m.type = "offer" => speer.sig.st = "stable"
          /\ x.m.type = "answer" => x.m.id = speer.sdpMsgId
          /\ hist'.mispaired <=> hist.mispaired \/ (x.m.type = "answer" /\ x.m.id # speer.sig.id)
      BY <1>h, <2>3, Zenon DEF Accepted
    <3>2. ~Has(PendingId, x)
      BY <3>1, HandlerKeys, ZenonT(40)
    <3>3. HandlersPass
      BY <3>1, <3>2, HandlerPass, Zenon
    <3>4. Passes
      BY <1>n, <2>1, <3>3, Quiet, Zenon
    <3>5. CASE x.m.type = "offer"
      <4>1. ~hist'.mispaired /\ speer.sig.st # "local"
        BY <1>p, <3>1, <3>5, Zenon
      <4> QED BY <3>1, <3>4, <4>1, Settled, ZenonT(40)
    <3>6. CASE x.m.type = "answer"
      <4>1. Has(PendingId, h) /\ Key(PendingId, h) = speer.sdpMsgId
        BY <3>1, <3>6, HandlerKeys, ZenonT(40)
      <4>2. speer.sdpMsgId \in Keys(handlers, PendingId)
        BY <1>s, <1>h, <4>1 DEF Keys
      <4>3. speer.sdpMsgId \notin Keys(handlers', PendingId)
        <5>1. Keyed(handlers, PendingId)
          BY Zenon DEF IdInv, OnceInv
        <5>2. Has(PendingId, handlers[i]) /\ Key(PendingId, handlers[i]) = speer.sdpMsgId
          BY <1>h, <4>1, Zenon
        <5>3. Key(PendingId, handlers[i]) \notin Keys(handlers', PendingId)
          BY <3>1, <3>2, <5>1, <5>2, HandlerGoes, Zenon
        <5> QED BY <5>2, <5>3, Zenon
      <4>4. speer.sdpMsgId \in Places[6] /\ speer.sdpMsgId \in Offered
        BY <4>2, PlacesAre, Zenon DEF Offered
      <4>5. speer.sig = [st |-> "local", id |-> speer.sdpMsgId]
        BY <4>4, PlacesAre, ZenonT(40) DEF PairInv
      <4>6. speer.sig.id = speer.sdpMsgId
        BY <4>5
      <4>7. ~hist'.mispaired
        BY <1>p, <3>1, <3>6, <4>6, ZenonT(40)
      <4>8. Places'[6] = Keys(handlers', PendingId) /\ 6 \in 1 .. 6
        BY PlacesAre, ZenonT(40)
      <4>9. \A k \in 1 .. 6 : k # 6 => speer.sdpMsgId \notin Places[k]
        BY <4>4, <4>8, InOnePlace, Zenon
      <4>10. \A k \in 1 .. 6 : k # 6 => Places'[k] \subseteq Places[k]
        BY <1>n, <2>1, Elsewhere DEF NegsPass, BufsPass, TaskPass, ClientboundPass, ServerboundPass
      <4>11. \A k \in 1 .. 6 : speer.sdpMsgId \notin Places'[k]
        BY <4>3, <4>8, <4>9, <4>10, Zenon
      <4> QED BY <3>1, <3>4, <4>7, <4>11, Settled, ZenonT(40)
    <3> QED BY <3>5, <3>6, Goes, ZenonT(40)
  <2> QED BY <1>2, <2>2, <2>3, RemoteSteps, Zenon
<1>3. CASE SdpCandidates(i)
  <2>1. UNCHANGED browser /\ UNCHANGED net /\ UNCHANGED negs /\ UNCHANGED hist
    BY <1>3, Zenon DEF SdpCandidates
  <2>2. speer'.sdpMsgId = speer.sdpMsgId /\ speer'.sig = speer.sig
    BY <1>3, <1>s, Zenon DEF SdpCandidates, ServerPeers
  <2>3. HandlersPass
    <3>1. CASE handlers' = RemoveAt(handlers, i)
      BY <3>1, HandlerPass, Zenon
    <3>2. CASE h.m.type # "answer" /\ handlers' = [handlers EXCEPT ![i].at = "answer"]
      <4>1. [h EXCEPT !.at = "answer"] \in Handlers
        BY <3>2, Goes, Zenon
      <4>2. PICK x \in Handlers : Puts(handlers', handlers, i, x) /\ x.at = "answer"
        BY <1>h, <3>2, <4>1, HandlerMoves, ZenonT(40)
      <4>3. ~Has(PendingId, x)
        BY <4>2, HandlerKeys, ZenonT(40)
      <4> QED BY <4>2, <4>3, HandlerPass, Zenon
    <3> QED BY <1>3, <1>h, <3>1, <3>2, Zenon DEF SdpCandidates
  <2> QED BY <1>n, <2>1, <2>2, <2>3, Quiet, Zenon DEF PeerPass
<1>4. CASE SdpAnswer(i)
  <2>1. UNCHANGED browser /\ UNCHANGED net /\ UNCHANGED negs
    BY <1>4, Zenon DEF SdpAnswer
  <2>2. speer'.sdpMsgId = speer.sdpMsgId
    BY <1>4, <1>s, Zenon DEF SdpAnswer, ServerPeers
  <2>3. h.at = "answer" /\ h.m.type = "offer" /\ [h EXCEPT !.at = "send"] \in Handlers
    BY <1>4, <1>h, Goes, Zenon DEF SdpAnswer
  <2>4. PICK x \in Handlers : Puts(handlers', handlers, i, x) /\ x.at = "send"
    BY <1>4, <1>h, <2>3, HandlerMoves, ZenonT(40) DEF SdpAnswer
  <2>5. ~Has(PendingId, x)
    BY <2>4, HandlerKeys, Zenon
  <2>6. HandlersPass
    BY <2>4, <2>5, HandlerPass, Zenon
  <2>7. Passes
    BY <1>n, <2>1, <2>6, Quiet, Zenon
  <2>8. Has(Answering, h) /\ Key(Answering, h) = h.m.id
    BY <2>3, HandlerKeys, Zenon
  <2>9. h.m.id \in Keys(handlers, Answering)
    BY <1>s, <1>h, <2>8 DEF Keys
  <2>10. speer.sig = [st |-> "remote", id |-> h.m.id]
    BY <2>9, Zenon DEF AnswerInv
  <2>11. ~hist'.mispaired
    BY <1>4, <1>s, <1>h, <1>p, <2>10, Zenon DEF SdpAnswer, Histories
  <2>12. speer.sig.st # "local"
    BY <2>10
  <2> QED BY <2>2, <2>7, <2>11, <2>12, Settled, Zenon
<1>5. CASE SdpSend(i)
  <2>1. UNCHANGED browser /\ UNCHANGED <<toServer, negs, speer, hist>>
    BY <1>5, Zenon DEF SdpSend
  <2>2. HandlersPass
    BY <1>5, HandlerPass, Zenon DEF SdpSend
  <2>3. h.at = "send" /\ h.m \in ClientOffers
    BY <1>5, <1>h, Goes, Zenon DEF SdpSend
  <2>4. PICK x : x = Sdp("answer", h.m.id, {})
    BY Zenon
  <2>5. x \in ServerAnswers
    <3>1. h.m.id \in Odds
      BY <2>3, Zenon DEF ClientOffers
    <3> QED BY <2>4, <3>1, Frames, Zenon
  <2>6. x \in ClientFrames /\ x \notin Subscribeds /\ x \notin ServerOffers
    BY <2>5, Frames, FrameKeys, ZenonT(40)
  <2>7. toClient' = Append(toClient, x)
    BY <1>5, <1>h, <2>4, ZenonT(40) DEF SdpSend
  <2>8. ClientboundPass
    BY <2>6, <2>7, ServerSends, Zenon DEF ClientboundPass, IdInv, OnceInv
  <2>9. BufsPass /\ TaskPass /\ ServerboundPass /\ NegsPass /\ PeerPass
    BY <2>1, Unmoved, Zenon DEF browser, PeerPass
  <2> QED BY <2>2, <2>8, <2>9, Quiet, Zenon
<1> QED BY <1>1, <1>2, <1>3, <1>4, <1>5, Zenon

\* Every step keeps each id of the server in one place, and every description is set
\* against its counterpart.
LEMMA PairStep == StateInv /\ AnswerInv /\ IdInv /\ PairInv /\ [Next]_vars => IdInv' /\ PairInv'
<1> SUFFICES ASSUME StateInv, AnswerInv, IdInv, PairInv, [Next]_vars PROVE IdInv' /\ PairInv'
  BY Zenon
<1>1. CASE ClientNext \/ GiveUp
  BY <1>1, ClientPairs, Zenon
<1>2. CASE ServerNext
  <2>1. ASSUME NEW s \in Subs, Accept(s) PROVE IdInv' /\ PairInv'
    BY <2>1, AcceptPairs, Zenon
  <2>2. ASSUME NEW n \in negs, StartOffer(n) PROVE IdInv' /\ PairInv'
    BY <2>2, OfferPairs, Zenon
  <2>3. ASSUME NEW i \in DOMAIN handlers,
               SdpTry(i) \/ SdpRemote(i) \/ SdpCandidates(i) \/ SdpAnswer(i) \/ SdpSend(i)
        PROVE  IdInv' /\ PairInv'
    BY <2>3, HandlerPairs, Zenon
  <2> QED BY <1>2, <2>1, <2>2, <2>3, ServerPasses, Zenon DEF ServerNext
<1>3. CASE UNCHANGED vars
  <2>1. NegsPass /\ ClientboundPass /\ BufsPass /\ TaskPass /\ ServerboundPass /\ HandlersPass /\ PeerPass
    BY <1>3, Unmoved, Zenon DEF vars, PeerPass
  <2> QED BY <2>1, Quiet, Zenon
<1> QED BY <1>1, <1>2, <1>3, Zenon DEF Next
-----------------------------------------------------------------------------
\* The negotiation keeps its invariant, whatever the tasks, the timeouts and the order
\* in which the goroutines run.
THEOREM InvHolds == Spec => []Inv
<1>1. Init => Inv
  BY InitInv, Zenon
<1>2. Inv /\ [Next]_vars => Inv'
  BY StateStep, StrandedStep, UnlockStep, RegisterStep, AnswerStep, PairStep, Zenon DEF Inv
<1> QED BY <1>1, <1>2, PTL DEF Spec

\* The candidates that a side put off until its remote description is set are added:
\* whoever sets the description is about to add them.
THEOREM NoneStrandedHolds == Spec => []NoneStranded
<1>1. Inv => NoneStranded
  BY Zenon DEF Inv
<1> QED BY <1>1, InvHolds, PTL

\* The signalling callback unlocks a neg_mux that is taken, as long as no description or
\* callback of the server overtakes an earlier one.
THEOREM UnlockSafeHolds == Spec => []UnlockSafe
<1>1. Inv => UnlockSafe
  BY Zenon DEF Inv, UnlockInv
<1> QED BY <1>1, InvHolds, PTL

\* When a track arrives at the server, its publication has been registered, unless the
\* client gave the task up.
THEOREM PublicationExistsHolds == Spec => []PublicationExists
<1>1. Inv => PublicationExists
  BY Zenon DEF Inv, RegisterInv, Backed, PublicationExists
<1> QED BY <1>1, InvHolds, PTL

\* Every description, at either end, is set against its counterpart: an answer against
\* the pending offer that it answers.
THEOREM PairedHolds == Spec => []Paired
<1>1. Inv => Paired
  BY Zenon DEF Inv, PairInv
<1> QED BY <1>1, InvHolds, PTL
=============================================================================
