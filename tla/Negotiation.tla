----------------------------- MODULE Negotiation -----------------------------
(***************************************************************************)
(* The negotiation between one client and its SignalContext: the offers    *)
(* and answers of both sides, the ICE candidates, and the publications     *)
(* that the tracks of an offer are bound to.                               *)
(*                                                                         *)
(* Client (js/client/src/index.ts): publish and subscribe run one at a     *)
(* time under negMux.  publish registers the publication, waits for the    *)
(* reply, offers and waits for the answer with its own id; subscribe opens *)
(* its event iterators, asks, and answers the offer whose id the           *)
(* "subscribed" message names.  A task with a timeout may give up at each  *)
(* of its waits.                                                           *)
(*                                                                         *)
(* Server (signal/main.go, signal/model.go): every description and every   *)
(* request is handled by a goroutine of its own; an accepted track starts  *)
(* a goroutine that tells the client, takes neg_mux and offers.  neg_mux   *)
(* is released by pion's signalling callback, also a goroutine, whoever    *)
(* took it.  The frames keep their order in each direction.                *)
(***************************************************************************)
EXTENDS Integers, Sequences, FiniteSets

CONSTANTS
    Pubs,         \* the publish tasks; each names its publication, of one track
    Subs,         \* the subscribe tasks; each names its subscription
    Impatient,    \* the tasks called with a timeout
    Walk,         \* the order in which haxmap's ForEach visits the publications
    MaxAccepts,   \* bound: negotiations that one subscription starts
    MaxCands,     \* bound: candidates found by each side
    None

Tasks == Pubs \union Subs

ASSUME NegotiationAssumption ==
    /\ Pubs \intersect Subs = {}
    /\ Impatient \subseteq Tasks
    /\ {Walk[k] : k \in DOMAIN Walk} = Pubs
    /\ Len(Walk) = Cardinality(Pubs)
    /\ None \notin Tasks
    /\ MaxAccepts \in Nat
    /\ MaxCands \in Nat

VARIABLES
    client,      \* the client's task and what it waits for
    cpeer,       \* the client's RTCPeerConnection and pendingCandidates
    bufs,        \* the events the client's open iterators hold
    toServer, toClient,   \* the frames on their way
    reqs,        \* publish and subscribe requests, each in its goroutine
    handlers,    \* the goroutines of the sdp handler, in the order of arrival
    negs,        \* the goroutines that AcceptTrack started
    callbacks,   \* signalling callbacks (stable) that have yet to try / to unlock
    speer,       \* the server's PeerConnection, candidates and mutexes
    pubs, subs,  \* the publications and subscriptions of the context
    bound,       \* the publications whose track is bound
    hist         \* what the properties remember

vars == <<client, cpeer, bufs, toServer, toClient, reqs, handlers, negs,
          callbacks, speer, pubs, subs, bound, hist>>

net == <<toServer, toClient>>
server == <<reqs, handlers, negs, callbacks, speer, pubs, subs, bound>>
browser == <<client, cpeer, bufs>>

Stable == [st |-> "stable", id |-> 0]

Init ==
    /\ client = [todo |-> Tasks, task |-> None, at |-> "idle", sdpId |-> 1,
                 await |-> 0, done |-> {}]
    /\ cpeer = [sig |-> Stable, remote |-> FALSE, local |-> FALSE, senders |-> {},
                pending |-> 0, added |-> 0, found |-> 0]
    /\ bufs = [sdpOn |-> FALSE, sdp |-> <<>>, sub |-> <<>>, published |-> FALSE]
    /\ toServer = <<>> /\ toClient = <<>>
    /\ reqs = {} /\ handlers = <<>> /\ negs = {}
    /\ callbacks = [try |-> 0, unlock |-> 0]
    /\ speer = [sig |-> Stable, remote |-> FALSE, local |-> FALSE, tracks |-> {},
                pending |-> 0, added |-> 0, found |-> 0, checked |-> FALSE,
                neg_mux |-> FALSE, sdpMsgId |-> 0]
    /\ pubs = {} /\ subs = {} /\ bound = {}
    /\ hist = [accepts |-> [s \in Subs |-> 0], registered |-> {}, arrived |-> {},
               givenUp |-> {}, mispaired |-> FALSE, overtaken |-> FALSE,
               crashed |-> FALSE]

\* A fatal runtime error ends the server, and with it the exchange.
Up == ~hist.crashed

(***************************************************************************)
(* The client                                                              *)
(***************************************************************************)

Sdp(type, id, tracks) == [t |-> "sdp", type |-> type, id |-> id, tracks |-> tracks]
Request(op, of) == [t |-> "request", op |-> op, of |-> of]
Candidate == [t |-> "candidate"]

\* The task is over: negMux is free, the iterators are closed.
Over(done) ==
    /\ client' = [client EXCEPT !.task = None, !.at = "idle", !.done = done]
    /\ bufs' = [sdpOn |-> FALSE, sdp |-> <<>>, sub |-> <<>>, published |-> FALSE]

\* Mutant: publish negotiates without waiting for the reply.
PublishStartAndOffer(p) ==
    /\ Up /\ client.at = "idle" /\ p \in client.todo
    /\ client' = [client EXCEPT !.todo = @ \ {p}, !.task = p, !.at = "offer"]
    /\ cpeer' = [cpeer EXCEPT !.senders = @ \union {p}]
    /\ toServer' = Append(toServer, Request("add", p))
    /\ UNCHANGED <<bufs, toClient, server, hist>>

\* publish adds its transceivers and asks for a publication.
PublishStart(p) ==
    /\ Up /\ client.at = "idle" /\ p \in client.todo
    /\ client' = [client EXCEPT !.todo = @ \ {p}, !.task = p, !.at = "ack"]
    /\ cpeer' = [cpeer EXCEPT !.senders = @ \union {p}]
    /\ toServer' = Append(toServer, Request("add", p))
    /\ UNCHANGED <<bufs, toClient, server, hist>>

\* subscribe opens the iterators for sdp and subscribed events before it asks.
SubscribeStart(s) ==
    /\ Up /\ client.at = "idle" /\ s \in client.todo
    /\ client' = [client EXCEPT !.todo = @ \ {s}, !.task = s, !.at = "ack"]
    /\ bufs' = [bufs EXCEPT !.sdpOn = TRUE]
    /\ toServer' = Append(toServer, Request("add", s))
    /\ UNCHANGED <<cpeer, toClient, server, hist>>

\* The reply to the request of the task, or to the removal in clean().
OnReply(of) ==
    /\ client' = IF client.task # of THEN client
                 ELSE CASE client.at = "ack" -> [client EXCEPT !.at =
                               IF of \in Pubs THEN "offer" ELSE "subscribed"]
                        [] client.at = "clean" ->
                               [client EXCEPT !.task = None, !.at = "idle"]
                        [] OTHER -> client
    /\ UNCHANGED <<cpeer, bufs, negs>>

\* The "subscribed" message is acknowledged, which lets the server's goroutine go on.
OnSubscribed(m) ==
    /\ bufs' = IF client.task \in Subs THEN [bufs EXCEPT !.sub = Append(@, m)] ELSE bufs
    /\ negs' = {IF n.id = m.id THEN [n EXCEPT !.at = "lock"] ELSE n : n \in negs}
    /\ UNCHANGED <<client, cpeer>>

OnSdp(m) ==
    /\ bufs' = IF bufs.sdpOn THEN [bufs EXCEPT !.sdp = Append(@, m)] ELSE bufs
    /\ UNCHANGED <<client, cpeer, negs>>

OnPublished(p) ==
    /\ bufs' = IF client.task = p /\ client.at # "ack"
               THEN [bufs EXCEPT !.published = TRUE] ELSE bufs
    /\ UNCHANGED <<client, cpeer, negs>>

\* A candidate waits for the remote description.
OnCandidate ==
    /\ cpeer' = IF cpeer.remote THEN [cpeer EXCEPT !.added = @ + 1]
                                ELSE [cpeer EXCEPT !.pending = @ + 1]
    /\ UNCHANGED <<client, bufs, negs>>

ClientReceives ==
    /\ Up /\ toClient # <<>>
    /\ toClient' = Tail(toClient)
    /\ LET m == Head(toClient) IN
         \/ m.t = "reply" /\ OnReply(m.of)
         \/ m.t = "subscribed" /\ OnSubscribed(m)
         \/ m.t = "sdp" /\ OnSdp(m)
         \/ m.t = "published" /\ OnPublished(m.of)
         \/ m.t = "candidate" /\ OnCandidate
    /\ UNCHANGED <<toServer, reqs, handlers, callbacks, speer, pubs, subs, bound, hist>>

nextSdpMsgId(id) == id + 2

\* negotiate(active): offer what the senders hold, under a fresh id.
Offer ==
    /\ Up /\ client.at = "offer"
    /\ LET id == nextSdpMsgId(client.sdpId) IN
         /\ client' = [client EXCEPT !.at = "answer", !.sdpId = id, !.await = id]
         /\ cpeer' = [cpeer EXCEPT !.sig = [st |-> "local", id |-> id], !.local = TRUE]
         /\ toServer' = Append(toServer, Sdp("offer", id, cpeer.senders))
    /\ bufs' = [bufs EXCEPT !.sdpOn = TRUE]
    /\ UNCHANGED <<toClient, server, hist>>

\* Mutant: any description will do.
AwaitedAny(m) == TRUE

\* An event with another id is passed over.
Awaited(m) == m.id = client.await

SetAnswer(m) ==
    /\ cpeer' = [cpeer EXCEPT !.sig = Stable, !.remote = TRUE]
    /\ hist' = [hist EXCEPT !.mispaired =
                  @ \/ m.type # "answer" \/ m.id # cpeer.sig.id \/ cpeer.sig.st # "local"]

\* A browser rolls its own pending offer back when it is given an offer.
SetOffer(m) ==
    /\ cpeer' = [cpeer EXCEPT !.sig = [st |-> "remote", id |-> m.id], !.remote = TRUE]
    /\ hist' = [hist EXCEPT !.mispaired = @ \/ m.type # "offer"]

TakeSdp ==
    /\ Up /\ client.at \in {"answer", "setup"} /\ bufs.sdp # <<>>
    /\ bufs' = [bufs EXCEPT !.sdp = Tail(@)]
    /\ LET m == Head(bufs.sdp) IN
         \/ /\ ~Awaited(m)
            /\ UNCHANGED <<client, cpeer, hist>>
         \/ /\ Awaited(m)
            /\ client' = [client EXCEPT !.at = "cands"]
            /\ IF client.at = "answer" THEN SetAnswer(m) ELSE SetOffer(m)
    /\ UNCHANGED <<net, server>>

\* The remote description is set: the candidates that waited for it are added.
DrainCandidates ==
    /\ Up /\ client.at = "cands"
    /\ cpeer' = [cpeer EXCEPT !.added = @ + cpeer.pending, !.pending = 0]
    /\ client' = [client EXCEPT !.at = IF client.task \in Pubs THEN "published" ELSE "reply"]
    /\ UNCHANGED <<bufs, net, server, hist>>

\* negotiate(passive) sends the answer before it sets it; the tracks came with the offer.
Reply ==
    /\ Up /\ client.at = "reply"
    /\ toServer' = Append(toServer, Sdp("answer", client.await, cpeer.senders))
    /\ cpeer' = [cpeer EXCEPT !.sig = Stable, !.local = TRUE]
    /\ Over(client.done \union {client.task})
    /\ UNCHANGED <<toClient, server, hist>>

PublishEnd ==
    /\ Up /\ client.at = "published" /\ bufs.published
    /\ Over(client.done \union {client.task})
    /\ UNCHANGED <<cpeer, net, server, hist>>

\* subscribe waits for the message of its own subscription.
TakeSubscribed ==
    /\ Up /\ client.at = "subscribed" /\ bufs.sub # <<>>
    /\ LET m == Head(bufs.sub) IN
         client' = IF m.of = client.task
                   THEN [client EXCEPT !.at = "setup", !.await = m.id] ELSE client
    /\ bufs' = [bufs EXCEPT !.sub = Tail(@)]
    /\ UNCHANGED <<cpeer, net, server, hist>>

\* The timeout fires.  A request that got no reply is left as it is; later the
\* task takes its tracks and its request back.
GiveUp ==
    /\ Up /\ client.task \in Impatient
    /\ hist' = [hist EXCEPT !.givenUp = @ \union {client.task}]
    /\ \/ /\ client.at = "ack"
          /\ Over(client.done)
          /\ UNCHANGED <<cpeer, toServer>>
       \/ /\ client.at \in {"answer", "published"}
          /\ Over(client.done)
          /\ cpeer' = [cpeer EXCEPT !.senders = @ \ {client.task}]
          /\ toServer' = Append(toServer, Request("remove", client.task))
       \/ /\ client.at \in {"subscribed", "setup"}
          /\ client' = [client EXCEPT !.at = "clean"]
          /\ bufs' = [bufs EXCEPT !.sdpOn = FALSE, !.sdp = <<>>, !.sub = <<>>]
          /\ toServer' = Append(toServer, Request("remove", client.task))
          /\ UNCHANGED cpeer
    /\ UNCHANGED <<toClient, server>>

\* onicecandidate: candidates are found once a local description is set.
ClientCandidate ==
    /\ Up /\ cpeer.local /\ cpeer.found < MaxCands
    /\ cpeer' = [cpeer EXCEPT !.found = @ + 1]
    /\ toServer' = Append(toServer, Candidate)
    /\ UNCHANGED <<client, bufs, toClient, server, hist>>

(***************************************************************************)
(* The server                                                              *)
(***************************************************************************)

\* A goroutine of the list ends.
RemoveAt(s, i) == SubSeq(s, 1, i - 1) \o SubSeq(s, i + 1, Len(s))

\* A step of the negotiation while an earlier description or callback is unfinished.
Overtakes(i) == i > 1 \/ callbacks.try + callbacks.unlock > 0

\* The candidate handler's first look, without cand_mux.
OnServerCandidate ==
    /\ speer' = IF speer.remote THEN [speer EXCEPT !.added = @ + 1]
                                ELSE [speer EXCEPT !.checked = TRUE]
    /\ UNCHANGED <<reqs, handlers>>

\* Frames are taken one at a time; a request or a description gets a goroutine.
ServerReceives ==
    /\ Up /\ toServer # <<>> /\ ~speer.checked
    /\ toServer' = Tail(toServer)
    /\ LET m == Head(toServer) IN
         \/ m.t = "request" /\ reqs' = reqs \union {m} /\ UNCHANGED <<handlers, speer>>
         \/ /\ m.t = "sdp"
            /\ handlers' = Append(handlers, [m |-> m, at |-> "try"])
            /\ UNCHANGED <<reqs, speer>>
         \/ m.t = "candidate" /\ OnServerCandidate
    /\ UNCHANGED <<browser, toClient, negs, callbacks, pubs, subs, bound, hist>>

\* Mutant: the handler stores without looking again.
CandidateStored ==
    /\ Up /\ speer.checked
    /\ speer' = [speer EXCEPT !.pending = @ + 1, !.checked = FALSE]
    /\ UNCHANGED <<browser, net, reqs, handlers, negs, callbacks, pubs, subs, bound, hist>>

\* The candidate handler under cand_mux looks again before it stores.
CandidateLocked ==
    /\ Up /\ speer.checked
    /\ speer' = IF speer.remote THEN [speer EXCEPT !.added = @ + 1, !.checked = FALSE]
                                ELSE [speer EXCEPT !.pending = @ + 1, !.checked = FALSE]
    /\ UNCHANGED <<browser, net, reqs, handlers, negs, callbacks, pubs, subs, bound, hist>>

\* SignalContext.Publish and Subscribe; the removal of a publication is not acknowledged.
Serve(r) ==
    /\ Up /\ r \in reqs
    /\ reqs' = reqs \ {r}
    /\ LET Set(S, T) == IF r.of \notin T THEN S
                        ELSE IF r.op = "add" THEN S \union {r.of} ELSE S \ {r.of}
       IN pubs' = Set(pubs, Pubs) /\ subs' = Set(subs, Subs)
    /\ bound' = bound \intersect pubs'
    /\ hist' = [hist EXCEPT !.registered = @ \union pubs']
    /\ toClient' = IF r.op = "remove" /\ r.of \in Pubs THEN toClient
                   ELSE Append(toClient, [t |-> "reply", of |-> r.of])
    /\ UNCHANGED <<browser, toServer, handlers, negs, callbacks, speer>>

\* A matching track is accepted: AcceptTrack draws an id and starts a goroutine.
Accept(s) ==
    /\ Up /\ s \in subs /\ hist.accepts[s] < MaxAccepts
    /\ hist' = [hist EXCEPT !.accepts[s] = @ + 1,
                            !.overtaken = @ \/ handlers # <<>>]
    /\ speer' = [speer EXCEPT !.sdpMsgId = @ + 2]
    /\ negs' = negs \union {[of |-> s, id |-> speer.sdpMsgId + 2, at |-> "tell"]}
    /\ UNCHANGED <<browser, net, reqs, handlers, callbacks, pubs, subs, bound>>

Step(n, at) == negs' = (negs \ {n}) \union {[n EXCEPT !.at = at]}

\* MustEmitWithAck "subscribed": the goroutine waits for the acknowledgement.
Tell(n) ==
    /\ Up /\ n \in negs /\ n.at = "tell"
    /\ Step(n, "told")
    /\ toClient' = Append(toClient, [t |-> "subscribed", of |-> n.of, id |-> n.id])
    /\ UNCHANGED <<browser, toServer, reqs, handlers, callbacks, speer, pubs, subs, bound, hist>>

\* StartNegotiate: neg_mux.Lock().
StartLock(n) ==
    /\ Up /\ n \in negs /\ n.at = "lock" /\ ~speer.neg_mux
    /\ Step(n, "create")
    /\ speer' = [speer EXCEPT !.neg_mux = TRUE]
    /\ UNCHANGED <<browser, net, reqs, handlers, callbacks, pubs, subs, bound, hist>>

\* SetLocalDescription(offer) is refused unless stable; then neg_mux stays taken.
StartOffer(n) ==
    /\ Up /\ n \in negs /\ n.at = "create"
    /\ hist' = [hist EXCEPT !.overtaken = @ \/ Overtakes(1)]
    /\ \/ /\ speer.sig = Stable
          /\ Step(n, "send")
          /\ speer' = [speer EXCEPT !.sig = [st |-> "local", id |-> n.id], !.local = TRUE]
       \/ /\ speer.sig # Stable
          /\ negs' = negs \ {n}
          /\ UNCHANGED speer
    /\ UNCHANGED <<browser, net, reqs, handlers, callbacks, pubs, subs, bound>>

StartSend(n) ==
    /\ Up /\ n \in negs /\ n.at = "send"
    /\ negs' = negs \ {n}
    /\ toClient' = Append(toClient, Sdp("offer", n.id, {}))
    /\ UNCHANGED <<browser, toServer, reqs, handlers, callbacks, speer, pubs, subs, bound, hist>>

\* The sdp handler's goroutine takes neg_mux if it is free, and goes on if it is not.
SdpTry(i) ==
    /\ Up /\ handlers[i].at = "try"
    /\ speer' = [speer EXCEPT !.neg_mux = TRUE]
    /\ handlers' = [handlers EXCEPT ![i].at = "remote"]
    /\ UNCHANGED <<browser, net, reqs, negs, callbacks, pubs, subs, bound, hist>>

\* pion: an offer can be set when stable, an answer when an offer is pending.
Settable(m) == speer.sig.st = (IF m.type = "offer" THEN "stable" ELSE "local")

Unmatched(m) == m.type = "answer" /\ m.id # speer.sdpMsgId

\* SetRemoteDescription, or an early return that leaves neg_mux as it is.
SdpRemote(i) ==
    /\ Up /\ handlers[i].at = "remote"
    /\ LET m == handlers[i].m IN
         \/ /\ Unmatched(m) \/ ~Settable(m)
            /\ handlers' = RemoveAt(handlers, i)
            /\ hist' = [hist EXCEPT !.overtaken = @ \/ Overtakes(i)]
            /\ UNCHANGED <<speer, callbacks>>
         \/ /\ ~Unmatched(m) /\ Settable(m)
            /\ speer' = [speer EXCEPT
                           !.sig = IF m.type = "offer" THEN [st |-> "remote", id |-> m.id]
                                                       ELSE Stable,
                           !.remote = TRUE, !.tracks = m.tracks]
            /\ callbacks' = IF m.type = "offer" THEN callbacks
                            ELSE [callbacks EXCEPT !.try = @ + 1]
            /\ handlers' = [handlers EXCEPT ![i].at = "cands"]
            /\ hist' = [hist EXCEPT
                          !.overtaken = @ \/ Overtakes(i),
                          !.mispaired = @ \/ (m.type = "answer" /\ m.id # speer.sig.id)]
    /\ UNCHANGED <<browser, net, reqs, negs, pubs, subs, bound>>

\* processPendingCandidateMsg, under cand_mux.
SdpCandidates(i) ==
    /\ Up /\ handlers[i].at = "cands"
    /\ speer' = [speer EXCEPT !.added = @ + speer.pending, !.pending = 0]
    /\ handlers' = IF handlers[i].m.type = "answer" THEN RemoveAt(handlers, i)
                   ELSE [handlers EXCEPT ![i].at = "answer"]
    /\ UNCHANGED <<browser, net, reqs, negs, callbacks, pubs, subs, bound, hist>>

\* CreateAnswer and SetLocalDescription: stable again, which starts the callback.
SdpAnswer(i) ==
    /\ Up /\ handlers[i].at = "answer"
    /\ speer' = [speer EXCEPT !.sig = Stable, !.local = TRUE]
    /\ callbacks' = [callbacks EXCEPT !.try = @ + 1]
    /\ handlers' = [handlers EXCEPT ![i].at = "send"]
    /\ hist' = [hist EXCEPT !.overtaken = @ \/ Overtakes(1),
                            !.mispaired = @ \/ speer.sig # [st |-> "remote", id |-> handlers[i].m.id]]
    /\ UNCHANGED <<browser, net, reqs, negs, pubs, subs, bound>>

\* Mutant: the handler also releases neg_mux when it has answered.
SdpSendUnlocks(i) ==
    /\ Up /\ handlers[i].at = "send"
    /\ toClient' = Append(toClient, Sdp("answer", handlers[i].m.id, {}))
    /\ handlers' = RemoveAt(handlers, i)
    /\ speer' = [speer EXCEPT !.neg_mux = FALSE]
    /\ UNCHANGED <<browser, toServer, reqs, negs, callbacks, pubs, subs, bound, hist>>

\* The answer carries the id of the offer.
SdpSend(i) ==
    /\ Up /\ handlers[i].at = "send"
    /\ toClient' = Append(toClient, Sdp("answer", handlers[i].m.id, {}))
    /\ handlers' = RemoveAt(handlers, i)
    /\ UNCHANGED <<browser, toServer, reqs, negs, callbacks, speer, pubs, subs, bound, hist>>

\* Mutant: the callback unlocks only what it has locked itself.
CallbackTryOwn ==
    /\ Up /\ callbacks.try > 0
    /\ callbacks' = [callbacks EXCEPT !.try = @ - 1,
                                      !.unlock = IF speer.neg_mux THEN @ ELSE @ + 1]
    /\ speer' = [speer EXCEPT !.neg_mux = TRUE]
    /\ UNCHANGED <<browser, net, reqs, handlers, negs, pubs, subs, bound, hist>>

\* OnSignalingStateChange: TryLock, so that the mutex is taken, by whomever ...
CallbackTry ==
    /\ Up /\ callbacks.try > 0
    /\ callbacks' = [callbacks EXCEPT !.try = @ - 1, !.unlock = @ + 1]
    /\ speer' = [speer EXCEPT !.neg_mux = TRUE]
    /\ UNCHANGED <<browser, net, reqs, handlers, negs, pubs, subs, bound, hist>>

\* ... and Unlock, which ends the process when the mutex is free.
CallbackUnlock ==
    /\ Up /\ callbacks.unlock > 0
    /\ callbacks' = [callbacks EXCEPT !.unlock = @ - 1]
    /\ speer' = [speer EXCEPT !.neg_mux = FALSE]
    /\ hist' = [hist EXCEPT !.crashed = ~speer.neg_mux]
    /\ UNCHANGED <<browser, net, reqs, handlers, negs, pubs, subs, bound>>

\* SignalContext.Bind visits the publications until one is bound completely: with a
\* track each, the first whose track is there, if any is.
BindWalk(arrived) ==
    {q \in pubs \intersect arrived :
        \E k \in DOMAIN Walk : /\ Walk[k] = q
                               /\ \A j \in 1..(k - 1) : Walk[j] \notin pubs \intersect arrived}

\* OnTrack of a track that the remote description carries; a bound track is told.
OnTrack(p) ==
    /\ Up /\ speer.sig = Stable /\ p \in speer.tracks \ hist.arrived
    /\ hist' = [hist EXCEPT !.arrived = @ \union {p}]
    /\ LET now == BindWalk(hist.arrived \union {p}) IN
         \/ now = {} /\ UNCHANGED <<bound, toClient>>
         \/ \E q \in now : /\ bound' = bound \union {q}
                           /\ toClient' = Append(toClient, [t |-> "published", of |-> q])
    /\ UNCHANGED <<browser, toServer, reqs, handlers, negs, callbacks, speer, pubs, subs>>

\* OnICECandidate.
ServerCandidate ==
    /\ Up /\ speer.local /\ speer.found < MaxCands
    /\ speer' = [speer EXCEPT !.found = @ + 1]
    /\ toClient' = Append(toClient, Candidate)
    /\ UNCHANGED <<browser, toServer, reqs, handlers, negs, callbacks, pubs, subs, bound, hist>>

ClientNext ==
    \/ \E p \in Pubs : PublishStart(p)
    \/ \E s \in Subs : SubscribeStart(s)
    \/ ClientReceives \/ Offer \/ TakeSdp \/ DrainCandidates \/ Reply \/ PublishEnd
    \/ TakeSubscribed \/ ClientCandidate

ServerNext ==
    \/ ServerReceives \/ CandidateLocked \/ CallbackTry \/ CallbackUnlock \/ ServerCandidate
    \/ \E r \in reqs : Serve(r)
    \/ \E s \in Subs : Accept(s)
    \/ \E n \in negs : Tell(n) \/ StartLock(n) \/ StartOffer(n) \/ StartSend(n)
    \/ \E i \in DOMAIN handlers : SdpTry(i) \/ SdpRemote(i) \/ SdpCandidates(i)
                                  \/ SdpAnswer(i) \/ SdpSend(i)
    \/ \E p \in Pubs : OnTrack(p)

Next == ClientNext \/ ServerNext \/ GiveUp

Spec == Init /\ [][Next]_vars

(***************************************************************************)
(* Every goroutine and every continuation of the client is run; frames     *)
(* arrive; an accepted track and a track's media come in the end.  Nothing *)
(* is assumed about timeouts.                                              *)
(***************************************************************************)
Fairness ==
    /\ WF_vars(ClientNext)
    /\ WF_vars(ServerReceives) /\ WF_vars(CandidateLocked)
    /\ WF_vars(CallbackTry) /\ WF_vars(CallbackUnlock)
    /\ WF_vars(\E r \in reqs : Serve(r))
    /\ WF_vars(\E s \in Subs : Accept(s))
    /\ WF_vars(\E n \in negs : Tell(n) \/ StartLock(n) \/ StartOffer(n) \/ StartSend(n))
    /\ WF_vars(\E i \in DOMAIN handlers : SdpTry(i) \/ SdpRemote(i) \/ SdpCandidates(i)
                                          \/ SdpAnswer(i) \/ SdpSend(i))
    /\ WF_vars(\E p \in Pubs : OnTrack(p))

LiveSpec == Spec /\ Fairness

(***************************************************************************)
(* Properties                                                              *)
(***************************************************************************)

Sigs == [st : {"stable", "local", "remote"}, id : Nat]

\* The client's and the server's state have the types of their fields.
TypeOK ==
    /\ client.at \in {"idle", "ack", "offer", "answer", "cands", "published",
                      "subscribed", "setup", "reply", "clean"}
    /\ client.task \in Tasks \union {None}
    /\ client.done \subseteq Tasks /\ client.todo \subseteq Tasks
    /\ cpeer.sig \in Sigs /\ speer.sig \in Sigs
    /\ cpeer.senders \subseteq Pubs /\ speer.tracks \subseteq Pubs
    /\ {cpeer.pending, cpeer.added, speer.pending, speer.added} \subseteq 0..MaxCands
    /\ pubs \subseteq Pubs /\ subs \subseteq Subs /\ bound \subseteq pubs
    /\ \A n \in negs : n.of \in Subs /\ n.at \in {"tell", "told", "lock", "create", "send"}
    /\ \A i \in DOMAIN handlers :
          handlers[i].at \in {"try", "remote", "cands", "answer", "send"}

\* No candidate is left behind: as soon as a side has a remote description, the
\* candidates it put off have somebody who is about to add them, although the
\* server's candidate handler and its sdp goroutine look at the description and
\* at the list at different moments.
NoneStranded ==
    /\ speer.remote /\ speer.pending > 0 =>
          \E i \in DOMAIN handlers : handlers[i].at = "cands"
    /\ cpeer.remote /\ cpeer.pending > 0 => client.at = "cands"

\* A description is only ever set against its counterpart: each answer, at either
\* end, meets the pending offer that it answers, and the server's answer the offer
\* it was made for, whatever was given up, overtaken or offered by both in between.
Paired == ~hist.mispaired

\* While no description or callback of the server overtakes an earlier one, the
\* signalling callback never unlocks a neg_mux that is free, which would end the
\* process, although it unlocks for whoever took the mutex.
UnlockSafe == hist.crashed => hist.overtaken

\* "publish must happen before negotiate, because in server, bind only happen in
\* onTrack, which must ensure publication exists": when a track arrives, its
\* publication has been registered, unless the client gave the task up.
PublicationExists == hist.arrived \subseteq hist.registered \union hist.givenUp

\* Every publish and every subscribe ends, in whatever order the client starts
\* them, and whoever takes neg_mux, it is released again, though its holder never
\* does so; unless the client gave a task up or a description or callback overtook
\* another.
Settles ==
    LET Disturbed == hist.givenUp # {} \/ hist.overtaken
    IN  /\ <>(client.done = Tasks \/ Disturbed)
        /\ speer.neg_mux ~> (~speer.neg_mux \/ Disturbed)
=============================================================================
