----------------------------- MODULE Forwarding -----------------------------
(***************************************************************************)
(* How a track gets to its subscribers on one node: Subscription           *)
(* (signal/model.go), Router and Accepter (signal/router.go), and the      *)
(* consumers a Select puts on a PublishedTrack.                            *)
(*                                                                         *)
(* Two kinds of mutex are taken in both orders, and steps are cut where    *)
(* one is awaited.  Subscription.mu is held while pc[s] is not "free".     *)
(* Accepter.mu is held across steps by Close alone: closer[t] holds it     *)
(* while it calls UnbindAccepter for the subscriptions in drain[t].        *)
(*                                                                         *)
(* An accepter never leaves Router.track2accepters, so it is named by its  *)
(* track.                                                                  *)
(***************************************************************************)
EXTENDS Integers, FiniteSets

CONSTANTS
  Subs,       \* subscriptions
  Tracks,     \* published tracks (GlobalId)
  Pubs,       \* publications
  pubOf,      \* the publication of a track
  typeOf,     \* "video" or "audio"
  Patterns,   \* what a subscription asks for: [match : tracks, req : types]
  Readers,    \* goroutines that read packets: run, and one per remote address
  readerOf,   \* the reader of a track
  MaxRefs     \* bound: references an accepter can get

NoPub    == "no publication"
NoTrack  == "no track"
Nobody   == "nobody"

ASSUME TracksAssumption ==
  /\ pubOf \in [Tracks -> Pubs]
  /\ readerOf \in [Tracks -> Readers]
  /\ typeOf \in [Tracks -> {"video", "audio"}]
ASSUME PatternsAssumption ==
  Patterns \subseteq [match : SUBSET Tracks, req : SUBSET {"video", "audio"}]
ASSUME NamesAssumption ==
  NoPub \notin Pubs /\ NoTrack \notin Tracks /\ Nobody \notin Subs \cup Readers
ASSUME SubsAssumption == IsFiniteSet(Subs) /\ Subs \cap Readers = {}
ASSUME MaxRefsAssumption == MaxRefs \in Nat \ {0}

VARIABLES
  closed,         \* subscriptions that are closed
  pattern,        \* Subscription.pattern with reqTypes
  acceptedPubId,  \* NoPub for ""
  acceptedTrack,  \* keys of the map
  pc,             \* what the holder of Subscription.mu does next
  todo,           \* tracks it still has to accept or to give up
  chosen,         \* tracks its Select message will name
  cur,            \* the track it works on
  made,           \* tracks with an accepter in track2accepters
  shut,           \* accepters that are closed
  refs,           \* Accepter.ref_count
  bound,          \* Accepter.subs
  closer,         \* the holder of Accepter.mu inside Close
  drain,          \* subscriptions Close still has to call
  selects,        \* tracks of Select messages on their way
  wired,          \* tracks with a consumer that writes to the router
  media           \* live, dead (the remote track ended) or closed

subVars == <<closed, pattern, acceptedPubId, acceptedTrack, pc, todo, chosen, cur>>
accVars == <<made, shut, refs, bound, closer, drain>>
pubVars == <<selects, wired, media>>
vars == <<closed, pattern, acceptedPubId, acceptedTrack, pc, todo, chosen, cur,
          made, shut, refs, bound, closer, drain, selects, wired, media>>

\* Subscriptions, accepters and publications are well formed: the loops of
\* AcceptTrack and Close have a track to work on.
TypeOK ==
  /\ closed \subseteq Subs
  /\ pattern \in [Subs -> Patterns]
  /\ acceptedPubId \in [Subs -> Pubs \cup {NoPub}]
  /\ acceptedTrack \in [Subs -> SUBSET Tracks]
  /\ pc \in [Subs -> {"free", "accept", "bind", "unbind", "unref", "drain"}]
  /\ todo \in [Subs -> SUBSET Tracks] /\ chosen \in [Subs -> SUBSET Tracks]
  /\ cur \in [Subs -> Tracks \cup {NoTrack}]
  /\ \A s \in Subs : /\ pc[s] \in {"bind", "unref", "drain"} <=> cur[s] # NoTrack
                     /\ pc[s] \in {"accept", "unbind"} => todo[s] # {}
  /\ made \subseteq Tracks /\ shut \subseteq made
  /\ refs \in [Tracks -> Int]
  /\ bound \in [Tracks -> SUBSET Subs]
  /\ closer \in [Tracks -> Subs \cup Readers \cup {Nobody}]
  /\ drain \in [Tracks -> SUBSET Subs]
  /\ selects \subseteq Tracks /\ wired \subseteq Tracks
  /\ media \in [Pubs -> {"live", "dead", "closed"}]

Init ==
  /\ closed = {}
  /\ pattern \in [Subs -> Patterns]
  /\ acceptedPubId = [s \in Subs |-> NoPub]
  /\ acceptedTrack = [s \in Subs |-> {}]
  /\ pc = [s \in Subs |-> "free"]
  /\ todo = [s \in Subs |-> {}] /\ chosen = [s \in Subs |-> {}]
  /\ cur = [s \in Subs |-> NoTrack]
  /\ made = {} /\ shut = {}
  /\ refs = [t \in Tracks |-> 0]
  /\ bound = [t \in Tracks |-> {}]
  /\ closer = [t \in Tracks |-> Nobody]
  /\ drain = [t \in Tracks |-> {}]
  /\ selects = {} /\ wired = {}
  /\ media = [p \in Pubs |-> "live"]
-----------------------------------------------------------------------------
Free(t) == closer[t] = Nobody   \* Accepter.mu can be locked

TracksOf(p) == {t \in Tracks : pubOf[t] = p}

(***************************************************************************)
(* MatchTracks: the tracks that match, of the publications whose matching  *)
(* tracks have every required type.                                        *)
(***************************************************************************)
MatchTracks(p, T) ==
  {t \in T \cap p.match :
     p.req \subseteq {typeOf[u] : u \in {v \in T \cap p.match : pubOf[v] = pubOf[t]}}}

(***************************************************************************)
(* The tracks of a State message: all of them from Publication.Bind, those *)
(* a Want matches from StateWant.  Subscribe leaves ReqTypes out of the    *)
(* Want it sends.                                                          *)
(***************************************************************************)
Announced(p) ==
  ({TracksOf(p)} \cup {TracksOf(p) \cap q.match : q \in Patterns}) \ {{}}

\* Mutant: AcceptTrack does not look whether the subscription is closed.
WillingClosed(s, p) == acceptedPubId[s] \in {NoPub, p}

\* A subscription with an accepted publication takes no other.
Willing(s, p) == s \notin closed /\ acceptedPubId[s] \in {NoPub, p}

(***************************************************************************)
(* AcceptTrack up to its loop: a State message with tracks T of            *)
(* publication p.  Tracks that no longer match are removed, but their      *)
(* accepter keeps the reference and the binding.                           *)
(***************************************************************************)
AcceptTrack(s, p, T) ==
  LET matched == MatchTracks(pattern[s], T)
      keep    == IF acceptedPubId[s] = p THEN acceptedTrack[s] \ (T \ matched)
                                         ELSE acceptedTrack[s]
      fresh   == matched \ keep
  IN  /\ pc[s] = "free"
      /\ Willing(s, p)
      /\ \A t \in fresh : refs[t] < MaxRefs
      /\ acceptedTrack' = [acceptedTrack EXCEPT ![s] = keep]
      /\ acceptedPubId' = [acceptedPubId EXCEPT ![s] = IF matched = {} THEN NoPub ELSE p]
      /\ pc' = [pc EXCEPT ![s] = IF fresh = {} THEN "free" ELSE "accept"]
      /\ todo' = [todo EXCEPT ![s] = fresh]
      /\ chosen' = [chosen EXCEPT ![s] = IF fresh = {} THEN {} ELSE matched]
      /\ UNCHANGED <<closed, pattern, cur, accVars, pubVars>>

\* Mutant: Ref does not count.
RefUncounted(t) == refs

Ref(t) == [refs EXCEPT ![t] = @ + 1]

(***************************************************************************)
(* Router.AcceptTrack for one track of the loop: a new accepter with one   *)
(* reference, or Ref on the one that is there.  Ref of a closed accepter   *)
(* returns nil and the loop tries again, with Subscription.mu held: there  *)
(* is no step.                                                             *)
(***************************************************************************)
Obtain(s, t) ==
  /\ pc[s] = "accept"
  /\ t \in todo[s]
  /\ t \in made => Free(t) /\ t \notin shut
  /\ made' = made \cup {t}
  /\ refs' = IF t \in made THEN Ref(t) ELSE [refs EXCEPT ![t] = 1]
  /\ acceptedTrack' = [acceptedTrack EXCEPT ![s] = @ \cup {t}]
  /\ pc' = [pc EXCEPT ![s] = "bind"]
  /\ cur' = [cur EXCEPT ![s] = t]
  /\ todo' = [todo EXCEPT ![s] = @ \ {t}]
  /\ UNCHANGED <<closed, pattern, acceptedPubId, chosen, shut, bound, closer, drain, pubVars>>

\* Mutant: only the first subscription is put into the map.
BoundFirst(t, s) == IF bound[t] = {} THEN [bound EXCEPT ![t] = {s}] ELSE bound

\* Accepter.BindSub
Bound(t, s) == [bound EXCEPT ![t] = @ \cup {s}]

\* Mutant: the subscription stays in the map.
UnboundNot(t, s) == bound

\* Accepter.UnbindSub
Unbound(t, s) == [bound EXCEPT ![t] = @ \ {s}]

(***************************************************************************)
(* The end of an iteration, and after the last track the Select message.   *)
(***************************************************************************)
BindSub(s) ==
  /\ pc[s] = "bind"
  /\ Free(cur[s])
  /\ bound' = Bound(cur[s], s)
  /\ cur' = [cur EXCEPT ![s] = NoTrack]
  /\ IF todo[s] = {}
       THEN /\ pc' = [pc EXCEPT ![s] = "free"]
            /\ selects' = selects \cup chosen[s]
            /\ chosen' = [chosen EXCEPT ![s] = {}]
       ELSE /\ pc' = [pc EXCEPT ![s] = "accept"]
            /\ UNCHANGED <<selects, chosen>>
  /\ UNCHANGED <<closed, pattern, acceptedPubId, acceptedTrack, todo,
                 made, shut, refs, closer, drain, wired, media>>

(***************************************************************************)
(* UpdatePattern: the Want that Subscribe sends next only makes the        *)
(* publications announce themselves again.                                 *)
(***************************************************************************)
UpdatePattern(s, p) ==
  /\ pc[s] = "free"
  /\ acceptedTrack' = [acceptedTrack EXCEPT ![s] = MatchTracks(p, @)]
  /\ pattern' = [pattern EXCEPT ![s] = p]
  /\ UNCHANGED <<closed, acceptedPubId, pc, todo, cur, chosen, accVars, pubVars>>
-----------------------------------------------------------------------------
(***************************************************************************)
(* Subscription.Close, from Subscribe or SelfClose: for every accepted     *)
(* track UnbindSub, Accepter.Close(false), and the track is removed.       *)
(***************************************************************************)
Close(s) ==
  /\ pc[s] = "free"
  /\ closed' = closed \cup {s}
  /\ todo' = [todo EXCEPT ![s] = acceptedTrack[s]]
  /\ pc' = [pc EXCEPT ![s] = IF acceptedTrack[s] = {} THEN "free" ELSE "unbind"]
  /\ UNCHANGED <<pattern, acceptedPubId, acceptedTrack, cur, chosen, accVars, pubVars>>

UnbindSub(s, t) ==
  /\ pc[s] = "unbind"
  /\ t \in todo[s]
  /\ Free(t)
  /\ bound' = Unbound(t, s)
  /\ pc' = [pc EXCEPT ![s] = "unref"]
  /\ cur' = [cur EXCEPT ![s] = t]
  /\ todo' = [todo EXCEPT ![s] = @ \ {t}]
  /\ UNCHANGED <<closed, pattern, acceptedPubId, acceptedTrack, chosen,
                 made, shut, refs, closer, drain, pubVars>>

(***************************************************************************)
(* Accepter.Close once it has the mutex and ref_count is zero.             *)
(***************************************************************************)
Shut(t, by) ==
  /\ shut' = shut \cup {t}
  /\ closer' = [closer EXCEPT ![t] = by]
  /\ drain' = [drain EXCEPT ![t] = bound[t]]

\* Accepter.Close(false): the last reference closes the accepter.
Unref(s) ==
  LET t == cur[s]
  IN  /\ pc[s] = "unref"
      /\ Free(t)
      /\ refs' = [refs EXCEPT ![t] = @ - 1]
      /\ IF refs[t] = 1 THEN Shut(t, s) ELSE UNCHANGED <<shut, closer, drain>>
      /\ pc' = [pc EXCEPT ![s] = "drain"]
      /\ UNCHANGED <<closed, pattern, acceptedPubId, acceptedTrack, todo, cur, chosen,
                     made, bound, pubVars>>

(***************************************************************************)
(* UnbindAccepter, called by the goroutine that closes accepter t, waits   *)
(* for the mutex of subscription s.                                        *)
(***************************************************************************)
UnbindAccepter(t, s) ==
  /\ s \in drain[t]
  /\ pc[s] = "free"
  /\ acceptedTrack' = [acceptedTrack EXCEPT ![s] = @ \ {t}]
  /\ drain' = [drain EXCEPT ![t] = @ \ {s}]
  /\ UNCHANGED <<closed, pattern, acceptedPubId, pc, todo, cur, chosen,
                 made, shut, refs, bound, closer, pubVars>>

\* Accepter.Close returns: subs = nil, the mutex is released.
Released(t) ==
  /\ closer' = [closer EXCEPT ![t] = Nobody]
  /\ bound' = [bound EXCEPT ![t] = {}]

\* Back in Subscription.Close: the track goes, the next one is taken.
RemoveTrack(s) ==
  LET t == cur[s]
  IN  /\ pc[s] = "drain"
      /\ IF closer[t] = s
           THEN drain[t] = {} /\ Released(t)
           ELSE UNCHANGED <<closer, bound>>
      /\ acceptedTrack' = [acceptedTrack EXCEPT ![s] = @ \ {t}]
      /\ cur' = [cur EXCEPT ![s] = NoTrack]
      /\ pc' = [pc EXCEPT ![s] = IF todo[s] = {} THEN "free" ELSE "unbind"]
      /\ UNCHANGED <<closed, pattern, acceptedPubId, todo, chosen,
                     made, shut, refs, drain, pubVars>>
-----------------------------------------------------------------------------
(***************************************************************************)
(* SatifySelect: the router becomes a consumer of the track.  A closed     *)
(* publication ignores the message.                                        *)
(***************************************************************************)
SatifySelect(t) ==
  /\ t \in selects
  /\ selects' = selects \ {t}
  /\ wired' = IF media[pubOf[t]] = "closed" THEN wired ELSE wired \cup {t}
  /\ UNCHANGED <<subVars, accVars, media>>

\* The peer connection ends, or the publication is removed.
MediaEnds(p) ==
  /\ \/ media[p] = "live" /\ media' = [media EXCEPT ![p] = "dead"]
     \/ media[p] # "closed" /\ media' = [media EXCEPT ![p] = "closed"]
  /\ UNCHANGED <<subVars, accVars, selects, wired>>

(***************************************************************************)
(* The reader of a track gets its EOF packet, which the consumer sends     *)
(* when it is removed: Accepter.Close(true).  A wired track has an         *)
(* accepter.  A reader that waits in Close reads nothing.                  *)
(***************************************************************************)
EOF(t) ==
  /\ t \in wired /\ media[pubOf[t]] # "live"
  /\ \A u \in Tracks : closer[u] # readerOf[t]
  /\ wired' = wired \ {t}
  /\ Free(t)
  /\ refs' = [refs EXCEPT ![t] = 0]
  /\ Shut(t, readerOf[t])
  /\ UNCHANGED <<subVars, made, bound, selects, media>>

CloseReturns(t) ==
  /\ closer[t] = readerOf[t]
  /\ drain[t] = {}
  /\ Released(t)
  /\ UNCHANGED <<subVars, made, shut, refs, drain, pubVars>>

Next ==
  \/ \E s \in Subs, p \in Pubs : \E T \in Announced(p) : AcceptTrack(s, p, T)
  \/ \E s \in Subs, t \in Tracks : Obtain(s, t) \/ UnbindSub(s, t) \/ UnbindAccepter(t, s)
  \/ \E s \in Subs, p \in Patterns : UpdatePattern(s, p)
  \/ \E s \in Subs : BindSub(s) \/ Close(s) \/ Unref(s) \/ RemoveTrack(s)
  \/ \E t \in Tracks : SatifySelect(t) \/ EOF(t) \/ CloseReturns(t)
  \/ \E p \in Pubs : MediaEnds(p)

Spec == Init /\ [][Next]_vars
-----------------------------------------------------------------------------
\* Subscriptions that own a reference of accepter t.
Holders(t) ==
  {s \in Subs : t \in acceptedTrack[s] /\ ~(pc[s] = "drain" /\ cur[s] = t)}

(***************************************************************************)
(* Reference counting (Ref, NewAccepter, Close(false)): an accepter whose  *)
(* track is live is closed only when no subscription holds the track any   *)
(* more, whatever accepting, pattern updates and closing interleave.       *)
(***************************************************************************)
NotClosedInUse ==
  \A t \in shut : media[pubOf[t]] = "live" => Holders(t) = {}

(***************************************************************************)
(* A subscription that has a track of an open accepter is in its subs, so  *)
(* that the EOF (Accepter.Close) will reach it through UnbindAccepter.     *)
(***************************************************************************)
EOFWillReach ==
  \A s \in Subs : \A t \in acceptedTrack[s] \ shut :
    pc[s] \in {"free", "accept"} => s \in bound[t]

(***************************************************************************)
(* Two subscriptions never wait for each other: a Subscription.Close that  *)
(* drops the last reference finds nobody left to call, so it waits for no  *)
(* other Subscription.mu while it holds Accepter.mu.  Only the EOF takes   *)
(* the mutexes in the opposite order.                                      *)
(***************************************************************************)
SubsDoNotWait == \A t \in Tracks : closer[t] \in Subs => drain[t] = {}

(***************************************************************************)
(* "when closed, s.acceptedTrack is empty, so no need check closed"        *)
(* (UnbindAccepter, UpdatePattern): once Close has returned nothing puts   *)
(* a track back, not even an AcceptTrack that was waiting for the mutex.   *)
(***************************************************************************)
ClosedIsEmpty == \A s \in closed : pc[s] = "free" => acceptedTrack[s] = {}
=============================================================================
