-------------------------- MODULE ForwardingProofs --------------------------
(***************************************************************************)
(* Proofs about subscriptions and accepters for any number of both: an     *)
(* accepter has at least as many references as subscriptions that hold its *)
(* track or are in its subs, so that the Close which drops the last one    *)
(* closes nothing in use and has nobody left to call.                      *)
(***************************************************************************)
EXTENDS Forwarding, FiniteSetTheorems, TLAPS

\* Subscriptions that hold track t or that accepter t would call.
Owners(t) == Holders(t) \cup bound[t]

\* A counter that is not below the number of elements of a set.
Counts(n, S) == IsFiniteSet(S) /\ n \in Int /\ Cardinality(S) <= n

(***************************************************************************)
(* What the holder of Subscription.mu works on: AcceptTrack and Close are  *)
(* inside their loops, and what they have obtained has an accepter.        *)
(***************************************************************************)
LoopInv ==
  /\ \A s \in Subs : /\ acceptedTrack[s] \subseteq made
                     /\ chosen[s] \subseteq made \cup todo[s]
                     /\ pc[s] \notin {"accept", "bind"} => chosen[s] = {}
                     /\ cur[s] # NoTrack => cur[s] \in acceptedTrack[s]
                     /\ pc[s] \in {"unbind", "unref", "drain"} => todo[s] \subseteq acceptedTrack[s]
                     /\ pc[s] \in {"accept", "bind"} => todo[s] \cap acceptedTrack[s] = {}
                     /\ cur[s] \notin todo[s]
  /\ selects \subseteq made /\ wired \subseteq made
  /\ \A t \in Tracks : closer[t] # Nobody \/ drain[t] # {} => t \in shut

(***************************************************************************)
(* The references of an accepter.  One that is closed has none left, and   *)
(* either no subscription or a track that is not live.                     *)
(***************************************************************************)
RefInv ==
  /\ \A t \in Tracks : /\ t \notin made => bound[t] = {}
                       /\ t \notin shut => Counts(refs[t], Owners(t))
                       /\ t \in shut => refs[t] <= 0
                       /\ t \in shut /\ media[pubOf[t]] = "live" => Holders(t) = {}
                       /\ closer[t] \in Subs => drain[t] = {}
  /\ \A s \in Subs : pc[s] = "unref" => s \notin bound[cur[s]]

(***************************************************************************)
(* A track that a subscription has is in the subs of its open accepter,    *)
(* but for the one that it is about to bind or has just unbound.           *)
(***************************************************************************)
BoundInv ==
  \A s \in Subs : \A t \in acceptedTrack[s] \ shut : s \in bound[t] \/ cur[s] = t

\* What a closing subscription still has is what its loop is yet to give up.
ClosingInv ==
  \A s \in closed : /\ pc[s] \notin {"accept", "bind"}
                    /\ pc[s] = "free" => acceptedTrack[s] = {}
                    /\ acceptedTrack[s] \subseteq todo[s] \cup {cur[s]}

Inv == TypeOK /\ LoopInv /\ RefInv /\ BoundInv /\ ClosingInv
-----------------------------------------------------------------------------
\* MatchTracks only chooses: it adds no track.
LEMMA MatchTracksChooses ==
  ASSUME NEW p, NEW T
  PROVE  MatchTracks(p, T) \subseteq T
BY Zenon DEF MatchTracks

\* A State message names tracks.
LEMMA AnnouncedTracks ==
  ASSUME NEW p \in Pubs, NEW T \in Announced(p)
  PROVE  T \subseteq Tracks
BY Zenon DEF Announced, TracksOf

\* The names of absent things are no things.
LEMMA Names ==
  /\ NoTrack \notin Tracks /\ NoPub \notin Pubs /\ Nobody \notin Subs \cup Readers
  /\ \A t \in Tracks : pubOf[t] \in Pubs /\ readerOf[t] \in Readers /\ readerOf[t] \notin Subs
  /\ \A t \in Tracks : readerOf[t] # Nobody
BY NamesAssumption, TracksAssumption, SubsAssumption, Zenon

\* Every step of a subscription, an accepter or a publication keeps them well formed.
LEMMA TypeStep == TypeOK /\ LoopInv /\ [Next]_vars => TypeOK'
<1> SUFFICES ASSUME TypeOK, LoopInv, [Next]_vars PROVE TypeOK'
  BY Zenon
<1>1. ASSUME NEW s \in Subs, NEW p \in Pubs, NEW T \in Announced(p), AcceptTrack(s, p, T) PROVE TypeOK'
  BY <1>1, MatchTracksChooses, AnnouncedTracks DEF AcceptTrack, accVars, pubVars, TypeOK
<1>2. ASSUME NEW s \in Subs, NEW t \in Tracks, Obtain(s, t) PROVE TypeOK'
  BY <1>2, Names DEF Obtain, Ref, pubVars, TypeOK
<1>3. ASSUME NEW s \in Subs, NEW t \in Tracks, UnbindSub(s, t) PROVE TypeOK'
  BY <1>3, Names, Zenon DEF UnbindSub, Unbound, pubVars, TypeOK
<1>4. ASSUME NEW s \in Subs, NEW t \in Tracks, UnbindAccepter(t, s) PROVE TypeOK'
  BY <1>4, Zenon DEF UnbindAccepter, pubVars, TypeOK
<1>5. ASSUME NEW s \in Subs, NEW p \in Patterns, UpdatePattern(s, p) PROVE TypeOK'
  BY <1>5, MatchTracksChooses, Zenon DEF UpdatePattern, accVars, pubVars, TypeOK
<1>6. ASSUME NEW s \in Subs, BindSub(s) PROVE TypeOK'
  BY <1>6 DEF BindSub, Bound, TypeOK
<1>7. ASSUME NEW s \in Subs, Close(s) PROVE TypeOK'
  BY <1>7, Zenon DEF Close, accVars, pubVars, TypeOK
<1>8. ASSUME NEW s \in Subs, Unref(s) PROVE TypeOK'
  <2>1. PICK t \in Tracks : t = cur[s] /\ t \in made
    BY <1>8 DEF Unref, LoopInv, TypeOK
  <2>2. /\ UNCHANGED <<closed, pattern, acceptedPubId, acceptedTrack, todo, cur, chosen>>
        /\ UNCHANGED <<made, bound, selects, wired, media>>
    BY <1>8, Zenon DEF Unref, pubVars
  <2>3. /\ pc[s] = "unref" /\ pc' = [pc EXCEPT ![s] = "drain"]
        /\ refs' = [refs EXCEPT ![t] = refs[t] - 1]
    BY <1>8, <2>1, Zenon DEF Unref
  <2>4. \/ UNCHANGED <<shut, closer, drain>>
        \/ /\ shut' = shut \cup {t} /\ closer' = [closer EXCEPT ![t] = s]
           /\ drain' = [drain EXCEPT ![t] = bound[t]]
    BY <1>8, <2>1, Zenon DEF Unref, Shut
  <2> QED BY <2>1, <2>2, <2>3, <2>4 DEF TypeOK
<1>9. ASSUME NEW s \in Subs, RemoveTrack(s) PROVE TypeOK'
  BY <1>9, Zenon DEF RemoveTrack, Released, pubVars, TypeOK
<1>10. ASSUME NEW t \in Tracks, SatifySelect(t) PROVE TypeOK'
  BY <1>10, Zenon DEF SatifySelect, subVars, accVars, TypeOK
<1>11. ASSUME NEW t \in Tracks, EOF(t) PROVE TypeOK'
  BY <1>11, Names DEF EOF, Shut, subVars, LoopInv, TypeOK
<1>12. ASSUME NEW t \in Tracks, CloseReturns(t) PROVE TypeOK'
  BY <1>12, Zenon DEF CloseReturns, Released, subVars, pubVars, TypeOK
<1>13. ASSUME NEW p \in Pubs, MediaEnds(p) PROVE TypeOK'
  BY <1>13, Zenon DEF MediaEnds, subVars, accVars, TypeOK
<1>14. CASE UNCHANGED vars
  BY <1>14, Zenon DEF vars, TypeOK
<1> QED BY <1>1, <1>2, <1>3, <1>4, <1>5, <1>6, <1>7, <1>8, <1>9, <1>10, <1>11, <1>12, <1>13, <1>14, Zenon DEF Next

\* The loops of AcceptTrack and Close keep to what they have and have to do.
LEMMA LoopStep == TypeOK /\ LoopInv /\ [Next]_vars => LoopInv'
<1> SUFFICES ASSUME TypeOK, LoopInv, [Next]_vars PROVE LoopInv'
  BY Zenon
<1>s. /\ acceptedTrack \in [Subs -> SUBSET Tracks] /\ cur \in [Subs -> Tracks \cup {NoTrack}]
      /\ todo \in [Subs -> SUBSET Tracks] /\ chosen \in [Subs -> SUBSET Tracks]
      /\ pc \in [Subs -> {"free", "accept", "bind", "unbind", "unref", "drain"}]
      /\ \A s \in Subs : /\ pc[s] \in {"bind", "unref", "drain"} <=> cur[s] # NoTrack
                         /\ pc[s] \in {"accept", "unbind"} => todo[s] # {}
  BY Zenon DEF TypeOK, LoopInv
<1>a. /\ made \subseteq Tracks /\ shut \subseteq made /\ selects \subseteq Tracks /\ wired \subseteq Tracks
      /\ closer \in [Tracks -> Subs \cup Readers \cup {Nobody}] /\ drain \in [Tracks -> SUBSET Subs]
  BY Zenon DEF TypeOK, LoopInv
<1>1. ASSUME NEW s \in Subs, NEW p \in Pubs, NEW T \in Announced(p), AcceptTrack(s, p, T) PROVE LoopInv'
  <2> DEFINE matched == MatchTracks(pattern[s], T)
             keep == IF acceptedPubId[s] = p THEN acceptedTrack[s] \ (T \ matched)
                                             ELSE acceptedTrack[s]
             fresh == matched \ keep
  <2>1. pc[s] = "free" /\ cur[s] = NoTrack /\ keep \subseteq acceptedTrack[s]
    BY <1>1, <1>s, Zenon DEF AcceptTrack, LoopInv
  <2>2. /\ acceptedTrack' = [acceptedTrack EXCEPT ![s] = keep]
        /\ pc' = [pc EXCEPT ![s] = IF fresh = {} THEN "free" ELSE "accept"]
        /\ todo' = [todo EXCEPT ![s] = fresh]
        /\ chosen' = [chosen EXCEPT ![s] = IF fresh = {} THEN {} ELSE matched]
    BY <1>1, Zenon DEF AcceptTrack, LoopInv
  <2>3. UNCHANGED <<cur, made, shut, closer, drain, selects, wired>>
    BY <1>1, Zenon DEF AcceptTrack, accVars, pubVars, LoopInv
  <2>4. matched \subseteq keep \cup fresh /\ fresh \cap keep = {} /\ fresh \subseteq Tracks
    BY MatchTracksChooses, AnnouncedTracks, Zenon DEF LoopInv
  <2> HIDE DEF matched, keep, fresh
  <2>5. \A u \in Subs :
          /\ acceptedTrack'[u] = IF u = s THEN keep ELSE acceptedTrack[u]
          /\ pc'[u] = IF u = s THEN IF fresh = {} THEN "free" ELSE "accept" ELSE pc[u]
          /\ todo'[u] = IF u = s THEN fresh ELSE todo[u]
          /\ chosen'[u] = IF u = s THEN IF fresh = {} THEN {} ELSE matched ELSE chosen[u]
    BY <2>2, <1>s, Zenon DEF LoopInv
  <2> QED BY <2>1, <2>3, <2>4, <2>5, <1>s, <1>a, Names DEF LoopInv, Free
<1>2. ASSUME NEW s \in Subs, NEW t \in Tracks, Obtain(s, t) PROVE LoopInv'
  BY <1>2, <1>s DEF Obtain, Ref, pubVars, LoopInv
<1>3. ASSUME NEW s \in Subs, NEW t \in Tracks, UnbindSub(s, t) PROVE LoopInv'
  BY <1>3, <1>s, Zenon DEF UnbindSub, Unbound, pubVars, LoopInv
<1>4. ASSUME NEW s \in Subs, NEW t \in Tracks, UnbindAccepter(t, s) PROVE LoopInv'
  BY <1>4, <1>s DEF UnbindAccepter, pubVars, LoopInv
<1>5. ASSUME NEW s \in Subs, NEW p \in Patterns, UpdatePattern(s, p) PROVE LoopInv'
  BY <1>5, MatchTracksChooses, <1>s, Zenon DEF UpdatePattern, accVars, pubVars, LoopInv
<1>6. ASSUME NEW s \in Subs, BindSub(s) PROVE LoopInv'
  BY <1>6, <1>s, <1>a, Names DEF BindSub, Bound, LoopInv, Free
<1>7. ASSUME NEW s \in Subs, Close(s) PROVE LoopInv'
  BY <1>7, <1>s, <1>a, Names DEF Close, accVars, pubVars, LoopInv, Free
<1>8. ASSUME NEW s \in Subs, Unref(s) PROVE LoopInv'
  BY <1>8, <1>a DEF Unref, Shut, pubVars, LoopInv
<1>9. ASSUME NEW s \in Subs, RemoveTrack(s) PROVE LoopInv'
  BY <1>9, <1>s, <1>a, Names DEF RemoveTrack, Released, pubVars, LoopInv, Free
<1>10. ASSUME NEW t \in Tracks, SatifySelect(t) PROVE LoopInv'
  BY <1>10, Zenon DEF SatifySelect, subVars, accVars, LoopInv
<1>11. ASSUME NEW t \in Tracks, EOF(t) PROVE LoopInv'
  BY <1>11 DEF EOF, Shut, subVars, LoopInv
<1>12. ASSUME NEW t \in Tracks, CloseReturns(t) PROVE LoopInv'
  BY <1>12 DEF CloseReturns, Released, subVars, pubVars, LoopInv
<1>13. ASSUME NEW p \in Pubs, MediaEnds(p) PROVE LoopInv'
  BY <1>13, Zenon DEF MediaEnds, subVars, accVars, LoopInv
<1>14. CASE UNCHANGED vars
  BY <1>14, Zenon DEF vars, LoopInv
<1> QED BY <1>1, <1>2, <1>3, <1>4, <1>5, <1>6, <1>7, <1>8, <1>9, <1>10, <1>11, <1>12, <1>13, <1>14, Zenon DEF Next

\* BindSub follows Ref, and only Close empties the subs of an accepter.
LEMMA BoundStep == TypeOK /\ LoopInv /\ BoundInv /\ [Next]_vars => BoundInv'
<1> SUFFICES ASSUME TypeOK, LoopInv, BoundInv, [Next]_vars PROVE BoundInv'
  BY Zenon
<1>s. /\ acceptedTrack \in [Subs -> SUBSET Tracks] /\ todo \in [Subs -> SUBSET Tracks]
      /\ cur \in [Subs -> Tracks \cup {NoTrack}]
      /\ pc \in [Subs -> {"free", "accept", "bind", "unbind", "unref", "drain"}]
      /\ \A s \in Subs : /\ pc[s] \in {"bind", "unref", "drain"} <=> cur[s] # NoTrack
                         /\ pc[s] \in {"accept", "unbind"} => todo[s] # {}
  BY Zenon DEF TypeOK, BoundInv
<1>a. /\ made \subseteq Tracks /\ shut \subseteq made /\ bound \in [Tracks -> SUBSET Subs]
      /\ closer \in [Tracks -> Subs \cup Readers \cup {Nobody}] /\ drain \in [Tracks -> SUBSET Subs]
  BY Zenon DEF TypeOK, BoundInv
<1>1. ASSUME NEW s \in Subs, NEW p \in Pubs, NEW T \in Announced(p), AcceptTrack(s, p, T) PROVE BoundInv'
  BY <1>1, MatchTracksChooses DEF AcceptTrack, accVars, pubVars, BoundInv
<1>2. ASSUME NEW s \in Subs, NEW t \in Tracks, Obtain(s, t) PROVE BoundInv'
  BY <1>2, <1>s, <1>a, Names DEF Obtain, Ref, pubVars, BoundInv
<1>3. ASSUME NEW s \in Subs, NEW t \in Tracks, UnbindSub(s, t) PROVE BoundInv'
  BY <1>3, <1>s, <1>a, Names DEF UnbindSub, Unbound, pubVars, BoundInv
<1>4. ASSUME NEW s \in Subs, NEW t \in Tracks, UnbindAccepter(t, s) PROVE BoundInv'
  BY <1>4 DEF UnbindAccepter, pubVars, BoundInv
<1>5. ASSUME NEW s \in Subs, NEW p \in Patterns, UpdatePattern(s, p) PROVE BoundInv'
  BY <1>5, MatchTracksChooses DEF UpdatePattern, accVars, pubVars, BoundInv
<1>6. ASSUME NEW s \in Subs, BindSub(s) PROVE BoundInv'
  BY <1>6, <1>s, <1>a, Zenon DEF BindSub, Bound, BoundInv
<1>7. ASSUME NEW s \in Subs, Close(s) PROVE BoundInv'
  BY <1>7, Zenon DEF Close, accVars, pubVars, BoundInv
<1>8. ASSUME NEW s \in Subs, Unref(s) PROVE BoundInv'
  BY <1>8, Zenon DEF Unref, Shut, pubVars, BoundInv
<1>9. ASSUME NEW s \in Subs, RemoveTrack(s) PROVE BoundInv'
  BY <1>9, <1>s, <1>a, Names DEF RemoveTrack, Released, pubVars, LoopInv, BoundInv
<1>10. ASSUME NEW t \in Tracks, SatifySelect(t) PROVE BoundInv'
  BY <1>10, Zenon DEF SatifySelect, subVars, accVars, BoundInv
<1>11. ASSUME NEW t \in Tracks, EOF(t) PROVE BoundInv'
  BY <1>11, Zenon DEF EOF, Shut, subVars, BoundInv
<1>12. ASSUME NEW t \in Tracks, CloseReturns(t) PROVE BoundInv'
  BY <1>12, <1>s, <1>a, Names DEF CloseReturns, Released, subVars, pubVars, LoopInv, BoundInv
<1>13. ASSUME NEW p \in Pubs, MediaEnds(p) PROVE BoundInv'
  BY <1>13, Zenon DEF MediaEnds, subVars, accVars, BoundInv
<1>14. CASE UNCHANGED vars
  BY <1>14, Zenon DEF vars, BoundInv
<1> QED BY <1>1, <1>2, <1>3, <1>4, <1>5, <1>6, <1>7, <1>8, <1>9, <1>10, <1>11, <1>12, <1>13, <1>14, Zenon DEF Next

\* No track is put back into a subscription once it is closed.
LEMMA ClosingStep == TypeOK /\ LoopInv /\ ClosingInv /\ [Next]_vars => ClosingInv'
<1> SUFFICES ASSUME TypeOK, LoopInv, ClosingInv, [Next]_vars PROVE ClosingInv'
  BY Zenon
<1>s. /\ acceptedTrack \in [Subs -> SUBSET Tracks] /\ todo \in [Subs -> SUBSET Tracks]
      /\ cur \in [Subs -> Tracks \cup {NoTrack}]
      /\ pc \in [Subs -> {"free", "accept", "bind", "unbind", "unref", "drain"}]
      /\ \A s \in Subs : /\ pc[s] \in {"bind", "unref", "drain"} <=> cur[s] # NoTrack
                         /\ pc[s] \in {"accept", "unbind"} => todo[s] # {}
  BY Zenon DEF TypeOK, ClosingInv
<1>1. ASSUME NEW s \in Subs, NEW p \in Pubs, NEW T \in Announced(p), AcceptTrack(s, p, T) PROVE ClosingInv'
  BY <1>1, MatchTracksChooses DEF AcceptTrack, Willing, accVars, pubVars, ClosingInv
<1>2. ASSUME NEW s \in Subs, NEW t \in Tracks, Obtain(s, t) PROVE ClosingInv'
  BY <1>2 DEF Obtain, Ref, pubVars, ClosingInv
<1>3. ASSUME NEW s \in Subs, NEW t \in Tracks, UnbindSub(s, t) PROVE ClosingInv'
  <2>1. pc[s] = "unbind" /\ cur[s] = NoTrack /\ NoTrack \notin acceptedTrack[s]
    BY <1>3, <1>s, Names, Zenon DEF UnbindSub, ClosingInv
  <2>2. s \in closed => acceptedTrack[s] \subseteq (todo[s] \ {t}) \cup {t}
    BY <2>1, Zenon DEF ClosingInv
  <2>3. \A u \in Subs : /\ cur'[u] = IF u = s THEN t ELSE cur[u]
                        /\ todo'[u] = IF u = s THEN todo[s] \ {t} ELSE todo[u]
                        /\ pc'[u] = IF u = s THEN "unref" ELSE pc[u]
    BY <1>3, <1>s, Zenon DEF UnbindSub, ClosingInv
  <2>4. UNCHANGED <<closed, acceptedTrack>>
    BY <1>3, Zenon DEF UnbindSub, ClosingInv
  <2> QED BY <2>2, <2>3, <2>4, Names DEF TypeOK, LoopInv, ClosingInv
<1>4. ASSUME NEW s \in Subs, NEW t \in Tracks, UnbindAccepter(t, s) PROVE ClosingInv'
  BY <1>4 DEF UnbindAccepter, pubVars, ClosingInv
<1>5. ASSUME NEW s \in Subs, NEW p \in Patterns, UpdatePattern(s, p) PROVE ClosingInv'
  BY <1>5, MatchTracksChooses DEF UpdatePattern, accVars, pubVars, ClosingInv
<1>6. ASSUME NEW s \in Subs, BindSub(s) PROVE ClosingInv'
  BY <1>6, Names DEF BindSub, Bound, TypeOK, LoopInv, ClosingInv
<1>7. ASSUME NEW s \in Subs, Close(s) PROVE ClosingInv'
  BY <1>7, <1>s DEF Close, accVars, pubVars, ClosingInv
<1>8. ASSUME NEW s \in Subs, Unref(s) PROVE ClosingInv'
  BY <1>8 DEF Unref, Shut, pubVars, ClosingInv
<1>9. ASSUME NEW s \in Subs, RemoveTrack(s) PROVE ClosingInv'
  BY <1>9, <1>s DEF RemoveTrack, Released, pubVars, ClosingInv
<1>10. ASSUME NEW t \in Tracks, SatifySelect(t) PROVE ClosingInv'
  BY <1>10, Zenon DEF SatifySelect, subVars, accVars, ClosingInv
<1>11. ASSUME NEW t \in Tracks, EOF(t) PROVE ClosingInv'
  BY <1>11, Zenon DEF EOF, Shut, subVars, ClosingInv
<1>12. ASSUME NEW t \in Tracks, CloseReturns(t) PROVE ClosingInv'
  BY <1>12, Zenon DEF CloseReturns, Released, subVars, pubVars, ClosingInv
<1>13. ASSUME NEW p \in Pubs, MediaEnds(p) PROVE ClosingInv'
  BY <1>13, Zenon DEF MediaEnds, subVars, accVars, ClosingInv
<1>14. CASE UNCHANGED vars
  BY <1>14, Zenon DEF vars, ClosingInv
<1> QED BY <1>1, <1>2, <1>3, <1>4, <1>5, <1>6, <1>7, <1>8, <1>9, <1>10, <1>11, <1>12, <1>13, <1>14, Zenon DEF Next
-----------------------------------------------------------------------------
\* A count is enough for fewer.
LEMMA CountsSub ==
  ASSUME NEW n, NEW S, NEW T, Counts(n, S), T \subseteq S
  PROVE  Counts(n, T)
<1>1. IsFiniteSet(T) /\ Cardinality(T) \in Nat /\ Cardinality(S) \in Nat /\ Cardinality(T) <= Cardinality(S)
  BY FS_Subset, FS_CardinalityType, Zenon DEF Counts
<1> QED BY <1>1 DEF Counts

\* Ref: one more reference is enough for one more subscription.
LEMMA CountsAdd ==
  ASSUME NEW n, NEW S, NEW T, NEW x, Counts(n, S), T \subseteq S \cup {x}
  PROVE  Counts(n + 1, T)
<1>1. IsFiniteSet(S) /\ n \in Int /\ Cardinality(S) <= n
  BY Zenon DEF Counts
<1>2. IsFiniteSet(S \cup {x})
  BY <1>1, FS_AddElement, Zenon
<1>3. Cardinality(S \cup {x}) = IF x \in S THEN Cardinality(S) ELSE Cardinality(S) + 1
  BY <1>1, FS_AddElement, Zenon
<1>4. Cardinality(S) \in Nat
  BY <1>1, FS_CardinalityType, Zenon
<1>5. Counts(n + 1, S \cup {x})
  BY <1>1, <1>2, <1>3, <1>4 DEF Counts
<1> QED BY <1>5, CountsSub, Zenon

\* Close(false): one reference less is enough for one subscription less.
LEMMA CountsRemove ==
  ASSUME NEW n, NEW S, NEW T, NEW x \in S, Counts(n, S), T \subseteq S \ {x}
  PROVE  Counts(n - 1, T)
<1>1. IsFiniteSet(S) /\ n \in Int /\ Cardinality(S) <= n
  BY Zenon DEF Counts
<1>2. IsFiniteSet(S \ {x})
  BY <1>1, FS_RemoveElement, Zenon
<1>3. Cardinality(S \ {x}) = Cardinality(S) - 1
  BY <1>1, FS_RemoveElement, Zenon
<1>4. Cardinality(S) \in Nat
  BY <1>1, FS_CardinalityType, Zenon
<1>5. Counts(n - 1, S \ {x})
  BY <1>1, <1>2, <1>3, <1>4 DEF Counts
<1> QED BY <1>5, CountsSub, Zenon

\* Without a reference there is nobody.
LEMMA CountsNone ==
  ASSUME NEW S, Counts(0, S)
  PROVE  S = {}
<1>1. Cardinality(S) \in Nat /\ IsFiniteSet(S)
  BY FS_CardinalityType, Zenon DEF Counts
<1>2. Cardinality(S) = 0
  BY <1>1 DEF Counts
<1> QED BY <1>1, <1>2, FS_EmptySet, Zenon

(***************************************************************************)
(* A step that adds no holder and no binding, and neither counts a         *)
(* reference nor closes an accepter.                                       *)
(***************************************************************************)
LEMMA QuietStep ==
  ASSUME RefInv, UNCHANGED <<made, shut, refs>>,
         \A t \in Tracks : /\ closer'[t] \in {closer[t], Nobody}
                           /\ Holders(t)' \subseteq Holders(t)
                           /\ bound'[t] \subseteq bound[t]
                           /\ drain'[t] \subseteq drain[t]
                           /\ media'[pubOf[t]] = "live" => media[pubOf[t]] = "live",
         \A s \in Subs : pc'[s] = "unref" => s \notin bound'[cur'[s]]
  PROVE  RefInv'
<1>1. ASSUME NEW t \in Tracks, t \notin shut PROVE Counts(refs[t], Owners(t)')
  <2>1. Counts(refs[t], Owners(t))
    BY <1>1, Zenon DEF RefInv
  <2>2. Owners(t)' \subseteq Owners(t)
    BY Zenon DEF Owners
  <2> QED BY <2>1, <2>2, CountsSub
<1>2. \A t \in Tracks : t \in shut /\ media'[pubOf[t]] = "live" => Holders(t)' = {}
  BY Zenon DEF RefInv
<1>3. \A t \in Tracks : closer'[t] \in Subs => drain'[t] = {}
  BY Names, Zenon DEF RefInv
<1> QED BY <1>1, <1>2, <1>3 DEF RefInv

(***************************************************************************)
(* Reference counting: Obtain counts the subscription that it makes a      *)
(* holder, Unref discounts one that is neither holder nor bound any more.  *)
(***************************************************************************)
LEMMA RefStep == TypeOK /\ LoopInv /\ RefInv /\ [Next]_vars => RefInv'
<1> SUFFICES ASSUME TypeOK, LoopInv, RefInv, [Next]_vars PROVE RefInv'
  BY Zenon
<1>s. /\ acceptedTrack \in [Subs -> SUBSET Tracks] /\ cur \in [Subs -> Tracks \cup {NoTrack}]
      /\ pc \in [Subs -> {"free", "accept", "bind", "unbind", "unref", "drain"}]
      /\ \A s \in Subs : pc[s] \in {"bind", "unref", "drain"} <=> cur[s] # NoTrack
  BY Zenon DEF TypeOK
<1>a. /\ bound \in [Tracks -> SUBSET Subs] /\ closer \in [Tracks -> Subs \cup Readers \cup {Nobody}]
      /\ drain \in [Tracks -> SUBSET Subs] /\ refs \in [Tracks -> Int]
      /\ made \subseteq Tracks /\ shut \subseteq made /\ media \in [Pubs -> {"live", "dead", "closed"}]
  BY Zenon DEF TypeOK
<1>1. ASSUME NEW s \in Subs, NEW p \in Pubs, NEW T \in Announced(p), AcceptTrack(s, p, T) PROVE RefInv'
  <2>1. \A x \in Tracks : Holders(x)' \subseteq Holders(x)
    BY <1>1 DEF AcceptTrack, accVars, pubVars, Holders
  <2>2. UNCHANGED <<made, shut, refs>>
    BY <1>1, Zenon DEF AcceptTrack, accVars, pubVars
  <2>3. \A x \in Tracks : /\ closer'[x] \in {closer[x], Nobody} /\ bound'[x] \subseteq bound[x]
                          /\ drain'[x] \subseteq drain[x]
                          /\ media'[pubOf[x]] = "live" => media[pubOf[x]] = "live"
    BY <1>1, Zenon DEF AcceptTrack, accVars, pubVars
  <2>4. \A u \in Subs : pc'[u] = "unref" => u \notin bound'[cur'[u]]
    BY <1>1 DEF AcceptTrack, accVars, pubVars, RefInv
  <2> QED BY <2>1, <2>2, <2>3, <2>4, QuietStep, Zenon
<1>2. ASSUME NEW s \in Subs, NEW t \in Tracks, Obtain(s, t) PROVE RefInv'
  <2>1. t \notin shut /\ UNCHANGED <<shut, bound, closer, drain, media>> /\ made' = made \cup {t}
    BY <1>2, <1>a, Zenon DEF Obtain, pubVars
  <2>2. Holders(t)' \subseteq Holders(t) \cup {s} /\ \A x \in Tracks \ {t} : Holders(x)' \subseteq Holders(x)
    BY <1>2 DEF Obtain, Holders
  <2>3. t \notin made => Holders(t) = {} /\ bound[t] = {}
    BY <1>s, <1>a, Names DEF Holders, RefInv, LoopInv
  <2>4. \A x \in Tracks \ {t} : refs'[x] = refs[x]
    BY <1>2 DEF Obtain, Ref
  <2>5. Counts(refs'[t], Owners(t)')
    <3>1. CASE t \in made
      <4>1. refs'[t] = refs[t] + 1
        BY <1>2, <3>1, <1>a, Zenon DEF Obtain, Ref
      <4>2. Counts(refs[t], Owners(t)) /\ Owners(t)' \subseteq Owners(t) \cup {s}
        BY <2>1, <2>2, Zenon DEF RefInv, Owners
      <4>3. Counts(refs[t] + 1, Owners(t)')
        BY <4>2, CountsAdd, Zenon
      <4> QED BY <4>1, <4>3, Zenon
    <3>2. CASE t \notin made
      <4>1. refs'[t] = 1 /\ Owners(t)' \subseteq {} \cup {s}
        BY <1>2, <3>2, <2>1, <2>2, <2>3, <1>a, Zenon DEF Obtain, Owners
      <4>2. Counts(0, {})
        BY FS_EmptySet DEF Counts
      <4>3. Counts(0 + 1, Owners(t)')
        BY <4>1, <4>2, CountsAdd, Zenon
      <4> QED BY <4>1, <4>3
    <3> QED BY <3>1, <3>2, Zenon
  <2>6. ASSUME NEW x \in Tracks \ {t}, x \notin shut PROVE Counts(refs'[x], Owners(x)')
    <3>1. Counts(refs[x], Owners(x)) /\ Owners(x)' \subseteq Owners(x)
      BY <2>1, <2>2, <2>6, <1>a, Zenon DEF RefInv, Owners
    <3> QED BY <3>1, <2>4, CountsSub, Zenon
  <2>7. \A x \in Tracks : x \in shut /\ media'[pubOf[x]] = "live" => Holders(x)' = {}
    BY <2>1, <2>2, Zenon DEF RefInv
  <2>8. \A u \in Subs : pc'[u] = "unref" => u \notin bound'[cur'[u]]
    BY <1>2 DEF Obtain, RefInv
  <2> QED BY <2>1, <2>4, <2>5, <2>6, <2>7, <2>8, Zenon DEF RefInv
<1>3. ASSUME NEW s \in Subs, NEW t \in Tracks, UnbindSub(s, t) PROVE RefInv'
  <2>1. \A x \in Tracks : Holders(x)' \subseteq Holders(x)
    BY <1>3 DEF UnbindSub, Unbound, pubVars, Holders
  <2>2. UNCHANGED <<made, shut, refs>>
    BY <1>3, Zenon DEF UnbindSub, Unbound, pubVars
  <2>3. \A x \in Tracks : /\ closer'[x] \in {closer[x], Nobody} /\ bound'[x] \subseteq bound[x]
                          /\ drain'[x] \subseteq drain[x]
                          /\ media'[pubOf[x]] = "live" => media[pubOf[x]] = "live"
    BY <1>3 DEF UnbindSub, Unbound, pubVars
  <2>4. \A u \in Subs : pc'[u] = "unref" => u \notin bound'[cur'[u]]
    BY <1>3, <1>s, <1>a DEF UnbindSub, Unbound, pubVars, RefInv
  <2> QED BY <2>1, <2>2, <2>3, <2>4, QuietStep, Zenon
<1>4. ASSUME NEW s \in Subs, NEW t \in Tracks, UnbindAccepter(t, s) PROVE RefInv'
  <2>1. \A x \in Tracks : Holders(x)' \subseteq Holders(x)
    BY <1>4 DEF UnbindAccepter, pubVars, Holders
  <2>2. UNCHANGED <<made, shut, refs>>
    BY <1>4, Zenon DEF UnbindAccepter, pubVars
  <2>3. \A x \in Tracks : /\ closer'[x] \in {closer[x], Nobody} /\ bound'[x] \subseteq bound[x]
                          /\ drain'[x] \subseteq drain[x]
                          /\ media'[pubOf[x]] = "live" => media[pubOf[x]] = "live"
    BY <1>4 DEF UnbindAccepter, pubVars
  <2>4. \A u \in Subs : pc'[u] = "unref" => u \notin bound'[cur'[u]]
    BY <1>4, Zenon DEF UnbindAccepter, pubVars, RefInv
  <2> QED BY <2>1, <2>2, <2>3, <2>4, QuietStep, Zenon
<1>5. ASSUME NEW s \in Subs, NEW p \in Patterns, UpdatePattern(s, p) PROVE RefInv'
  <2>1. \A x \in Tracks : Holders(x)' \subseteq Holders(x)
    BY <1>5, MatchTracksChooses DEF UpdatePattern, accVars, pubVars, Holders
  <2>2. UNCHANGED <<made, shut, refs>>
    BY <1>5, Zenon DEF UpdatePattern, accVars, pubVars
  <2>3. \A x \in Tracks : /\ closer'[x] \in {closer[x], Nobody} /\ bound'[x] \subseteq bound[x]
                          /\ drain'[x] \subseteq drain[x]
                          /\ media'[pubOf[x]] = "live" => media[pubOf[x]] = "live"
    BY <1>5, Zenon DEF UpdatePattern, accVars, pubVars
  <2>4. \A u \in Subs : pc'[u] = "unref" => u \notin bound'[cur'[u]]
    BY <1>5, Zenon DEF UpdatePattern, accVars, pubVars, RefInv
  <2> QED BY <2>1, <2>2, <2>3, <2>4, QuietStep, Zenon
<1>6. ASSUME NEW s \in Subs, BindSub(s) PROVE RefInv'
  <2>1. PICK t \in Tracks : t = cur[s] /\ t \in acceptedTrack[s] /\ t \in made
    BY <1>6, <1>s, <1>a, Names, Zenon DEF BindSub, LoopInv
  <2>2. UNCHANGED <<made, shut, refs, closer, drain, media, acceptedTrack>>
    BY <1>6, Zenon DEF BindSub
  <2>3. \A x \in Tracks : Holders(x)' = Holders(x)
    BY <1>6, <1>s, Zenon DEF BindSub, Holders
  <2>4. s \in Holders(t)
    BY <1>6, <2>1, Zenon DEF BindSub, Holders
  <2>5. \A x \in Tracks : bound'[x] = IF x = t THEN bound[x] \cup {s} ELSE bound[x]
    BY <1>6, <2>1, <1>a, Zenon DEF BindSub, Bound
  <2>7. \A u \in Subs : pc'[u] = "unref" => u # s /\ pc[u] = "unref" /\ cur'[u] = cur[u] /\ cur[u] \in Tracks
    BY <1>6, <1>s, Zenon DEF BindSub
  <2>6. \A x \in Tracks : Owners(x)' = Owners(x)
    BY <2>3, <2>4, <2>5, Zenon DEF Owners
  <2>8. ASSUME NEW u \in Subs, pc'[u] = "unref" PROVE u \notin bound'[cur'[u]]
    <3>1. u # s /\ cur'[u] = cur[u] /\ cur[u] \in Tracks /\ u \notin bound[cur[u]]
      BY <2>7, <2>8, Zenon DEF RefInv
    <3>2. bound'[cur[u]] \subseteq bound[cur[u]] \cup {s}
      BY <2>5, <3>1, Zenon
    <3> QED BY <3>1, <3>2, Zenon
  <2>9. \A x \in Tracks : x \notin made => bound'[x] = {}
    BY <2>1, <2>5, Zenon DEF RefInv
  <2>10. \A x \in Tracks : x \notin shut => Counts(refs[x], Owners(x)')
    BY <2>6, Zenon DEF RefInv
  <2>11. \A x \in Tracks : x \in shut /\ media[pubOf[x]] = "live" => Holders(x)' = {}
    BY <2>3, Zenon DEF RefInv
  <2> QED BY <2>2, <2>8, <2>9, <2>10, <2>11, Zenon DEF RefInv
<1>7. ASSUME NEW s \in Subs, Close(s) PROVE RefInv'
  <2>1. \A x \in Tracks : Holders(x)' \subseteq Holders(x)
    BY <1>7 DEF Close, accVars, pubVars, Holders
  <2>2. UNCHANGED <<made, shut, refs>>
    BY <1>7, Zenon DEF Close, accVars, pubVars
  <2>3. \A x \in Tracks : /\ closer'[x] \in {closer[x], Nobody} /\ bound'[x] \subseteq bound[x]
                          /\ drain'[x] \subseteq drain[x]
                          /\ media'[pubOf[x]] = "live" => media[pubOf[x]] = "live"
    BY <1>7, Zenon DEF Close, accVars, pubVars
  <2>4. \A u \in Subs : pc'[u] = "unref" => u \notin bound'[cur'[u]]
    BY <1>7 DEF Close, accVars, pubVars, RefInv
  <2> QED BY <2>1, <2>2, <2>3, <2>4, QuietStep, Zenon
<1>8. ASSUME NEW s \in Subs, Unref(s) PROVE RefInv'
  <2>1. PICK t \in Tracks : t = cur[s] /\ t \in acceptedTrack[s] /\ pc[s] = "unref" /\ s \notin bound[t]
    BY <1>8, <1>s, <1>a, Names, Zenon DEF Unref, RefInv, LoopInv
  <2>2. UNCHANGED <<made, bound, media, acceptedTrack, cur>> /\ refs' = [refs EXCEPT ![t] = @ - 1]
    BY <1>8, <2>1, Zenon DEF Unref, pubVars
  <2>3. s \in Holders(t) /\ Holders(t)' = Holders(t) \ {s} /\ \A x \in Tracks \ {t} : Holders(x)' = Holders(x)
    BY <1>8, <2>1, <1>s, Zenon DEF Unref, Holders
  <2>4. Owners(t)' = Owners(t) \ {s} /\ s \in Owners(t) /\ \A x \in Tracks \ {t} : Owners(x)' = Owners(x)
    BY <2>1, <2>2, <2>3, Zenon DEF Owners
  <2>5. t \notin shut => Counts(refs[t] - 1, Owners(t)')
    BY <2>1, <2>4, CountsRemove DEF RefInv
  <2>6. refs'[t] = refs[t] - 1 /\ \A x \in Tracks \ {t} : refs'[x] = refs[x]
    BY <2>1, <2>2, <1>a, Zenon
  <2>7. \A u \in Subs : pc'[u] = "unref" => u \notin bound'[cur'[u]]
    BY <1>8, <2>2 DEF Unref, RefInv
  <2>8. CASE refs[t] = 1
    <3>1. t \notin shut /\ Counts(0, Owners(t)')
      <4>1. t \notin shut
        BY <2>8 DEF RefInv
      <4>2. Counts(1 - 1, Owners(t)')
        BY <4>1, <2>5, <2>8, Zenon
      <4> QED BY <4>1, <4>2
    <3>2. Owners(t)' = {} /\ bound[t] = {} /\ Holders(t)' = {}
      BY <3>1, <2>2, CountsNone, Zenon DEF Owners
    <3>3. shut' = shut \cup {t} /\ drain' = [drain EXCEPT ![t] = {}] /\ closer' = [closer EXCEPT ![t] = s]
      BY <1>8, <2>1, <2>8, <3>2, Zenon DEF Unref, Shut
    <3>4. \A x \in Tracks : /\ drain'[x] = IF x = t THEN {} ELSE drain[x]
                            /\ closer'[x] = IF x = t THEN s ELSE closer[x]
      BY <3>3, <1>a, Zenon
    <3> QED BY <2>1, <2>2, <2>3, <2>4, <2>6, <2>7, <2>8, <3>2, <3>3, <3>4 DEF RefInv
  <2>9. CASE refs[t] # 1
    <3>1. UNCHANGED <<shut, drain, closer>>
      BY <1>8, <2>1, <2>9, Zenon DEF Unref
    <3>2. t \in shut => refs'[t] <= 0
      BY <2>1, <2>6, <1>a DEF RefInv
    <3>3. ASSUME NEW x \in Tracks, x \notin shut PROVE Counts(refs'[x], Owners(x)')
      <4>1. CASE x = t
        BY <4>1, <3>3, <2>5, <2>6, Zenon
      <4>2. CASE x # t
        BY <4>2, <3>3, <2>4, <2>6 DEF RefInv
      <4> QED BY <4>1, <4>2, Zenon
    <3>4. \A x \in Tracks : x \in shut /\ media[pubOf[x]] = "live" => Holders(x)' = {}
      BY <2>3, Zenon DEF RefInv
    <3>5. \A x \in Tracks : x \in shut => refs'[x] <= 0
      BY <3>2, <2>6, Zenon DEF RefInv
    <3> QED BY <2>2, <2>7, <3>1, <3>3, <3>4, <3>5, Zenon DEF RefInv
  <2> QED BY <2>8, <2>9, Zenon
<1>9. ASSUME NEW s \in Subs, RemoveTrack(s) PROVE RefInv'
  <2>1. \A x \in Tracks : Holders(x)' \subseteq Holders(x)
    BY <1>9, <1>s, Zenon DEF RemoveTrack, Released, pubVars, Holders
  <2>2. UNCHANGED <<made, shut, refs>>
    BY <1>9, Zenon DEF RemoveTrack, Released, pubVars
  <2>3. \A x \in Tracks : /\ closer'[x] \in {closer[x], Nobody} /\ bound'[x] \subseteq bound[x]
                          /\ drain'[x] \subseteq drain[x]
                          /\ media'[pubOf[x]] = "live" => media[pubOf[x]] = "live"
    BY <1>9, <1>a, Zenon DEF RemoveTrack, Released, pubVars
  <2>4. \A u \in Subs : pc'[u] = "unref" => u \notin bound'[cur'[u]]
    BY <1>9, <1>s, <1>a DEF RemoveTrack, Released, pubVars, RefInv
  <2> QED BY <2>1, <2>2, <2>3, <2>4, QuietStep, Zenon
<1>10. ASSUME NEW t \in Tracks, SatifySelect(t) PROVE RefInv'
  <2>1. \A x \in Tracks : Holders(x)' \subseteq Holders(x)
    BY <1>10, Zenon DEF SatifySelect, subVars, accVars, Holders
  <2>2. UNCHANGED <<made, shut, refs>>
    BY <1>10, Zenon DEF SatifySelect, subVars, accVars
  <2>3. \A x \in Tracks : /\ closer'[x] \in {closer[x], Nobody} /\ bound'[x] \subseteq bound[x]
                          /\ drain'[x] \subseteq drain[x]
                          /\ media'[pubOf[x]] = "live" => media[pubOf[x]] = "live"
    BY <1>10, Zenon DEF SatifySelect, subVars, accVars
  <2>4. \A u \in Subs : pc'[u] = "unref" => u \notin bound'[cur'[u]]
    BY <1>10, Zenon DEF SatifySelect, subVars, accVars, RefInv
  <2> QED BY <2>1, <2>2, <2>3, <2>4, QuietStep, Zenon
<1>11. ASSUME NEW t \in Tracks, EOF(t) PROVE RefInv'
  <2>1. UNCHANGED <<made, bound, media, acceptedTrack, cur, pc>> /\ media[pubOf[t]] # "live"
    BY <1>11, Zenon DEF EOF, subVars
  <2>2. refs' = [refs EXCEPT ![t] = 0] /\ shut' = shut \cup {t}
    BY <1>11, Zenon DEF EOF, Shut
  <2>3. \A x \in Tracks : Holders(x)' = Holders(x) /\ Owners(x)' = Owners(x)
    BY <2>1, Zenon DEF Holders, Owners
  <2>4. \A x \in Tracks : closer'[x] \in Subs => x # t /\ closer'[x] = closer[x] /\ drain'[x] = drain[x]
    BY <1>11, <1>s, <1>a, Names, Zenon DEF EOF, Shut
  <2>5. \A x \in Tracks : refs'[x] = IF x = t THEN 0 ELSE refs[x]
    BY <2>2, <1>a, Zenon
  <2> QED BY <2>1, <2>2, <2>3, <2>4, <2>5 DEF RefInv
<1>12. ASSUME NEW t \in Tracks, CloseReturns(t) PROVE RefInv'
  <2>1. \A x \in Tracks : Holders(x)' \subseteq Holders(x)
    BY <1>12, Zenon DEF CloseReturns, Released, subVars, pubVars, Holders
  <2>2. UNCHANGED <<made, shut, refs>>
    BY <1>12, Zenon DEF CloseReturns, Released, subVars, pubVars
  <2>3. \A x \in Tracks : /\ closer'[x] \in {closer[x], Nobody} /\ bound'[x] \subseteq bound[x]
                          /\ drain'[x] \subseteq drain[x]
                          /\ media'[pubOf[x]] = "live" => media[pubOf[x]] = "live"
    BY <1>12 DEF CloseReturns, Released, subVars, pubVars
  <2>4. \A u \in Subs : pc'[u] = "unref" => u \notin bound'[cur'[u]]
    BY <1>12 DEF CloseReturns, Released, subVars, pubVars, RefInv
  <2> QED BY <2>1, <2>2, <2>3, <2>4, QuietStep, Zenon
<1>13. ASSUME NEW p \in Pubs, MediaEnds(p) PROVE RefInv'
  <2>1. \A x \in Tracks : Holders(x)' \subseteq Holders(x)
    BY <1>13, Zenon DEF MediaEnds, subVars, accVars, Holders
  <2>2. UNCHANGED <<made, shut, refs>>
    BY <1>13, Zenon DEF MediaEnds, subVars, accVars
  <2>3. \A x \in Tracks : /\ closer'[x] \in {closer[x], Nobody} /\ bound'[x] \subseteq bound[x]
                          /\ drain'[x] \subseteq drain[x]
                          /\ media'[pubOf[x]] = "live" => media[pubOf[x]] = "live"
    BY <1>13, <1>s, <1>a, Names DEF MediaEnds, subVars, accVars
  <2>4. \A u \in Subs : pc'[u] = "unref" => u \notin bound'[cur'[u]]
    BY <1>13, Zenon DEF MediaEnds, subVars, accVars, RefInv
  <2> QED BY <2>1, <2>2, <2>3, <2>4, QuietStep, Zenon
<1>14. CASE UNCHANGED vars
  <2>1. \A x \in Tracks : Holders(x)' = Holders(x)
    BY <1>14, Zenon DEF vars, Holders
  <2>2. \A x \in Tracks : Owners(x)' = Owners(x)
    BY <1>14, <2>1, Zenon DEF vars, Owners
  <2> QED BY <1>14, <2>1, <2>2, Zenon DEF vars, RefInv
<1> QED BY <1>1, <1>2, <1>3, <1>4, <1>5, <1>6, <1>7, <1>8, <1>9, <1>10, <1>11, <1>12, <1>13, <1>14, Zenon DEF Next
-----------------------------------------------------------------------------
\* A router without accepters and subscriptions without tracks.
LEMMA InitInv == Init => Inv
<1> SUFFICES ASSUME Init PROVE Inv
  BY Zenon
<1>1. TypeOK
  BY Names DEF Init, TypeOK
<1>2. LoopInv
  BY Names, Zenon DEF Init, LoopInv
<1>3. RefInv
  <2>1. \A t \in Tracks : Owners(t) = {} /\ refs[t] = 0 /\ Nobody \notin Subs
    BY Names, Zenon DEF Init, Owners, Holders
  <2>2. Counts(0, {})
    BY FS_EmptySet DEF Counts
  <2> QED BY <2>1, <2>2, Zenon DEF Init, RefInv
<1>4. BoundInv /\ ClosingInv
  BY Zenon DEF Init, BoundInv, ClosingInv
<1> QED BY <1>1, <1>2, <1>3, <1>4, Zenon DEF Inv

\* The inductive invariant of subscriptions and accepters.
THEOREM InvHolds == Spec => []Inv
<1>1. Inv /\ [Next]_vars => Inv'
  BY TypeStep, LoopStep, RefStep, BoundStep, ClosingStep, Zenon DEF Inv
<1> QED BY InitInv, <1>1, PTL DEF Spec

(***************************************************************************)
(* No Close(false) closes the accepter of a live track that a subscription *)
(* holds: ref_count is at least the number of those that do.               *)
(***************************************************************************)
THEOREM NotClosedInUseHolds == Spec => []NotClosedInUse
<1>1. Inv => NotClosedInUse
  BY Zenon DEF Inv, RefInv, TypeOK, NotClosedInUse
<1> QED BY InvHolds, <1>1, PTL

\* The Close of an accepter finds every subscription that has its track in subs.
THEOREM EOFWillReachHolds == Spec => []EOFWillReach
<1>1. Inv => EOFWillReach
  BY Names DEF Inv, BoundInv, TypeOK, EOFWillReach
<1> QED BY InvHolds, <1>1, PTL

(***************************************************************************)
(* Subscription.Close never waits for another Subscription.mu with         *)
(* Accepter.mu held: no deadlock between two subscriptions.                *)
(***************************************************************************)
THEOREM SubsDoNotWaitHolds == Spec => []SubsDoNotWait
<1>1. Inv => SubsDoNotWait
  BY Zenon DEF Inv, RefInv, SubsDoNotWait
<1> QED BY InvHolds, <1>1, PTL

\* The comment of UnbindAccepter and UpdatePattern is right: closed means empty.
THEOREM ClosedIsEmptyHolds == Spec => []ClosedIsEmpty
<1>1. Inv => ClosedIsEmpty
  BY Zenon DEF Inv, ClosingInv, ClosedIsEmpty
<1> QED BY InvHolds, <1>1, PTL
=============================================================================
