------------------------- MODULE ParticipantsProofs -------------------------
(***************************************************************************)
(* Proofs about module Participants, for every set of rooms, keys, users,  *)
(* join ids and waiters.                                                   *)
(*                                                                         *)
(* ViewIsLastWriter is not inductive: that a late join is refused depends  *)
(* on the tombstone, which may have been deleted by a newer join, replaced *)
(* by a newer leave or cleaned.  CellInv says what the tombstone of a key  *)
(* knows of the greatest leave seen:                                       *)
(*   - a tombstone never exceeds it, and is below the listed join id;      *)
(*   - while the key is not listed the tombstone is the greatest leave     *)
(*     seen, unless that leave has lapsed, so that no join it would have   *)
(*     to refuse can arrive any more;                                      *)
(*   - only lapsed tombstones are old enough to be cleaned.                *)
(***************************************************************************)
EXTENDS Participants, TLAPS

CellInv(t, k, J, L, x) ==
  /\ t.participants[k] = IF J > L THEN J ELSE None
  /\ t.leaves[k] <= L
  /\ Listed(t, k) => t.leaves[k] < t.participants[k]
  /\ ~Listed(t, k) => t.leaves[k] = L \/ L <= x
  /\ k \in t.aged => t.leaves[k] <= x

BoxInv ==
  \A r \in Rooms, k \in Keys :
    CellInv(box[r], k, seenJoin[r][k], seenLeave[r][k], lapsed[r][k])

\* Join ids are natural numbers from 1, as the server counts them.
LEMMA NoneNotJoinId == None \in Nat /\ JoinIds \subseteq Nat /\ None \notin JoinIds
BY JoinIdsAssumption, Zenon DEF None

(***************************************************************************)
(* Participants.Add, Remove and Clean map tables to tables.                *)
(***************************************************************************)
LEMMA AddType ==
  ASSUME NEW t \in TableType(JoinIds), NEW k \in Keys, NEW j \in JoinIds
  PROVE  Add(t, k, j) \in TableType(JoinIds)
BY Zenon DEF TableType, Add, Added, Stale, Listed, Store, DropTombstone, None

\* Participants.Remove maps a table to a table.
LEMMA RemoveType ==
  ASSUME NEW t \in TableType(JoinIds), NEW k \in Keys, NEW j \in JoinIds
  PROVE  Remove(t, k, j) \in TableType(JoinIds)
BY Zenon DEF TableType, Remove, Stale, Listed, Unlist, Store, Bury, None

\* Participants.Clean maps a table to a table.
LEMMA CleanType ==
  ASSUME NEW t \in TableType(JoinIds)
  PROVE  Clean(t) \in TableType(JoinIds)
BY Zenon DEF TableType, Clean, None

(***************************************************************************)
(* What Add, Remove, Clean and the clock do to the cell of the key they    *)
(* are about, and that they leave the cells of other keys alone.           *)
(***************************************************************************)
Ids == JoinIds \cup {None}

\* Participants.Add keeps the cell invariant of its key, with the join seen.
LEMMA AddCell ==
  ASSUME NEW t \in TableType(JoinIds), NEW k \in Keys, NEW j \in JoinIds,
         NEW J \in Ids, NEW L \in Ids, NEW x \in Ids,
         CellInv(t, k, J, L, x), j > x
  PROVE  CellInv(Add(t, k, j), k, larger(J, j), L, x)
<1> DEFINE p == t.participants[k]
           l == t.leaves[k]
<1>1. /\ p \in Nat /\ l \in Nat /\ j \in Nat /\ j # 0
      /\ J \in Nat /\ L \in Nat /\ x \in Nat
  BY NoneNotJoinId, Zenon DEF TableType, Ids, None
<1>2. CASE Stale(t, k, j)
  BY <1>1, <1>2 DEF Add, CellInv, Stale, Listed, None, larger
<1>3. CASE ~Stale(t, k, j)
  <2> DEFINE u == Add(t, k, j)
  <2>1. /\ u.leaves[k] = 0
        /\ u.participants[k] = IF Added(t, k, j) THEN j ELSE p
        /\ k \notin u.aged
    BY <1>3, Zenon DEF TableType, Add, Store, DropTombstone, None
  <2>2. Added(t, k, j) <=> p = 0 \/ j > p
    BY <1>3, Zenon DEF Added, Listed, None
  <2> QED BY <1>1, <1>3, <2>1, <2>2 DEF CellInv, Stale, Listed, None, larger
<1> QED BY <1>2, <1>3, Zenon

\* Participants.Remove keeps the cell invariant of its key, with the leave seen.
LEMMA RemoveCell ==
  ASSUME NEW t \in TableType(JoinIds), NEW k \in Keys, NEW j \in JoinIds,
         NEW J \in Ids, NEW L \in Ids, NEW x \in Ids,
         CellInv(t, k, J, L, x)
  PROVE  CellInv(Remove(t, k, j), k, J, larger(L, j), x)
<1> DEFINE p == t.participants[k]
           l == t.leaves[k]
<1>1. /\ p \in Nat /\ l \in Nat /\ j \in Nat /\ j # 0
      /\ J \in Nat /\ L \in Nat /\ x \in Nat
  BY NoneNotJoinId, Zenon DEF TableType, Ids, None
<1>2. CASE Stale(t, k, j)
  BY <1>1, <1>2 DEF Remove, CellInv, Stale, Listed, None, larger
<1>3. CASE ~Stale(t, k, j)
  <2> DEFINE u == Remove(t, k, j)
  <2>1. /\ u.leaves[k] = j
        /\ u.participants[k] = IF p # 0 /\ j >= p THEN 0 ELSE p
        /\ k \notin u.aged
    BY <1>3, Zenon DEF TableType, Remove, Unlist, Listed, Store, Bury, None
  <2> QED BY <1>1, <1>3, <2>1 DEF CellInv, Stale, Listed, None, larger
<1> QED BY <1>2, <1>3, Zenon

\* Participants.Clean drops only tombstones that no notification can contradict.
LEMMA CleanCell ==
  ASSUME NEW t \in TableType(JoinIds), NEW k \in Keys,
         NEW J \in Ids, NEW L \in Ids, NEW x \in Ids,
         CellInv(t, k, J, L, x)
  PROVE  CellInv(Clean(t), k, J, L, x)
BY NoneNotJoinId DEF TableType, CellInv, Clean, Listed, None, Ids

\* A tombstone that grows old is at most the greatest that has lapsed.
LEMMA AgeCell ==
  ASSUME NEW t \in TableType(JoinIds), NEW k \in Keys,
         NEW J \in Ids, NEW L \in Ids, NEW x \in Ids,
         CellInv(t, k, J, L, x)
  PROVE  CellInv(Age(t, k), k, J, L, larger(x, t.leaves[k]))
<1>1. /\ t.participants[k] \in Nat /\ t.leaves[k] \in Nat
      /\ J \in Nat /\ L \in Nat /\ x \in Nat
  BY NoneNotJoinId, Zenon DEF TableType, Ids, None
<1>2. /\ Age(t, k).participants = t.participants
      /\ Age(t, k).leaves = t.leaves
  BY Zenon DEF Age
<1> QED BY <1>1, <1>2 DEF CellInv, Listed, None, larger

\* Add, Remove and the clock do not touch the cell of another key.
LEMMA OtherCells ==
  ASSUME NEW t \in TableType(JoinIds), NEW k \in Keys, NEW j \in JoinIds,
         NEW k2 \in Keys, k2 # k,
         NEW J \in Ids, NEW L \in Ids, NEW x \in Ids,
         CellInv(t, k2, J, L, x)
  PROVE  /\ CellInv(Add(t, k, j), k2, J, L, x)
         /\ CellInv(Remove(t, k, j), k2, J, L, x)
         /\ CellInv(Age(t, k), k2, J, L, x)
<1>1. CellInv(Add(t, k, j), k2, J, L, x)
  BY Zenon DEF TableType, CellInv, Add, Added, Stale, Listed, Store, DropTombstone
<1>2. CellInv(Remove(t, k, j), k2, J, L, x)
  BY Zenon DEF TableType, CellInv, Remove, Stale, Listed, Unlist, Store, Bury
<1>3. CellInv(Age(t, k), k2, J, L, x)
  BY Zenon DEF TableType, CellInv, Age, Listed
<1> QED BY <1>1, <1>2, <1>3, Zenon
-----------------------------------------------------------------------------
\* The greater of two join ids is one of them.
LEMMA LargerType == \A a, b \in Ids : larger(a, b) \in Ids
BY Zenon DEF larger

\* Recording a notification in a history keeps its type.
LEMMA RaiseType ==
  ASSUME NEW f \in IdTable, NEW r \in Rooms, NEW k \in Keys, NEW j \in Ids
  PROVE  Raise(f, r, k, j) \in IdTable
BY LargerType, Zenon DEF IdTable, Raise, Ids

\* box.clean() maps tables to tables.
LEMMA CleanBoxType ==
  ASSUME NEW b \in [Rooms -> TableType(JoinIds)]
  PROVE  CleanBox(b) \in [Rooms -> TableType(JoinIds)]
BY CleanType, Zenon DEF CleanBox

(***************************************************************************)
(* The variables of the participants box and of the WaitParticipant calls  *)
(* keep their types.                                                       *)
(***************************************************************************)
LEMMA TypeInit == Init => TypeOK
BY CleanPeriodAssumption
   DEF Init, TypeOK, TableType, EmptyTable, Nothing, IdTable, None

\* Every handler of the box and every step of WaitParticipant keeps the types.
LEMMA TypeNext == TypeOK /\ [Next]_vars => TypeOK'
<1> SUFFICES ASSUME TypeOK, [Next]_vars PROVE TypeOK'
  BY Zenon
<1> USE DEF TypeOK
<1>1. ASSUME NEW r \in Rooms, NEW k \in Keys, NEW j \in JoinIds,
             ProcessJoinCbs(r, k, j)
      PROVE  TypeOK'
  <2>1. box' \in [Rooms -> TableType(JoinIds)]
    BY <1>1, AddType, Zenon DEF ProcessJoinCbs
  <2>2. seenJoin' \in IdTable
    BY <1>1, RaiseType, Zenon DEF ProcessJoinCbs, Ids
  <2>3. joinCbs' \subseteq Waiters /\ closed' \subseteq Waiters
    BY <1>1, Zenon DEF ProcessJoinCbs, Fired
  <2> QED BY <1>1, <2>1, <2>2, <2>3, Zenon DEF ProcessJoinCbs
<1>2. ASSUME NEW r \in Rooms, NEW k \in Keys, NEW j \in JoinIds,
             ProcessLeaveCbs(r, k, j)
      PROVE  TypeOK'
  <2>1. [box EXCEPT ![r] = Remove(@, k, j)] \in [Rooms -> TableType(JoinIds)]
    BY RemoveType, Zenon
  <2>2. box' \in [Rooms -> TableType(JoinIds)]
    BY <1>2, <2>1, CleanBoxType, Zenon DEF ProcessLeaveCbs
  <2>3. seenLeave' \in IdTable
    BY <1>2, RaiseType, Zenon DEF ProcessLeaveCbs, Ids
  <2>4. iter' \in 0 .. CleanPeriod - 1
    BY <1>2, CleanPeriodAssumption DEF ProcessLeaveCbs
  <2> QED BY <1>2, <2>2, <2>3, <2>4, Zenon DEF ProcessLeaveCbs
<1>3. ASSUME NEW r \in Rooms, NEW k \in Keys, GrowOld(r, k)
      PROVE  TypeOK'
  <2>1. box[r].leaves[k] \in Ids /\ Age(box[r], k) \in TableType(JoinIds)
    BY Zenon DEF TableType, Age, Ids
  <2>2. lapsed' \in IdTable
    BY <1>3, <2>1, RaiseType, Zenon DEF GrowOld
  <2>3. box' \in [Rooms -> TableType(JoinIds)]
    BY <1>3, <2>1, Zenon DEF GrowOld
  <2> QED BY <1>3, <2>2, <2>3, Zenon DEF GrowOld
<1>4. ASSUME NEW w \in Waiters,
             Register(w) \/ FirstLook(w) \/ Wake(w) \/ GiveUp(w) \/ SecondLook(w)
      PROVE  TypeOK'
  BY <1>4, Zenon DEF Register, FirstLook, Wake, GiveUp, SecondLook, Return, history
<1>5. CASE UNCHANGED vars
  BY <1>5, Zenon DEF vars
<1> QED BY <1>1, <1>2, <1>3, <1>4, <1>5, Zenon DEF Next

\* The box, the callbacks and the WaitParticipant calls have their types in
\* every reachable state.
THEOREM TypeCorrect == Spec => []TypeOK
BY TypeInit, TypeNext, PTL DEF Spec
-----------------------------------------------------------------------------
\* The types of the parts of a cell.
LEMMA CellIds ==
  ASSUME TypeOK, NEW r \in Rooms, NEW k \in Keys
  PROVE  /\ box[r] \in TableType(JoinIds)
         /\ seenJoin[r][k] \in Ids
         /\ seenLeave[r][k] \in Ids
         /\ lapsed[r][k] \in Ids
BY DEF TypeOK, IdTable, Ids

\* An empty box satisfies the invariant.
LEMMA BoxInit == Init => BoxInv
<1> SUFFICES ASSUME Init, NEW r \in Rooms, NEW k \in Keys
             PROVE  CellInv(box[r], k, seenJoin[r][k], seenLeave[r][k], lapsed[r][k])
  BY Zenon DEF BoxInv
<1>1. /\ box[r].participants[k] = 0 /\ box[r].leaves[k] = 0 /\ box[r].aged = {}
      /\ seenJoin[r][k] = 0 /\ seenLeave[r][k] = 0
  BY Zenon DEF Init, EmptyTable, Nothing, None
<1> QED BY <1>1 DEF CellInv, Listed, None

\* ProcessJoinCbs, ProcessLeaveCbs with its cleaning, the clock and
\* WaitParticipant preserve the invariant of the box.
LEMMA BoxNext == TypeOK /\ BoxInv /\ [Next]_vars => BoxInv'
<1> SUFFICES ASSUME TypeOK, BoxInv, [Next]_vars,
                    NEW r \in Rooms, NEW k \in Keys
             PROVE  CellInv(box[r], k, seenJoin[r][k], seenLeave[r][k], lapsed[r][k])'
  BY Zenon DEF BoxInv
<1>0. /\ CellInv(box[r], k, seenJoin[r][k], seenLeave[r][k], lapsed[r][k])
      /\ box[r] \in TableType(JoinIds)
      /\ seenJoin[r][k] \in Ids /\ seenLeave[r][k] \in Ids /\ lapsed[r][k] \in Ids
  BY CellIds, Zenon DEF BoxInv
<1>1. ASSUME NEW r1 \in Rooms, NEW k1 \in Keys, NEW j \in JoinIds,
             ProcessJoinCbs(r1, k1, j)
      PROVE  CellInv(box[r], k, seenJoin[r][k], seenLeave[r][k], lapsed[r][k])'
  <2>1. UNCHANGED <<seenLeave, lapsed>>
    BY <1>1, Zenon DEF ProcessJoinCbs
  <2>2. CASE r = r1 /\ k = k1
    <3>1. /\ box'[r] = Add(box[r], k, j)
          /\ seenJoin'[r][k] = larger(seenJoin[r][k], j)
          /\ j > lapsed[r][k]
      BY <1>1, <2>2, Zenon DEF ProcessJoinCbs, NotOverdue, Raise, TypeOK, IdTable
    <3> QED BY <1>0, <2>1, <3>1, AddCell, Zenon
  <2>3. CASE r = r1 /\ k # k1
    <3>1. /\ box'[r] = Add(box[r], k1, j)
          /\ seenJoin'[r][k] = seenJoin[r][k]
      BY <1>1, <2>3, Zenon DEF ProcessJoinCbs, Raise, TypeOK, IdTable
    <3> QED BY <1>0, <2>1, <2>3, <3>1, OtherCells
  <2>4. CASE r # r1
    <3>1. box'[r] = box[r] /\ seenJoin'[r][k] = seenJoin[r][k]
      BY <1>1, <2>4, Zenon DEF ProcessJoinCbs, Raise, TypeOK, IdTable
    <3> QED BY <1>0, <2>1, <3>1, Zenon
  <2> QED BY <2>2, <2>3, <2>4, Zenon
<1>2. ASSUME NEW r1 \in Rooms, NEW k1 \in Keys, NEW j \in JoinIds,
             ProcessLeaveCbs(r1, k1, j)
      PROVE  CellInv(box[r], k, seenJoin[r][k], seenLeave[r][k], lapsed[r][k])'
  <2> DEFINE b == [box EXCEPT ![r1] = Remove(@, k1, j)]
  <2>1. UNCHANGED <<seenJoin, lapsed>>
    BY <1>2, Zenon DEF ProcessLeaveCbs
  <2>2. b[r] \in TableType(JoinIds) /\ seenLeave'[r][k] \in Ids
    <3>1. b[r] \in TableType(JoinIds)
      BY RemoveType, Zenon DEF TypeOK
    <3>2. TypeOK'
      BY TypeNext, Zenon
    <3> QED BY <3>1, <3>2 DEF TypeOK, IdTable, Ids
  <2>3. CellInv(b[r], k, seenJoin[r][k], seenLeave'[r][k], lapsed[r][k])
    <3>1. CASE r = r1 /\ k = k1
      <4>1. /\ b[r] = Remove(box[r], k, j)
            /\ seenLeave'[r][k] = larger(seenLeave[r][k], j)
        BY <1>2, <3>1, Zenon DEF ProcessLeaveCbs, Raise, TypeOK, IdTable
      <4> QED BY <1>0, <4>1, RemoveCell, Zenon
    <3>2. CASE r = r1 /\ k # k1
      <4>1. b[r] = Remove(box[r], k1, j) /\ seenLeave'[r][k] = seenLeave[r][k]
        BY <1>2, <3>2, Zenon DEF ProcessLeaveCbs, Raise, TypeOK, IdTable
      <4> QED BY <1>0, <3>2, <4>1, OtherCells
    <3>3. CASE r # r1
      <4>1. b[r] = box[r] /\ seenLeave'[r][k] = seenLeave[r][k]
        BY <1>2, <3>3, Zenon DEF ProcessLeaveCbs, Raise, TypeOK, IdTable
      <4> QED BY <1>0, <4>1, Zenon
    <3> QED BY <3>1, <3>2, <3>3, Zenon
  <2>4. CASE box' = b
    BY <2>1, <2>3, <2>4, Zenon
  <2>5. CASE box' = [q \in Rooms |-> Clean(b[q])]
    <3>1. CellInv(Clean(b[r]), k, seenJoin[r][k], seenLeave'[r][k], lapsed[r][k])
      BY <1>0, <2>2, <2>3, CleanCell, Zenon
    <3>2. box'[r] = Clean(b[r])
      BY <2>5, Zenon
    <3> QED BY <2>1, <3>1, <3>2, Zenon
  <2> QED BY <1>2, <2>4, <2>5, Zenon DEF ProcessLeaveCbs, CleanBox
<1>3. ASSUME NEW r1 \in Rooms, NEW k1 \in Keys, GrowOld(r1, k1)
      PROVE  CellInv(box[r], k, seenJoin[r][k], seenLeave[r][k], lapsed[r][k])'
  <2>1. UNCHANGED <<seenJoin, seenLeave>>
    BY <1>3, Zenon DEF GrowOld
  <2>2. CASE r = r1 /\ k = k1
    <3>1. /\ box'[r] = Age(box[r], k)
          /\ lapsed'[r][k] = larger(lapsed[r][k], box[r].leaves[k])
      BY <1>3, <2>2, Zenon DEF GrowOld, Raise, TypeOK, IdTable
    <3> QED BY <1>0, <2>1, <3>1, AgeCell, Zenon
  <2>3. CASE r = r1 /\ k # k1
    <3>1. box'[r] = Age(box[r], k1) /\ lapsed'[r][k] = lapsed[r][k]
      BY <1>3, <2>3, Zenon DEF GrowOld, Raise, TypeOK, IdTable
    <3>2. box[r].leaves[k1] \in JoinIds
      BY <1>0, <1>3, <2>3, Zenon DEF GrowOld, TableType
    <3> QED BY <1>0, <2>1, <2>3, <3>1, <3>2, OtherCells
  <2>4. CASE r # r1
    <3>1. box'[r] = box[r] /\ lapsed'[r][k] = lapsed[r][k]
      BY <1>3, <2>4, Zenon DEF GrowOld, Raise, TypeOK, IdTable
    <3> QED BY <1>0, <2>1, <3>1, Zenon
  <2> QED BY <2>2, <2>3, <2>4, Zenon
<1>4. ASSUME NEW w \in Waiters,
             Register(w) \/ FirstLook(w) \/ Wake(w) \/ GiveUp(w) \/ SecondLook(w)
      PROVE  CellInv(box[r], k, seenJoin[r][k], seenLeave[r][k], lapsed[r][k])'
  <2>1. UNCHANGED <<box, seenJoin, seenLeave, lapsed>>
    BY <1>4, Zenon DEF Register, FirstLook, Wake, GiveUp, SecondLook, Return, history
  <2> QED BY <1>0, <2>1, Zenon
<1>5. CASE UNCHANGED vars
  BY <1>0, <1>5, Zenon DEF vars
<1> QED BY <1>1, <1>2, <1>3, <1>4, <1>5, Zenon DEF Next

\* The invariant of the box contains what a client sees of it.
LEMMA BoxInvImpliesView == BoxInv => ViewIsLastWriter
BY Zenon DEF BoxInv, CellInv, ViewIsLastWriter

\* Every cell of the box agrees with the notifications that have arrived: what
\* is listed, what the tombstone says, and what an old tombstone may hide.
THEOREM BoxCorrect == Spec => []BoxInv
BY TypeInit, TypeNext, BoxInit, BoxNext, PTL DEF Spec

(***************************************************************************)
(* The participants box is insensitive to the order and to the repetition  *)
(* of join and leave notifications, for any number of rooms, participants, *)
(* incarnations and cleanings.                                             *)
(***************************************************************************)
THEOREM LastWriterWins == Spec => []ViewIsLastWriter
BY BoxCorrect, BoxInvImpliesView, PTL
-----------------------------------------------------------------------------
(***************************************************************************)
(* Only an Add that succeeds lists a key or changes its join id; the other *)
(* operations at most unlist it.                                           *)
(***************************************************************************)
LEMMA AddLists ==
  ASSUME NEW t \in TableType(JoinIds), NEW k \in Keys, NEW j \in JoinIds,
         NEW k2 \in Keys
  PROVE  \/ Add(t, k, j).participants[k2] = t.participants[k2]
         \/ k2 = k /\ Added(t, k, j) /\ Add(t, k, j).participants[k2] = j
BY Zenon DEF TableType, Add, Store, DropTombstone

\* Participants.Remove leaves what is listed for a key or unlists it.
LEMMA RemoveLists ==
  ASSUME NEW t \in TableType(JoinIds), NEW k \in Keys, NEW j \in JoinIds,
         NEW k2 \in Keys
  PROVE  Remove(t, k, j).participants[k2] \in {t.participants[k2], None}
BY Zenon DEF TableType, Remove, Unlist, Store, Bury

\* A leave notification, with the cleaning it triggers, lists nobody.
LEMMA LeaveLists ==
  ASSUME TypeOK, NEW r1 \in Rooms, NEW k1 \in Keys, NEW j \in JoinIds,
         ProcessLeaveCbs(r1, k1, j), NEW r \in Rooms, NEW k \in Keys
  PROVE  box'[r].participants[k] \in {box[r].participants[k], None}
<1> DEFINE b == [box EXCEPT ![r1] = Remove(@, k1, j)]
<1>1. b[r].participants[k] \in {box[r].participants[k], None}
  BY RemoveLists, Zenon DEF TypeOK
<1>2. box'[r].participants = b[r].participants
  BY Zenon DEF ProcessLeaveCbs, CleanBox, Clean
<1> QED BY <1>1, <1>2, Zenon

\* The clock lists nobody.
LEMMA AgeLists ==
  ASSUME TypeOK, NEW r1 \in Rooms, NEW k1 \in Keys, GrowOld(r1, k1),
         NEW r \in Rooms, NEW k \in Keys
  PROVE  box'[r].participants[k] = box[r].participants[k]
BY Zenon DEF GrowOld, Age, TypeOK

\* No step but a join notification lists anybody.
LEMMA OtherStepsLists ==
  ASSUME TypeOK, [Next]_vars, NEW r \in Rooms, NEW k \in Keys,
         ~\E j \in JoinIds : ProcessJoinCbs(r, k, j) /\ Added(box[r], k, j)
  PROVE  box'[r].participants[k] \in {box[r].participants[k], None}
<1>1. ASSUME NEW r1 \in Rooms, NEW k1 \in Keys, NEW j \in JoinIds,
             ProcessJoinCbs(r1, k1, j)
      PROVE  box'[r].participants[k] = box[r].participants[k]
  <2>1. CASE r = r1
    <3>1. box'[r] = Add(box[r], k1, j)
      BY <1>1, <2>1, Zenon DEF ProcessJoinCbs, TypeOK
    <3> QED BY <1>1, <2>1, <3>1, AddLists, CellIds
  <2>2. CASE r # r1
    BY <1>1, <2>2, Zenon DEF ProcessJoinCbs, TypeOK
  <2> QED BY <2>1, <2>2, Zenon
<1>2. ASSUME NEW r1 \in Rooms, NEW k1 \in Keys, NEW j \in JoinIds,
             ProcessLeaveCbs(r1, k1, j)
      PROVE  box'[r].participants[k] \in {box[r].participants[k], None}
  BY <1>2, LeaveLists, Zenon
<1>3. ASSUME NEW r1 \in Rooms, NEW k1 \in Keys, GrowOld(r1, k1)
      PROVE  box'[r].participants[k] = box[r].participants[k]
  BY <1>3, AgeLists, Zenon
<1>4. ASSUME NEW w \in Waiters,
             Register(w) \/ FirstLook(w) \/ Wake(w) \/ GiveUp(w) \/ SecondLook(w)
      PROVE  box'[r].participants[k] = box[r].participants[k]
  BY <1>4, Zenon DEF Register, FirstLook, Wake, GiveUp, SecondLook, Return
<1>5. CASE UNCHANGED vars
  BY <1>5, Zenon DEF vars
<1> QED BY <1>1, <1>2, <1>3, <1>4, <1>5, Zenon DEF Next

(***************************************************************************)
(* Participants.Add lists a key only under a join id above every join and  *)
(* leave seen, so the join callbacks never announce an old incarnation.    *)
(***************************************************************************)
THEOREM NoResurrection == Spec => NeverResurrects
<1> DEFINE Fresh ==
      \A r \in Rooms, k \in Keys :
        LET p == box'[r].participants[k]
        IN  p # box[r].participants[k] /\ p # None
              => p > seenJoin[r][k] /\ p > seenLeave[r][k]
<1>1. TypeOK /\ BoxInv /\ [Next]_vars => [Fresh]_vars
  <2> SUFFICES ASSUME TypeOK, BoxInv, [Next]_vars, NEW r \in Rooms, NEW k \in Keys,
                      box'[r].participants[k] # box[r].participants[k],
                      box'[r].participants[k] # None
               PROVE  /\ box'[r].participants[k] > seenJoin[r][k]
                      /\ box'[r].participants[k] > seenLeave[r][k]
    BY Zenon
  <2>1. PICK j \in JoinIds : ProcessJoinCbs(r, k, j) /\ Added(box[r], k, j)
    BY OtherStepsLists, Zenon
  <2>2. box'[r].participants[k] = j
    BY <2>1, AddLists, CellIds DEF ProcessJoinCbs, TypeOK
  <2>3. /\ CellInv(box[r], k, seenJoin[r][k], seenLeave[r][k], lapsed[r][k])
        /\ j > lapsed[r][k]
    BY <2>1, Zenon DEF BoxInv, ProcessJoinCbs, NotOverdue
  <2>4. /\ j \in Nat /\ box[r].participants[k] \in Nat /\ box[r].leaves[k] \in Nat
        /\ seenJoin[r][k] \in Nat /\ seenLeave[r][k] \in Nat /\ lapsed[r][k] \in Nat
    BY CellIds, NoneNotJoinId, Zenon DEF TableType, Ids
  <2> QED BY <2>1, <2>2, <2>3, <2>4 DEF CellInv, Added, Stale, Listed, None
<1>2. Spec => [][Fresh]_vars
  BY <1>1, TypeCorrect, BoxCorrect, PTL DEF Spec
<1> QED BY <1>2, Zenon DEF NeverResurrects
-----------------------------------------------------------------------------
(***************************************************************************)
(* A WaitParticipant call that has not returned has its callback in the    *)
(* box or its channel closed.                                              *)
(***************************************************************************)
Armed ==
  \A w \in Waiters :
    pc[w] \in {"registered", "waiting"} => w \in joinCbs \/ w \in closed

WaitInv == Armed /\ NoLostWakeup

\* No call of WaitParticipant has started.
LEMMA WaitInit == Init => WaitInv
BY Zenon DEF Init, WaitInv, Armed, NoLostWakeup

\* A join fires the callback of every waiter it concerns, and a waiter looks
\* only after it has registered: both handlers and waiters keep WaitInv.
LEMMA WaitNext == TypeOK /\ WaitInv /\ [Next]_vars => WaitInv'
<1> SUFFICES ASSUME TypeOK, WaitInv, [Next]_vars PROVE WaitInv'
  BY Zenon
<1> USE DEF WaitInv
<1>1. ASSUME NEW r \in Rooms, NEW k \in Keys, NEW j \in JoinIds,
             ProcessJoinCbs(r, k, j)
      PROVE  WaitInv'
  <2>1. Armed'
    BY <1>1, Zenon DEF ProcessJoinCbs, Armed, TypeOK
  <2>2. NoLostWakeup'
    <3> SUFFICES ASSUME NEW w \in Waiters, pc[w] = "waiting", w \notin closed',
                        NEW q \in Keys, uidOf[q] = waitUid[w]
                 PROVE  ~Listed(box'[waitRoom[w]], q)
      BY <1>1, Zenon DEF ProcessJoinCbs, NoLostWakeup, Present
    <3>1. w \notin closed /\ w \in joinCbs
      BY <1>1, Zenon DEF ProcessJoinCbs, Armed
    <3>2. waitRoom[w] \in Rooms /\ ~Listed(box[waitRoom[w]], q)
      BY <3>1, WaitersAssumption, Zenon DEF NoLostWakeup, Present
    <3>3. CASE waitRoom[w] = r /\ q = k /\ Added(box[r], k, j)
      BY <1>1, <3>1, <3>3, Zenon DEF ProcessJoinCbs, Fired
    <3>4. CASE waitRoom[w] = r /\ ~(q = k /\ Added(box[r], k, j))
      <4>1. box'[r] = Add(box[r], k, j)
        BY <1>1, Zenon DEF ProcessJoinCbs, TypeOK
      <4> QED BY <3>2, <3>4, <4>1, AddLists, CellIds DEF Listed
    <3>5. CASE waitRoom[w] # r
      BY <1>1, <3>2, <3>5, Zenon DEF ProcessJoinCbs, TypeOK
    <3> QED BY <3>3, <3>4, <3>5, Zenon
  <2> QED BY <2>1, <2>2, Zenon
<1>2. ASSUME NEW r \in Rooms, NEW k \in Keys, NEW j \in JoinIds,
             ProcessLeaveCbs(r, k, j)
      PROVE  WaitInv'
  <2>1. UNCHANGED waitVars
    BY <1>2, Zenon DEF ProcessLeaveCbs, waitVars
  <2>2. \A w \in Waiters : Present(w)' => Present(w)
    BY <1>2, LeaveLists, WaitersAssumption, Zenon DEF Present, Listed
  <2> QED BY <2>1, <2>2, Zenon DEF Armed, NoLostWakeup, waitVars
<1>3. ASSUME NEW r \in Rooms, NEW k \in Keys, GrowOld(r, k)
      PROVE  WaitInv'
  <2>1. UNCHANGED waitVars
    BY <1>3, Zenon DEF GrowOld, waitVars
  <2>2. \A w \in Waiters : Present(w)' => Present(w)
    BY <1>3, AgeLists, WaitersAssumption, Zenon DEF Present, Listed
  <2> QED BY <2>1, <2>2, Zenon DEF Armed, NoLostWakeup, waitVars
<1>4. ASSUME NEW w \in Waiters,
             Register(w) \/ FirstLook(w) \/ Wake(w) \/ GiveUp(w) \/ SecondLook(w)
      PROVE  WaitInv'
  <2>1. \A v \in Waiters : Present(v)' <=> Present(v)
    BY <1>4, Zenon DEF Register, FirstLook, Wake, GiveUp, SecondLook, Return, Present, Listed
  <2>2. Armed'
    BY <1>4, Zenon DEF Register, FirstLook, Wake, GiveUp, SecondLook, Return, Armed, TypeOK
  <2>3. NoLostWakeup'
    BY <1>4, <2>1, Zenon
       DEF Register, FirstLook, Wake, GiveUp, SecondLook, Return, NoLostWakeup, TypeOK
  <2> QED BY <2>2, <2>3, Zenon
<1>5. CASE UNCHANGED vars
  BY <1>5, Zenon DEF vars, Armed, NoLostWakeup, Present, Listed
<1> QED BY <1>1, <1>2, <1>3, <1>4, <1>5, Zenon DEF Next

(***************************************************************************)
(* WaitParticipant registers its callback before it looks the user up, so  *)
(* that no join between the look and the wait is missed.                   *)
(***************************************************************************)
THEOREM WaitersAreWoken == Spec => []NoLostWakeup
<1>1. Spec => []WaitInv
  BY TypeInit, TypeNext, WaitInit, WaitNext, PTL DEF Spec
<1> QED BY <1>1, PTL DEF WaitInv
=============================================================================
