------------------------------- MODULE Kafka -------------------------------
(***************************************************************************)
(* How a node consumes one partition of one topic (signal/kafka.go):       *)
(* Poll, the pconsumer goroutine, and the callbacks of the group           *)
(* (assigned, revoked, lost).  The node may crash, and the broker may take *)
(* the partition away and give it back; what it fetches, marks and commits *)
(* is modelled from how the code uses the kgo client.                      *)
(***************************************************************************)
EXTENDS Integers, Sequences

CONSTANTS
  MaxRecords,  \* bound: records in the partition
  QueueCap,    \* the capacity of pconsumer.recs (5)
  MaxGens      \* bound: how often the partition is assigned

ASSUME KafkaAssumption ==
  /\ MaxRecords \in Nat /\ QueueCap \in Nat \ {0} /\ MaxGens \in Nat \ {0}

Gens == 1..MaxGens
Offsets == 1..MaxRecords
None == 0

VARIABLES
  produced,   \* the end of the log
  committed,  \* the offset the group has at the broker
  marked,     \* MarkCommitRecords: what the next commit stores
  gen,        \* assignments so far
  cons,       \* consumers[tp]: the pconsumer of the partition, or None
  phase,      \* "open", or what the group's callback waits for
  fetched,    \* the last offset PollRecords has returned
  polled,     \* the records that Poll has and did not pass on
  st,         \* pconsumer: "none", "select", "work" or "done"
  quit,       \* pconsumer.quit is closed
  recs,       \* pconsumer.recs: a queue of batches
  cur,        \* what is left of the batch in EachRecord
  handled     \* offsets the worker has seen

pcVars == <<st, quit, recs, cur>>
vars == <<produced, committed, marked, gen, cons, phase, fetched, polled, pcVars, handled>>

\* Offsets never pass the end of the log, and the commit never passes the marks.
TypeOK ==
  /\ produced \in 0..MaxRecords /\ committed \in 0..marked /\ marked \in 0..produced
  /\ gen \in 0..MaxGens /\ cons \in Gens \cup {None}
  /\ phase \in {"open", "revoke", "lose"} /\ fetched \in 0..produced
  /\ polled \in Seq(Offsets)
  /\ st \in [Gens -> {"none", "select", "work", "done"}] /\ quit \in [Gens -> BOOLEAN]
  /\ \A g \in Gens : /\ recs[g] \in Seq(Seq(Offsets)) /\ Len(recs[g]) <= QueueCap
                     /\ cur[g] \in Seq(Offsets)
  /\ handled \subseteq Offsets

Init ==
  /\ produced = 0 /\ committed = 0 /\ marked = 0
  /\ gen = 0 /\ cons = None /\ phase = "open" /\ fetched = 0 /\ polled = <<>>
  /\ st = [g \in Gens |-> "none"] /\ quit = [g \in Gens |-> FALSE]
  /\ recs = [g \in Gens |-> <<>>] /\ cur = [g \in Gens |-> <<>>]
  /\ handled = {}
-----------------------------------------------------------------------------
\* Another node's Emit produces a record.
Produce ==
  /\ produced < MaxRecords
  /\ produced' = produced + 1
  /\ UNCHANGED <<committed, marked, gen, cons, phase, fetched, polled, pcVars, handled>>

\* Mutant: consumption goes on where the last fetch ended.
ResumeAtFetch == fetched

\* A new assignment starts at what the group has committed.
ResumeAt == committed

(***************************************************************************)
(* assigned: a new pconsumer and its goroutine.                            *)
(***************************************************************************)
Assigned ==
  /\ cons = None /\ phase = "open" /\ gen < MaxGens
  /\ gen' = gen + 1 /\ cons' = gen + 1
  /\ st' = [st EXCEPT ![gen + 1] = "select"]
  /\ fetched' = ResumeAt /\ marked' = committed
  /\ UNCHANGED <<produced, committed, phase, polled, quit, recs, cur, handled>>

\* PollRecords returns what was fetched, at most up to the end of the log.
Poll ==
  /\ cons # None /\ polled = <<>> /\ fetched < produced
  /\ \E end \in (fetched + 1)..produced :
       /\ polled' = [i \in 1..(end - fetched) |-> fetched + i]
       /\ fetched' = end
  /\ UNCHANGED <<produced, committed, marked, gen, cons, phase, pcVars, handled>>

\* s.consumers[tp].recs <- p, then AllowRebalance
PassOn ==
  /\ polled # <<>> /\ cons # None /\ Len(recs[cons]) < QueueCap
  /\ recs' = [recs EXCEPT ![cons] = Append(@, polled)]
  /\ polled' = <<>>
  /\ UNCHANGED <<produced, committed, marked, gen, cons, phase, fetched, st, quit, cur, handled>>

\* case p := <-pc.recs
Take(g) ==
  /\ st[g] = "select" /\ recs[g] # <<>>
  /\ st' = [st EXCEPT ![g] = "work"]
  /\ cur' = [cur EXCEPT ![g] = Head(recs[g])]
  /\ recs' = [recs EXCEPT ![g] = Tail(@)]
  /\ UNCHANGED <<produced, committed, marked, gen, cons, phase, fetched, polled, quit, handled>>

\* MarkCommitRecords after EachRecord; marks never go back.
Mark(g) == IF Len(cur[g]) = 1 /\ Head(cur[g]) > marked THEN Head(cur[g]) ELSE marked

\* EachRecord(pc.worker), one record, and after the last the marks.
Work(g) ==
  /\ st[g] = "work"
  /\ handled' = handled \cup {Head(cur[g])}
  /\ cur' = [cur EXCEPT ![g] = Tail(@)]
  /\ st' = [st EXCEPT ![g] = IF Len(cur[g]) = 1 THEN "select" ELSE "work"]
  /\ marked' = Mark(g)
  /\ UNCHANGED <<produced, committed, gen, cons, phase, fetched, polled, quit, recs>>

\* case <-pc.quit, though batches may be left in recs
Quit(g) ==
  /\ st[g] = "select" /\ quit[g]
  /\ st' = [st EXCEPT ![g] = "done"]
  /\ UNCHANGED <<produced, committed, marked, gen, cons, phase, fetched, polled, quit, recs, cur, handled>>

\* AutoCommitMarks
AutoCommit ==
  /\ cons # None /\ committed # marked
  /\ committed' = marked
  /\ UNCHANGED <<produced, marked, gen, cons, phase, fetched, polled, pcVars, handled>>

\* Mutant: a rebalance does not wait for Poll.
RebalanceAnyTime == TRUE

\* BlockRebalanceOnPoll: no rebalance until Poll calls AllowRebalance.
RebalanceAllowed == polled = <<>>

(***************************************************************************)
(* revoked and lost: killConsumers.                                        *)
(***************************************************************************)
KillConsumers(p) ==
  /\ cons # None /\ phase = "open" /\ gen < MaxGens /\ RebalanceAllowed
  /\ quit' = [quit EXCEPT ![cons] = TRUE]
  /\ cons' = None /\ phase' = p
  /\ UNCHANGED <<produced, committed, marked, gen, fetched, polled, st, recs, cur, handled>>

\* Mutant: killConsumers does not wait.
KilledAtOnce == TRUE

\* wg.Wait(): every goroutine that was killed is done.
Killed == \A g \in Gens : quit[g] => st[g] = "done"

\* wg.Wait() is over: revoked commits the marks (which may fail), lost does not.
CallbackEnds ==
  /\ phase # "open" /\ Killed
  /\ phase' = "open"
  /\ committed' \in IF phase = "revoke" THEN {committed, marked} ELSE {committed}
  /\ marked' = committed'
  /\ UNCHANGED <<produced, gen, cons, fetched, polled, pcVars, handled>>

\* The process dies and is started again.
Crash ==
  /\ gen \in 1..(MaxGens - 1)
  /\ cons' = None /\ phase' = "open" /\ polled' = <<>> /\ marked' = committed
  /\ st' = [g \in Gens |-> IF g <= gen THEN "done" ELSE "none"]
  /\ quit' = [g \in Gens |-> FALSE]
  /\ recs' = [g \in Gens |-> <<>>] /\ cur' = [g \in Gens |-> <<>>]
  /\ UNCHANGED <<produced, committed, gen, fetched, handled>>

Next ==
  \/ Produce \/ Assigned \/ Poll \/ PassOn \/ AutoCommit \/ CallbackEnds \/ Crash
  \/ \E g \in Gens : Take(g) \/ Work(g) \/ Quit(g)
  \/ \E p \in {"revoke", "lose"} : KillConsumers(p)

(***************************************************************************)
(* The goroutines run and the broker gives the partition back; nothing     *)
(* makes a node crash, the broker revoke, or a client commit.              *)
(***************************************************************************)
Fairness ==
  /\ WF_vars(Assigned) /\ WF_vars(Poll) /\ WF_vars(PassOn) /\ WF_vars(CallbackEnds)
  /\ \A g \in Gens : WF_vars(Take(g)) /\ WF_vars(Work(g)) /\ WF_vars(Quit(g))

Spec == Init /\ [][Next]_vars /\ Fairness
-----------------------------------------------------------------------------
(***************************************************************************)
(* Poll passes records only to a pconsumer that exists (the comment there  *)
(* relies on it): the entry is not nil when Poll indexes consumers.        *)
(***************************************************************************)
ConsumerExists == polled # <<>> => cons # None

(***************************************************************************)
(* The records of a partition are worked on by one goroutine at a time:    *)
(* the pconsumer of the last assignment is gone when a new one starts.     *)
(***************************************************************************)
OneWorker == \A g, h \in Gens : {st[g], st[h]} \subseteq {"select", "work"} => g = h

(***************************************************************************)
(* The node sees every record, the first time in the order of the log.     *)
(***************************************************************************)
Delivery == INSTANCE OrderedDelivery
ImplementsDelivery == Delivery!Spec
=============================================================================
