------------------------------ MODULE QueueOps ------------------------------
(***************************************************************************)
(* The data structure inside main/messagequeue.go: the slice of entries of *)
(* a MessageQueue, ordered by priority (a smaller number is more urgent)   *)
(* and by arrival within one priority.  Only the operators are here; the   *)
(* modules that call them add the mutex, the clock and the callers.        *)
(*                                                                         *)
(* An entry is any record with the fields prio and outdatedAt; what else   *)
(* it carries stands for the message.                                      *)
(***************************************************************************)
EXTENDS Integers, Sequences, FiniteSets

(* entry.outdatedAt.Before(stratuxClock.Time): strictly before. *)
Outdated(e, now) == e.outdatedAt < now

(***************************************************************************)
(* findInsertPosition: sort.Search over "priority > prio".  What the       *)
(* binary search guarantees of its result k (0 .. Len(q)) is that the      *)
(* predicate is false just before it and true at it; on a sorted queue     *)
(* that is one k, after every entry of the same priority.                  *)
(***************************************************************************)
InsertPositionsBeforeEquals(q, prio) ==      \* mutant: >= in the search
  {k \in 0 .. Len(q) : /\ k > 0      => q[k].prio < prio
                       /\ k < Len(q) => q[k+1].prio >= prio}

InsertPositions(q, prio) ==
  {k \in 0 .. Len(q) : /\ k > 0      => q[k].prio <= prio
                       /\ k < Len(q) => q[k+1].prio > prio}

InsertAt(q, k, e) == SubSeq(q, 1, k) \o <<e>> \o SubSeq(q, k+1, Len(q))

(***************************************************************************)
(* getFirstUsableIndex: the outdated entries at the front are skipped, and *)
(* with nothing current left the slice is replaced by an empty one.        *)
(* StrippedQueues is the singleton of what getFirst leaves of the queue    *)
(* before the first entry itself is taken off; outdated entries behind a   *)
(* current one stay.                                                       *)
(***************************************************************************)
StrippedQueues(q, now) ==
  {SubSeq(q, k+1, Len(q)) :
     k \in {j \in 0 .. Len(q) : /\ \A i \in 1 .. j : Outdated(q[i], now)
                                /\ j < Len(q) => ~ Outdated(q[j+1], now)}}

(***************************************************************************)
(* prune: outdated entries go; of the rest, when there are more than max,  *)
(* the surplus goes from the least urgent category upwards and in each     *)
(* category the oldest first.  GoesBefore is that order of removal on      *)
(* positions: the code groups neighbours of equal priority, which in a     *)
(* sorted queue are all the entries of that priority.                      *)
(***************************************************************************)
Usable(q, now) == {i \in 1 .. Len(q) : ~ Outdated(q[i], now)}

GoesBeforeNewestFirst(q, j, i) ==            \* mutant: strips the end of a category
  \/ q[j].prio > q[i].prio
  \/ q[j].prio = q[i].prio /\ j > i

GoesBefore(q, j, i) == \/ q[j].prio > q[i].prio
                       \/ q[j].prio = q[i].prio /\ j < i

SurvivorsAllUsable(q, now, max) == Usable(q, now)    \* mutant: only the outdated go

Survivors(q, now, max) ==
  LET U == Usable(q, now)
  IN  {i \in U : Cardinality({j \in U : GoesBefore(q, j, i)}) >= Cardinality(U) - max}

(* The increasing enumerations of a finite set of positions: one for each set. *)
Enumerations(K) ==
  {f \in [1 .. Cardinality(K) -> K] : \A a, b \in 1 .. Cardinality(K) : a < b => f[a] < f[b]}

(* The singleton of the queue that prune leaves: the survivors, in their order. *)
PrunedQueues(q, now, max) ==
  {[a \in DOMAIN f |-> q[f[a]]] : f \in Enumerations(Survivors(q, now, max))}
=============================================================================
