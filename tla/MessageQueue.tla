---------------------------- MODULE MessageQueue ----------------------------
(***************************************************************************)
(* main/messagequeue.go: one MessageQueue.  Every operation runs under the *)
(* queue's mutex and is one action, except that Put reads Closed before it *)
(* takes the mutex: that is a step of its own, and Close, which takes no   *)
(* mutex, may come between the two.  There is at most one Put under way:   *)
(* the only caller, sendMsg, holds netMutex.                               *)
(***************************************************************************)
EXTENDS QueueOps

CONSTANTS
  Prios,       (* priorities in use, int32 in the code                      *)
  Ages,        (* the maxAge arguments in use, in ticks of the clock        *)
  MaxSize,     (* NewMessageQueue's argument: 1024 in the code              *)
  PruneAbove,  (* the longest queue not pruned, floor(1.1 * MaxSize): 1126  *)
  MaxClock,    (* bound on the ticks of a run                               *)
  MaxPuts      (* bound on the messages of a run                            *)

ASSUME QueueAssumption ==
  /\ Prios \subseteq Int
  /\ Ages \subseteq Nat
  /\ MaxSize \in Nat \ {0}
  /\ PruneAbove \in Nat /\ PruneAbove >= MaxSize
  /\ MaxClock \in Nat
  /\ MaxPuts \in Nat

VARIABLES
  clock,          (* stratuxClock.Time                                      *)
  entries,        (* queue.entries                                          *)
  dataAvailable,  (* is the token in the one-place channel DataAvailable    *)
  closed,         (* queue.Closed                                           *)
  putting,        (* <<>>, or the arguments of a Put that saw Closed false  *)
  arrivals,       (* messages inserted so far: the arrival number of each   *)
  popped          (* what the latest PopFirst returned: <<>> or the entry   *)

vars == <<clock, entries, dataAvailable, closed, putting, arrivals, popped>>

Entry == [prio : Prios, outdatedAt : Nat, arrival : Nat]

Init ==
  /\ clock = 0
  /\ entries = <<>>
  /\ dataAvailable = FALSE
  /\ closed = FALSE
  /\ putting = <<>>
  /\ arrivals = 0
  /\ popped = <<>>

(* Mutant: sendMsg calls Put without netMutex, so two Puts overlap.        *)
PutCheckUnlocked(prio, age) ==
  /\ arrivals < MaxPuts
  /\ ~ closed
  /\ putting' = Append(putting, [prio |-> prio, age |-> age])
  /\ UNCHANGED <<clock, entries, dataAvailable, closed, arrivals, popped>>

(* Put, before the mutex: a closed queue drops the message. *)
PutCheck(prio, age) ==
  /\ putting = <<>>
  /\ arrivals < MaxPuts
  /\ ~ closed
  /\ putting' = <<[prio |-> prio, age |-> age]>>
  /\ UNCHANGED <<clock, entries, dataAvailable, closed, arrivals, popped>>

Inserted(e) == {InsertAt(entries, k, e) : k \in InsertPositions(entries, e.prio)}

(* Put, under the mutex: insert, prune a queue that is too long, notify. *)
PutInsert ==
  /\ putting # <<>>
  /\ LET e == [prio |-> putting[1].prio,
               outdatedAt |-> clock + putting[1].age,
               arrival |-> arrivals]
     IN \E q \in Inserted(e) :
          entries' \in IF Len(q) > PruneAbove THEN PrunedQueues(q, clock, MaxSize)
                                              ELSE {q}
  /\ dataAvailable' = (dataAvailable \/ entries' # <<>>)
  /\ putting' = <<>>
  /\ arrivals' = arrivals + 1
  /\ UNCHANGED <<clock, closed, popped>>

(* getFirst(false): strips the outdated front and leaves the first entry. *)
PeekFirst ==
  /\ entries' \in StrippedQueues(entries, clock)
  /\ UNCHANGED <<clock, dataAvailable, closed, putting, arrivals, popped>>

(* getFirst(true): the first current entry, or nil. *)
PopFirst ==
  /\ \E q \in StrippedQueues(entries, clock) :
       IF q = <<>>
       THEN entries' = <<>> /\ popped' = <<>>
       ELSE entries' = Tail(q) /\ popped' = <<Head(q)>>
  /\ UNCHANGED <<clock, dataAvailable, closed, putting, arrivals>>

(* GetQueueDump(true); with false it changes nothing. *)
GetQueueDump ==
  /\ entries' \in PrunedQueues(entries, clock, MaxSize)
  /\ UNCHANGED <<clock, dataAvailable, closed, putting, arrivals, popped>>

(* The receive from DataAvailable in connectionWriter. *)
ReceiveDataAvailable ==
  /\ dataAvailable
  /\ dataAvailable' = FALSE
  /\ UNCHANGED <<clock, entries, closed, putting, arrivals, popped>>

(* Close: Closed is never reset, and the token wakes the writer. *)
Close ==
  /\ ~ closed
  /\ closed' = TRUE
  /\ dataAvailable' = TRUE
  /\ UNCHANGED <<clock, entries, putting, arrivals, popped>>

(* monotonic.Watcher: the clock moves in ticks of 10 ms. *)
Tick ==
  /\ clock < MaxClock
  /\ clock' = clock + 1
  /\ UNCHANGED <<entries, dataAvailable, closed, putting, arrivals, popped>>

Next ==
  \/ \E prio \in Prios, age \in Ages : PutCheck(prio, age)
  \/ PutInsert
  \/ PeekFirst
  \/ PopFirst
  \/ GetQueueDump
  \/ ReceiveDataAvailable
  \/ Close
  \/ Tick

Spec == Init /\ [][Next]_vars
-----------------------------------------------------------------------------
(* Every variable has its type, and a bound the operations keep. *)
TypeOK ==
  /\ clock \in 0 .. MaxClock
  /\ entries \in Seq(Entry)
  /\ dataAvailable \in BOOLEAN
  /\ closed \in BOOLEAN
  /\ putting \in Seq([prio : Prios, age : Ages]) /\ Len(putting) <= 1
  /\ arrivals \in 0 .. MaxPuts
  /\ popped \in Seq(Entry) /\ Len(popped) <= 1

(***************************************************************************)
(* The queue is in the order messages must leave in: most urgent first,    *)
(* and first come first served within a priority, whatever insertions,     *)
(* prunes and expiries it went through (findInsertPosition's "in order to  *)
(* keep insertion order for equal-priority messages").  sort.Search is     *)
(* only right because this holds.                                          *)
(***************************************************************************)
QueueOrder ==
  \A i, j \in 1 .. Len(entries) : i < j =>
     \/ entries[i].prio < entries[j].prio
     \/ entries[i].prio = entries[j].prio /\ entries[i].arrival < entries[j].arrival

(***************************************************************************)
(* The batch pruning of Put keeps the queue within 1.1 * maxSize entries   *)
(* after every operation: what a client that stopped reading costs.        *)
(***************************************************************************)
WithinLimit == Len(entries) <= PruneAbove

(***************************************************************************)
(* What the queue promises its users, without slices: see PriorityBuffer.  *)
(***************************************************************************)
Held == {entries[i] : i \in 1 .. Len(entries)}

Buffer == INSTANCE PriorityBuffer WITH held <- Held, delivered <- popped

BufferSpec == Buffer!Spec
=============================================================================
