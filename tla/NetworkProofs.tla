--------------------------- MODULE NetworkProofs ----------------------------
(***************************************************************************)
(* The connections of network.go, for every choice of the constants: the   *)
(* types of a ConnectionWriter, that no wake-up of its goroutine is lost,  *)
(* and that a closed connection is noticed; and for a SerialOutput, which  *)
(* stands beside it as Serial, its types, that no open port is forgotten,  *)
(* that no goroutine is stuck on a queue of its own, and that a shared     *)
(* queue, once it is closed, ends the output.                              *)
(***************************************************************************)
EXTENDS ConnectionWriter, FiniteSetTheorems, SequenceTheorems, TLAPS

CONSTANTS Conns, NoConn, SharedQueue, Prompt
VARIABLES present, mapped, port, queueClosed, token, writer, closer

Serial == INSTANCE SerialOutput

-----------------------------------------------------------------------------
(* The slice of a queue, whatever its entries carry: filled,... *)
LEMMA InsertedQueue ==
  ASSUME NEW S, NEW q \in Seq(S), NEW e \in S, NEW k \in InsertPositions(q, e.prio),
         NEW r, r = InsertAt(q, k, e)
  PROVE  r \in Seq(S) /\ Len(r) = Len(q) + 1
<1> DEFINE a == SubSeq(q, 1, k)
           b == SubSeq(q, k+1, Len(q))
           m == <<e>>
<1>1. k \in 0 .. Len(q) /\ Len(q) \in Nat
  BY LenProperties DEF InsertPositions
<1>2. a \in Seq(S) /\ Len(a) = k /\ b \in Seq(S) /\ Len(b) = Len(q) - k
  BY <1>1, SubSeqProperties, ElementOfSeq
<1>3. m \in Seq(S) /\ Len(m) = 1
  OBVIOUS
<1>4. r = a \o m \o b
  BY DEF InsertAt
<1> HIDE DEF a, b, m
<1>5. a \o m \in Seq(S) /\ Len(a \o m) = Len(a) + Len(m)
  BY <1>2, <1>3, ConcatProperties
<1> DEFINE am == a \o m
<1>6. am \in Seq(S) /\ Len(am) = k + 1 /\ r = am \o b
  BY <1>1, <1>2, <1>3, <1>4, <1>5
<1> HIDE DEF am
<1>7. am \in Seq(S) /\ b \in Seq(S)
  BY <1>2, <1>6
<1>8. am \o b \in Seq(S) /\ Len(am \o b) = Len(am) + Len(b)
  BY <1>7, ConcatProperties
<1> QED
  BY <1>1, <1>2, <1>6, <1>8

(* ...looked at,... *)
LEMMA StrippedQueue ==
  ASSUME NEW S, NEW q \in Seq(S), NEW now, NEW r \in StrippedQueues(q, now)
  PROVE  r \in Seq(S) /\ Len(r) \in Nat /\ Len(r) <= Len(q)
<1>1. PICK k \in 0 .. Len(q) : r = SubSeq(q, k+1, Len(q))
  BY DEF StrippedQueues
<1>2. Len(q) \in Nat
  BY LenProperties
<1> QED
  BY <1>1, <1>2, SubSeqProperties, ElementOfSeq

(* What the positions of a typed slice hold. *)
LEMMA EntryFields ==
  ASSUME NEW q \in Seq(Entry), NEW i \in 1 .. Len(q)
  PROVE  q[i] \in Entry /\ q[i].prio \in Prios /\ q[i].prio \in Int
<1>1. q[i] \in Entry
  BY ElementOfSeq
<1> QED
  BY <1>1, WriterAssumption DEF Entry

(* ...and pruned, which keeps no more than the size asked for. *)
LEMMA PruneKeepsAtMost ==
  ASSUME NEW q \in Seq(Entry), NEW now, NEW max \in Nat
  PROVE  Cardinality(Survivors(q, now, max)) <= max
<1> DEFINE U == Usable(q, now)
           n == Cardinality(U)
           Before(i) == {j \in U : GoesBefore(q, j, i)}
           K == Survivors(q, now, max)
           rank == [i \in K |-> Cardinality(Before(i))]
<1>1. IsFiniteSet(U) /\ n \in Nat /\ U \subseteq 1 .. Len(q) /\ Len(q) \in Nat
  <2>1. Len(q) \in Nat
    BY LenProperties
  <2>2. IsFiniteSet(1 .. Len(q))
    BY <2>1, FS_Interval
  <2>3. U \subseteq 1 .. Len(q)
    BY DEF Usable
  <2>4. IsFiniteSet(U)
    BY <2>2, <2>3, FS_Subset
  <2> QED
    BY <2>1, <2>3, <2>4, FS_CardinalityType
<1>2. \A i \in U : q[i].prio \in Int /\ i \in Int
  BY <1>1, EntryFields
<1>3. ASSUME NEW i \in U
      PROVE  /\ IsFiniteSet(Before(i))
             /\ Cardinality(Before(i)) \in Nat
             /\ Cardinality(Before(i)) < n
  <2>1. Before(i) \subseteq U /\ i \notin Before(i)
    BY <1>2 DEF GoesBefore
  <2>2. IsFiniteSet(Before(i)) /\ Cardinality(Before(i)) <= n
    BY <1>1, <2>1, FS_Subset
  <2>3. Cardinality(Before(i)) # n
    BY <1>1, <2>1, FS_Subset
  <2>4. Cardinality(Before(i)) \in Nat
    BY <2>2, FS_CardinalityType
  <2> QED
    BY <1>1, <2>2, <2>3, <2>4
<1>4. ASSUME NEW i \in U, NEW j \in U, i # j
      PROVE  Cardinality(Before(i)) # Cardinality(Before(j))
  <2>1. ASSUME NEW a \in U, NEW b \in U, GoesBefore(q, a, b)
        PROVE  Cardinality(Before(a)) # Cardinality(Before(b))
    <3>1. Before(a) \subseteq Before(b)
      BY <1>2, <2>1 DEF GoesBefore
    <3>2. a \in Before(b) /\ a \notin Before(a)
      BY <1>2, <2>1 DEF GoesBefore
    <3> QED
      BY <1>3, <3>1, <3>2, FS_Subset
  <2>2. GoesBefore(q, i, j) \/ GoesBefore(q, j, i)
    BY <1>2, <1>4 DEF GoesBefore
  <2> QED
    BY <2>1, <2>2
<1> HIDE DEF Before
<1>5. K = {i \in U : Cardinality(Before(i)) >= n - max}
  BY DEF Survivors, Before
<1> HIDE DEF U, n, K
<1> DEFINE lo == IF n - max >= 0 THEN n - max ELSE 0
<1>6. lo \in Nat /\ n - lo <= max /\ lo <= n
  BY <1>1
<1>7. rank \in Injection(K, lo .. n - 1)
  <2>1. \A i \in K : rank[i] \in lo .. n - 1
    BY <1>1, <1>3, <1>5, <1>6
  <2>2. \A i, j \in K : i # j => rank[i] # rank[j]
    BY <1>4, <1>5
  <2> QED
    BY <2>1, <2>2 DEF Injection, IsInjective
<1>8. IsFiniteSet(lo .. n - 1) /\ Cardinality(lo .. n - 1) = n - lo
  <2>1. lo \in Int /\ n - 1 \in Int /\ n - 1 - lo + 1 = n - lo /\ (lo > n - 1 => n - lo = 0)
    BY <1>1, <1>6
  <2> HIDE DEF lo
  <2> QED
    BY <2>1, FS_Interval
<1>9. Cardinality(K) <= n - lo
  BY <1>7, <1>8, FS_Injection
<1>10. IsFiniteSet(K) /\ Cardinality(K) \in Nat
  BY <1>1, <1>5, FS_Subset, FS_CardinalityType
<1> QED
  BY <1>1, <1>6, <1>9, <1>10 DEF K

LEMMA PrunedQueue ==
  ASSUME NEW q \in Seq(Entry), NEW now, NEW max \in Nat, NEW r \in PrunedQueues(q, now, max)
  PROVE  r \in Seq(Entry) /\ Len(r) <= max
<1> DEFINE K == Survivors(q, now, max)
           c == Cardinality(K)
<1>1. Len(q) \in Nat /\ K \subseteq 1 .. Len(q)
  BY LenProperties DEF Survivors, Usable
<1>2. IsFiniteSet(K) /\ c \in Nat /\ c <= max
  <2>1. IsFiniteSet(1 .. Len(q))
    BY <1>1, FS_Interval
  <2>2. IsFiniteSet(K)
    BY <1>1, <2>1, FS_Subset
  <2>3. c <= max
    BY PruneKeepsAtMost
  <2> QED
    BY <2>2, <2>3, FS_CardinalityType
<1>3. PICK f \in [1 .. c -> K] : r = [a \in DOMAIN f |-> q[f[a]]]
  BY DEF PrunedQueues, Enumerations
<1>4. r = [a \in 1 .. c |-> q[f[a]]]
  BY <1>3
<1>5. \A a \in 1 .. c : f[a] \in 1 .. Len(q) /\ q[f[a]] \in Entry
  BY <1>1, <1>3, ElementOfSeq
<1> HIDE DEF K, c
<1>6. r \in [1 .. c -> Entry]
  BY <1>4, <1>5
<1>7. r \in Seq(Entry) /\ Len(r) = c
  BY <1>2, <1>6, LenProperties
<1> QED
  BY <1>2, <1>7

-----------------------------------------------------------------------------
(* The types, one variable at a time. *)
QueueTypes == entries \in Seq(Entry) /\ Len(entries) <= PruneAbove

StateTypes ==
  /\ dataAvailable \in BOOLEAN /\ closed \in BOOLEAN /\ registered \in BOOLEAN
  /\ asleep \in BOOLEAN /\ throttled \in BOOLEAN /\ packet \in BOOLEAN
  /\ sending \in Seq(Prios) /\ Len(sending) <= 1
  /\ kind \in Kinds /\ pc \in Pcs
  /\ peeked \in Prios \cup {0}
  /\ gate \in Gates

LEMMA Types ==
  /\ TypeOK <=> QueueTypes /\ StateTypes
  /\ TypeOK' <=> QueueTypes' /\ StateTypes'
  BY DEF TypeOK, QueueTypes, StateTypes

WriterInv == TypeOK /\ NoLostWakeup

LEMMA FinishPutKeeps ==
  ASSUME WriterInv, FinishPut
  PROVE  WriterInv'
<1>1. QueueTypes /\ StateTypes
  BY Types DEF WriterInv
<1> DEFINE e == [prio |-> sending[1], outdatedAt |-> MaxAge]
<1>2. e \in Entry
  <2>1. sending # <<>>
    BY DEF FinishPut
  <2>2. 1 \in 1 .. Len(sending)
    BY <1>1, <2>1, EmptySeq DEF StateTypes
  <2>3. sending[1] \in Prios
    BY <1>1, <2>2, ElementOfSeq DEF StateTypes
  <2> QED
    BY <2>3, WriterAssumption DEF Entry
<1>3. PICK k \in InsertPositions(entries, e.prio) :
        entries' \in IF Len(InsertAt(entries, k, e)) > PruneAbove
                     THEN PrunedQueues(InsertAt(entries, k, e), 0, MaxSize)
                     ELSE {InsertAt(entries, k, e)}
  BY DEF FinishPut
<1> HIDE DEF e
<1>4. PICK q : q = InsertAt(entries, k, e)
  OBVIOUS
<1>5. q \in Seq(Entry) /\ Len(q) \in Nat
  BY <1>1, <1>2, <1>4, InsertedQueue, LenProperties DEF QueueTypes
<1>6. entries' \in IF Len(q) > PruneAbove THEN PrunedQueues(q, 0, MaxSize) ELSE {q}
  BY <1>3, <1>4
<1>7. QueueTypes'
  <2>1. CASE Len(q) > PruneAbove
    <3>1. entries' \in PrunedQueues(q, 0, MaxSize) /\ MaxSize \in Nat
      BY <1>6, <2>1, WriterAssumption
    <3>2. entries' \in Seq(Entry) /\ Len(entries') <= MaxSize /\ Len(entries') \in Nat
      BY <1>5, <3>1, PrunedQueue, LenProperties
    <3> QED
      BY <3>2, WriterAssumption DEF QueueTypes
  <2>2. CASE ~ (Len(q) > PruneAbove)
    BY <1>5, <1>6, <2>2, WriterAssumption DEF QueueTypes
  <2> QED
    BY <2>1, <2>2
<1>8. /\ dataAvailable' = (dataAvailable \/ entries' # <<>>)
      /\ sending' = <<>>
      /\ UNCHANGED <<closed, registered, kind, asleep, throttled, pc, peeked, gate, packet>>
  BY DEF FinishPut, clientVars, writerVars
<1>9. StateTypes'
  BY <1>1, <1>8 DEF StateTypes
<1>10. NoLostWakeup'
  <2>1. entries' = <<>> => Usable(entries', 0) = {}
    BY DEF Usable
  <2> QED
    BY <1>8, <2>1 DEF NoLostWakeup
<1> QED
  BY <1>7, <1>9, <1>10, Types DEF WriterInv

LEMMA TickKeeps ==
  ASSUME WriterInv, Tick
  PROVE  WriterInv'
<1>1. QueueTypes /\ StateTypes /\ Len(entries) \in Nat
  BY Types, LenProperties DEF WriterInv, QueueTypes
<1> DEFINE n == Len(entries)
           aged(i) == [entries[i] EXCEPT !.outdatedAt = IF @ < 0 THEN @ ELSE @ - 1]
<1>2. /\ entries' = [i \in 1 .. n |-> aged(i)]
      /\ UNCHANGED <<dataAvailable, closed, registered, sending, kind, asleep, throttled,
                     pc, peeked, gate, packet>>
  BY DEF Tick, clientVars, writerVars
<1>3. ASSUME NEW i \in 1 .. n
      PROVE  /\ aged(i) \in Entry
             /\ aged(i).outdatedAt >= 0 => entries[i].outdatedAt >= 0
             /\ aged(i).outdatedAt \in Int /\ entries[i].outdatedAt \in Int
  <2>1. entries[i] \in Entry
    BY <1>1, <1>3, ElementOfSeq DEF QueueTypes
  <2>2. PICK p \in Prios, t \in -1 .. MaxAge : entries[i] = [prio |-> p, outdatedAt |-> t]
    BY <2>1 DEF Entry
  <2>3. aged(i) = [prio |-> p, outdatedAt |-> IF t < 0 THEN t ELSE t - 1]
    BY <2>2
  <2>4. (IF t < 0 THEN t ELSE t - 1) \in -1 .. MaxAge
    BY WriterAssumption
  <2> HIDE DEF aged
  <2> QED
    BY <2>2, <2>3, <2>4, WriterAssumption DEF Entry
<1>4. entries' \in Seq(Entry) /\ Len(entries') = n /\ \A i \in 1 .. n : entries'[i] = aged(i)
  <2> HIDE DEF aged, n
  <2>1. entries' \in [1 .. n -> Entry]
    BY <1>2, <1>3
  <2> QED
    BY <1>1, <1>2, <2>1, LenProperties DEF n
<1>5. Usable(entries', 0) \subseteq Usable(entries, 0)
  <2> HIDE DEF aged
  <2> QED
    BY <1>3, <1>4 DEF Usable, Outdated
<1>6. QueueTypes'
  BY <1>1, <1>4 DEF QueueTypes
<1>7. StateTypes'
  BY <1>1, <1>2 DEF StateTypes
<1>8. NoLostWakeup'
  BY <1>2, <1>5 DEF WriterInv, NoLostWakeup
<1> QED
  BY <1>6, <1>7, <1>8, Types DEF WriterInv

(* The sender, the clock's other effects and the client leave the queue's  *)
(* messages alone, and take no token away.                                 *)
LEMMA OthersKeep ==
  ASSUME WriterInv,
         \/ \E prio \in Prios : SendMsg(prio)
         \/ RemoveClient \/ Unreachable \/ FallAsleep \/ WakeUp \/ Unthrottle
         \/ UNCHANGED vars
  PROVE  WriterInv'
<1>1. QueueTypes /\ StateTypes
  BY Types DEF WriterInv
<1>2. /\ UNCHANGED <<entries, pc, peeked, gate, packet, kind>>
      /\ dataAvailable => dataAvailable'
      /\ dataAvailable' \in BOOLEAN /\ closed' \in BOOLEAN /\ registered' \in BOOLEAN
      /\ asleep' \in BOOLEAN /\ throttled' \in BOOLEAN
  BY <1>1 DEF SendMsg, RemoveClient, CloseQueue, Unreachable, FallAsleep, WakeUp, Unthrottle,
     vars, queueVars, clientVars, writerVars, StateTypes
<1>3. sending' \in Seq(Prios) /\ Len(sending') <= 1
  <2>1. CASE UNCHANGED sending
    BY <1>1, <2>1 DEF StateTypes
  <2>2. ASSUME NEW prio \in Prios, sending' = <<prio>>
        PROVE  sending' \in Seq(Prios) /\ Len(sending') <= 1
    BY <2>2
  <2> QED
    BY <2>1, <2>2 DEF SendMsg, RemoveClient, Unreachable, FallAsleep, WakeUp, Unthrottle, vars
<1>4. QueueTypes' /\ StateTypes'
  BY <1>1, <1>2, <1>3 DEF QueueTypes, StateTypes
<1>5. NoLostWakeup'
  BY <1>2 DEF WriterInv, NoLostWakeup
<1> QED
  BY <1>4, <1>5, Types DEF WriterInv

(* The goroutine: it goes back to wait only when it found nothing, or when *)
(* its judgement of the client was not to send.                            *)
LEMMA WriterKeeps ==
  ASSUME WriterInv, Writer
  PROVE  WriterInv'
<1>1. QueueTypes /\ StateTypes
  BY Types DEF WriterInv
<1>2. CASE WaitForData \/ CheckClosed \/ GateOpen
  <2>1. StateTypes'
    BY <1>1, <1>2 DEF WaitForData, CheckClosed, GateOpen, Goto, StateTypes, Pcs, Gates,
       queueVars, clientVars
  <2>2. UNCHANGED entries /\ pc' # "wait"
    BY <1>2 DEF WaitForData, CheckClosed, GateOpen, Goto, queueVars
  <2> QED
    BY <1>1, <2>1, <2>2, Types DEF WriterInv, NoLostWakeup, QueueTypes
<1>3. CASE GatePeek
  <2>1. /\ entries' \in StrippedQueues(entries, 0)
        /\ peeked' = IF entries' = <<>> THEN 0 ELSE entries'[1].prio
        /\ pc' = "judge"
        /\ UNCHANGED <<dataAvailable, closed, registered, sending, kind, asleep, throttled,
                       gate, packet>>
    BY <1>3 DEF GatePeek, Goto, clientVars
  <2>2. entries' \in Seq(Entry) /\ Len(entries') \in Nat /\ Len(entries') <= Len(entries)
    BY <1>1, <2>1, StrippedQueue DEF QueueTypes
  <2>3. QueueTypes'
    BY <1>1, <2>2, LenProperties, WriterAssumption DEF QueueTypes
  <2>4. peeked' \in Prios \cup {0}
    <3>1. entries' # <<>> => 1 \in 1 .. Len(entries')
      BY <2>2, EmptySeq
    <3> QED
      BY <2>1, <2>2, <3>1, EntryFields
  <2>5. StateTypes'
    BY <1>1, <2>1, <2>4 DEF StateTypes, Pcs
  <2> QED
    BY <2>1, <2>3, <2>5, Types DEF WriterInv, NoLostWakeup
<1>4. CASE Judge
  <2>1. /\ pc' \in {"write", "wait", "pop"} /\ gate' \in Gates /\ peeked' = 0
        /\ pc' = "wait" => gate' # "open"
        /\ UNCHANGED <<entries, dataAvailable, closed, registered, sending, kind, asleep,
                       throttled, packet>>
    BY <1>4 DEF Judge, Flush, Goto, Gates, queueVars, clientVars
  <2> QED
    BY <1>1, <2>1, Types DEF WriterInv, NoLostWakeup, QueueTypes, StateTypes, Pcs
<1>5. CASE PopNothing
  <2>1. /\ pc' \in {"write", "wait"} /\ entries' = <<>>
        /\ UNCHANGED <<dataAvailable, closed, registered, sending, kind, asleep, throttled,
                       peeked, gate, packet>>
    BY <1>5 DEF PopNothing, Flush, Goto, clientVars
  <2>2. QueueTypes' /\ Usable(entries', 0) = {}
    BY <2>1, WriterAssumption DEF QueueTypes, Usable
  <2>3. StateTypes'
    BY <1>1, <2>1 DEF StateTypes, Pcs
  <2> QED
    BY <2>2, <2>3, Types DEF WriterInv, NoLostWakeup
<1>6. CASE PopMessage
  <2>1. PICK q \in StrippedQueues(entries, 0) : q # <<>> /\ entries' = Tail(q)
    BY <1>6 DEF PopMessage
  <2>2. q \in Seq(Entry) /\ Len(q) \in Nat /\ Len(q) <= Len(entries)
    BY <1>1, <2>1, StrippedQueue DEF QueueTypes
  <2>3. QueueTypes'
    BY <1>1, <2>1, <2>2, HeadTailProperties, LenProperties, WriterAssumption DEF QueueTypes
  <2>4. /\ packet' = TRUE /\ pc' \in {"gate", "write"}
        /\ UNCHANGED <<dataAvailable, closed, registered, sending, kind, asleep, throttled,
                       peeked, gate>>
    BY <1>6 DEF PopMessage, Goto, clientVars
  <2>5. StateTypes'
    BY <1>1, <2>4 DEF StateTypes, Pcs
  <2> QED
    BY <2>3, <2>4, <2>5, Types DEF WriterInv, NoLostWakeup
<1>7. CASE Write \/ WriteError \/ OnConnectionClosed
  <2>1. /\ UNCHANGED <<entries, sending, kind, asleep, throttled, peeked>>
        /\ pc' \in {"check", "unregister"}
        /\ dataAvailable' \in BOOLEAN /\ closed' \in BOOLEAN /\ registered' \in BOOLEAN
        /\ packet' \in BOOLEAN /\ gate' \in Gates
    BY <1>1, <1>7 DEF Write, WriteError, CloseQueue, OnConnectionClosed, Goto, queueVars,
       clientVars, StateTypes, Gates
  <2> QED
    BY <1>1, <2>1, Types DEF WriterInv, NoLostWakeup, QueueTypes, StateTypes, Pcs
<1> QED
  BY <1>2, <1>3, <1>4, <1>5, <1>6, <1>7 DEF Writer

LEMMA InitWriterInv == Init => WriterInv
<1> SUFFICES ASSUME Init
             PROVE  WriterInv
  OBVIOUS
<1>1. QueueTypes /\ Usable(entries, 0) = {}
  BY WriterAssumption DEF Init, QueueTypes, Usable
<1>2. StateTypes
  <2>1. kind \in Kinds /\ pc \in Pcs /\ peeked \in Prios \cup {0} /\ gate \in Gates
    BY DEF Init, Pcs, Gates
  <2>2. sending \in Seq(Prios) /\ Len(sending) <= 1
    BY DEF Init
  <2>3. /\ dataAvailable \in BOOLEAN /\ closed \in BOOLEAN /\ registered \in BOOLEAN
        /\ asleep \in BOOLEAN /\ throttled \in BOOLEAN /\ packet \in BOOLEAN
    BY DEF Init, CanSleep
  <2> QED
    BY <2>1, <2>2, <2>3 DEF StateTypes
<1> QED
  BY <1>1, <1>2, Types DEF WriterInv, NoLostWakeup

LEMMA StepWriterInv == WriterInv /\ [Next]_vars => WriterInv'
  BY FinishPutKeeps, TickKeeps, OthersKeep, WriterKeeps DEF Next

(* The variables of a connection keep their types; its queue never holds   *)
(* more than the slack over its limit.                                     *)
THEOREM TypeCorrect == Spec => []TypeOK
<1>1. WriterInv => TypeOK
  BY DEF WriterInv
<1> QED
  BY <1>1, InitWriterInv, StepWriterInv, PTL DEF Spec

(***************************************************************************)
(* The one-place channel DataAvailable loses no wake-up of the writer, for *)
(* any priorities, ages and limits, wherever the sender, the clock and the *)
(* client come between two steps of it: a writer that waits without a token*)
(* has held back what is left because of the client, or nothing is left.   *)
(***************************************************************************)
THEOREM NoLostWakeupKept == Spec => []NoLostWakeup
<1>1. WriterInv => NoLostWakeup
  BY DEF WriterInv
<1> QED
  BY <1>1, InitWriterInv, StepWriterInv, PTL DEF Spec

(***************************************************************************)
(* A connection is closed once, by a writer that is about to take it out   *)
(* of the map or together with its removal from the map, and the token     *)
(* that Close leaves stays until the writer takes it, which then looks     *)
(* whether its queue is closed.                                            *)
(***************************************************************************)
ClosedOnce ==
  /\ closed <=> ~ registered \/ pc = "unregister"
  /\ pc = "unregister" => ClosesOnError
  /\ pc = "done" => closed
  /\ closed /\ pc \notin {"check", "unregister", "done"} => dataAvailable

(***************************************************************************)
(* A writer that waits on a closed connection has a token to wake it, one  *)
(* that has ended leaves no connection in the map behind, and a connection *)
(* that is closed is out of the map or its writer is about to take it out. *)
(***************************************************************************)
ClosedIsNoticed ==
  /\ closed /\ pc = "wait" => dataAvailable
  /\ pc = "done" => closed /\ ~ registered
  /\ closed => ~ registered \/ pc = "unregister"

(* No step of the writer, of a sender or of the client breaks that. *)
LEMMA StepClosedOnce ==
  ASSUME TypeOK, ClosedOnce, [Next]_vars
  PROVE  ClosedOnce'
<1> DEFINE Quiet == UNCHANGED <<closed, registered, pc, kind>> /\ (dataAvailable => dataAvailable')
           (* A step of the writer to another place than its waking and its end. *)
           Moves == /\ UNCHANGED <<closed, registered, kind, dataAvailable>>
                    /\ pc \in {"gate", "judge", "pop", "write"}
                    /\ pc' \in {"gate", "judge", "pop", "write", "wait", "check"}
<1>1. ASSUME Quiet PROVE ClosedOnce'
  BY <1>1 DEF ClosedOnce, ClosesOnError
<1>2. ASSUME Moves PROVE ClosedOnce'
  BY <1>2 DEF ClosedOnce, ClosesOnError
<1>3. CASE UNCHANGED vars \/ (\E prio \in Prios : SendMsg(prio)) \/ Tick
           \/ Unreachable \/ FallAsleep \/ WakeUp \/ Unthrottle
  BY <1>1, <1>3 DEF vars, queueVars, clientVars, writerVars, SendMsg, Tick,
     Unreachable, FallAsleep, WakeUp, Unthrottle
<1>4. CASE FinishPut
  BY <1>1, <1>4 DEF FinishPut, clientVars, writerVars
<1>5. CASE RemoveClient
  <2>1. /\ ~ ClosesOnError /\ registered /\ registered' = FALSE /\ CloseQueue
        /\ UNCHANGED <<pc, kind>>
    BY <1>5 DEF RemoveClient, clientVars, writerVars
  <2>2. ~ closed
    BY <2>1 DEF ClosedOnce
  <2>3. closed' = TRUE /\ dataAvailable'
    BY <2>1, <2>2 DEF CloseQueue
  <2> QED
    BY <2>1, <2>2, <2>3 DEF ClosedOnce, ClosesOnError
<1>6. CASE WaitForData
  BY <1>6 DEF WaitForData, Goto, clientVars, ClosedOnce, ClosesOnError
<1>7. CASE CheckClosed
  BY <1>7 DEF CheckClosed, Goto, queueVars, clientVars, ClosedOnce, ClosesOnError
<1>8. CASE GateOpen \/ GatePeek \/ Judge \/ PopNothing \/ PopMessage \/ Write
  BY <1>2, <1>8 DEF GateOpen, GatePeek, Judge, PopNothing, PopMessage, Write, Goto, Flush,
     queueVars, clientVars
<1>9. CASE WriteError
  <2>1. /\ ClosesOnError /\ pc = "write" /\ pc' = "unregister" /\ closed' = TRUE
        /\ UNCHANGED <<registered, kind>>
    BY <1>9 DEF WriteError, Goto, CloseQueue, clientVars
  <2> QED
    BY <2>1 DEF ClosedOnce, ClosesOnError
<1>10. CASE OnConnectionClosed
  BY <1>10 DEF OnConnectionClosed, Goto, queueVars, clientVars, ClosedOnce, ClosesOnError
<1> QED
  BY <1>3, <1>4, <1>5, <1>6, <1>7, <1>8, <1>9, <1>10 DEF Next, Writer

(***************************************************************************)
(* Whoever closes a connection, its user's address gone or a write having  *)
(* failed, wherever the writer and a sender are: no writer sleeps over a   *)
(* connection that is closed and none ends with it still in the map.       *)
(***************************************************************************)
THEOREM ClosedIsNoticedKept == Spec => []ClosedIsNoticed
<1>1. Init => ClosedOnce
  BY DEF Init, ClosedOnce
<1>2. WriterInv => TypeOK
  BY DEF WriterInv
<1>3. WriterInv /\ ClosedOnce /\ [Next]_vars => ClosedOnce'
  BY <1>2, StepClosedOnce
<1>4. ClosedOnce => ClosedIsNoticed
  BY DEF ClosedOnce, ClosedIsNoticed
<1> QED
  BY <1>1, <1>3, <1>4, InitWriterInv, StepWriterInv, PTL DEF Spec

-----------------------------------------------------------------------------
(* While a connection is in the map nobody closes it but its own writer,   *)
(* and those that were there before it do not run any more.                *)
OneAtATime ==
  mapped # NoConn =>
    /\ \A c \in Conns : closer[c] = "none"
    /\ \A c \in Conns \ {mapped} : writer[c] = "none" \/ Serial!Stuck(c)

(* Close closes the port before anything else. *)
PortFirst ==
  \A c \in Conns :
    closer[c] \in {"queue", "unmap"} \/ writer[c] \in {"queue", "unmap"} =>
      port[c] = "closed"

(* Connections that share a queue see the same queue. *)
OneQueue ==
  SharedQueue => \A c, d \in Conns : queueClosed[c] = queueClosed[d] /\ token[c] = token[d]

SerialInv == Serial!TypeOK /\ OneAtATime /\ PortFirst /\ OneQueue /\ Serial!NoOrphan
(* A flag of a queue that was set, for all connections that share it. *)
QueueSet(g, f, c, v) ==
  /\ g \in [Conns -> BOOLEAN]
  /\ \A d \in Conns : g[d] = IF SharedQueue \/ d = c THEN v ELSE f[d]

LEMMA SetQueueSets ==
  ASSUME NEW f \in [Conns -> BOOLEAN], NEW c \in Conns, NEW v \in BOOLEAN, NEW g,
         g = Serial!SetQueue(f, c, v)
  PROVE  QueueSet(g, f, c, v)
  BY DEF QueueSet, Serial!SetQueue, Serial!QueueOf

LEMMA PlugKeeps ==
  ASSUME SerialInv, Serial!PlugIn \/ Serial!Unplug
  PROVE  SerialInv'
<1>1. UNCHANGED <<mapped, queueClosed, token, writer, closer>> /\ present' \in BOOLEAN
  BY DEF Serial!PlugIn, Serial!Unplug
<1>2. /\ port' \in [Conns -> {"closed", "open", "stale"}]
      /\ \A c \in Conns : port'[c] = "closed" <=> port[c] = "closed"
  BY DEF Serial!PlugIn, Serial!Unplug, SerialInv, Serial!TypeOK
<1>3. Serial!TypeOK'
  BY <1>1, <1>2 DEF SerialInv, Serial!TypeOK
<1>4. OneAtATime' /\ OneQueue'
  BY <1>1 DEF SerialInv, OneAtATime, OneQueue, Serial!Stuck
<1>5. PortFirst' /\ Serial!NoOrphan'
  BY <1>1, <1>2 DEF SerialInv, PortFirst, Serial!NoOrphan, Serial!Closing
<1> QED
  BY <1>3, <1>4, <1>5 DEF SerialInv

(* The watcher opens the device when nothing of an older connection can    *)
(* run any more: this is where the assumption on Close is needed.          *)
LEMMA WatcherOpensKeeps ==
  ASSUME Serial!SerialAssumption, Prompt, SerialInv,
         NEW c \in Conns, Serial!WatcherOpens(c)
  PROVE  SerialInv'
<1>1. /\ mapped = NoConn /\ mapped' = c
      /\ port' = [port EXCEPT ![c] = "open"]
      /\ writer' = [writer EXCEPT ![c] = "wait"]
      /\ UNCHANGED <<present, closer>>
      /\ \A d \in Conns : /\ writer[d] = "none" \/ Serial!Stuck(d)
                          /\ closer[d] = "none" /\ port[d] = "closed"
  BY DEF Serial!WatcherOpens, Serial!Unused
<1>2. /\ queueClosed' \in [Conns -> BOOLEAN] /\ token' \in [Conns -> BOOLEAN]
      /\ \A d \in Conns \ {c} : queueClosed'[d] = queueClosed[d] /\ token'[d] = token[d]
      /\ OneQueue'
  BY DEF Serial!WatcherOpens, SerialInv, Serial!TypeOK, OneQueue
<1>3. Serial!TypeOK'
  BY <1>1, <1>2 DEF SerialInv, Serial!TypeOK, Serial!WriterPcs
<1>4. \A d \in Conns \ {c} : writer'[d] = "none" \/ Serial!Stuck(d)'
  BY <1>1, <1>2 DEF SerialInv, Serial!TypeOK, Serial!Stuck
<1>5. OneAtATime'
  BY <1>1, <1>4 DEF OneAtATime
<1>6. \A d \in Conns : writer'[d] \in {"none", "wait"}
  BY <1>1 DEF SerialInv, Serial!TypeOK, Serial!Stuck
<1>7. PortFirst'
  BY <1>1, <1>6 DEF PortFirst
<1>8. Serial!NoOrphan'
  BY <1>1 DEF Serial!NoOrphan, SerialInv, Serial!TypeOK
<1> QED
  BY <1>2, <1>3, <1>5, <1>7, <1>8 DEF SerialInv

LEMMA ChangeSettingsKeeps ==
  ASSUME Serial!SerialAssumption, SerialInv, Serial!ChangeSettings
  PROVE  SerialInv'
<1>1. /\ closer' = IF mapped = NoConn THEN closer ELSE [closer EXCEPT ![mapped] = "port"]
      /\ mapped' = NoConn
      /\ UNCHANGED <<present, port, queueClosed, token, writer>>
  BY DEF Serial!ChangeSettings
<1>2. Serial!TypeOK'
  BY <1>1 DEF SerialInv, Serial!TypeOK, Serial!CloserPcs, Serial!CloseSteps
<1>3. /\ \A c \in Conns : closer'[c] = IF c = mapped /\ mapped # NoConn THEN "port" ELSE closer[c]
  BY <1>1 DEF SerialInv, Serial!TypeOK
<1>4. OneAtATime' /\ OneQueue'
  BY <1>1 DEF SerialInv, OneAtATime, OneQueue
<1>5. PortFirst'
  BY <1>1, <1>3 DEF SerialInv, PortFirst
<1>6. Serial!NoOrphan'
  <2> SUFFICES ASSUME NEW c \in Conns, port'[c] # "closed"
               PROVE  Serial!Closing(c)'
    BY DEF Serial!NoOrphan
  <2>1. mapped = c \/ Serial!Closing(c)
    BY <1>1 DEF SerialInv, Serial!NoOrphan
  <2>2. mapped = NoConn => closer' = closer
    BY <1>1
  <2>3. closer[c] # "none" => closer'[c] # "none"
    BY <1>3
  <2>4. CASE Serial!Closing(c)
    BY <1>1, <2>3, <2>4 DEF Serial!Closing
  <2>5. CASE mapped = c /\ c # NoConn
    BY <1>3, <2>5 DEF Serial!Closing
  <2> QED
    BY <2>1, <2>4, <2>5 DEF Serial!SerialAssumption
<1> QED
  BY <1>2, <1>4, <1>5, <1>6 DEF SerialInv
(***************************************************************************)
(* A queue is told of a message, or is closed, or loses its token to its   *)
(* writer: a goroutine that is stuck stays stuck, for a queue that it      *)
(* shares with another one is closed for that one too.                     *)
(***************************************************************************)
LEMMA StuckStays ==
  ASSUME SerialInv, NEW c \in Conns, NEW d \in Conns, Serial!Stuck(d), writer'[d] = writer[d],
         \/ UNCHANGED <<queueClosed, token>>
         \/ /\ UNCHANGED queueClosed
            /\ token' = Serial!SetQueue(token, c, TRUE) /\ ~ queueClosed[c] /\ c # d
         \/ UNCHANGED queueClosed /\ token' = Serial!SetQueue(token, c, FALSE)
         \/ /\ queueClosed' = Serial!SetQueue(queueClosed, c, TRUE) /\ c # d
            /\ token' = IF queueClosed[c] THEN token ELSE Serial!SetQueue(token, c, TRUE)
  PROVE  Serial!Stuck(d)'
<1>1. /\ writer[d] = "wait" /\ queueClosed[d] = TRUE /\ token[d] = FALSE
      /\ queueClosed \in [Conns -> BOOLEAN] /\ token \in [Conns -> BOOLEAN]
  BY DEF Serial!Stuck, SerialInv, Serial!TypeOK
<1>2. /\ UNCHANGED token \/ (~ queueClosed[c] /\ c # d /\ QueueSet(token', token, c, TRUE))
                        \/ QueueSet(token', token, c, FALSE)
      /\ UNCHANGED queueClosed \/ QueueSet(queueClosed', queueClosed, c, TRUE)
  BY <1>1, SetQueueSets
<1>3. SharedQueue => queueClosed[c] = TRUE
  BY <1>1 DEF SerialInv, OneQueue
<1>4. queueClosed'[d] = TRUE /\ token'[d] = FALSE
  BY <1>1, <1>2, <1>3 DEF QueueSet
<1> QED
  BY <1>1, <1>4 DEF Serial!Stuck

LEMMA SendMsgKeeps ==
  ASSUME Serial!SerialAssumption, SerialInv, Serial!SendMsg
  PROVE  SerialInv'
<1>1. /\ mapped \in Conns /\ ~ queueClosed[mapped]
      /\ token' = Serial!SetQueue(token, mapped, TRUE)
      /\ UNCHANGED <<present, mapped, port, queueClosed, writer, closer>>
  BY DEF Serial!SendMsg, SerialInv, Serial!TypeOK
<1>2. token' \in [Conns -> BOOLEAN] /\ (SharedQueue => \A a, b \in Conns : token'[a] = token'[b])
  <2>1. QueueSet(token', token, mapped, TRUE)
    BY <1>1, SetQueueSets DEF SerialInv, Serial!TypeOK
  <2> QED
    BY <2>1 DEF QueueSet
<1>3. Serial!TypeOK' /\ OneQueue'
  BY <1>1, <1>2 DEF SerialInv, Serial!TypeOK, OneQueue
<1>4. OneAtATime'
  <2> SUFFICES ASSUME NEW d \in Conns \ {mapped}
               PROVE  writer[d] = "none" \/ Serial!Stuck(d)'
    BY <1>1 DEF SerialInv, OneAtATime
  <2>1. writer[d] = "none" \/ Serial!Stuck(d)
    BY <1>1 DEF SerialInv, OneAtATime, Serial!SerialAssumption
  <2> QED
    BY <1>1, <2>1, StuckStays
<1>5. PortFirst' /\ Serial!NoOrphan'
  BY <1>1 DEF SerialInv, PortFirst, Serial!NoOrphan, Serial!Closing
<1> QED
  BY <1>3, <1>4, <1>5 DEF SerialInv

(* A writer that moves is not stuck: in the map, or nothing is. *)
LEMMA MovingWriter ==
  ASSUME Serial!SerialAssumption, SerialInv, NEW c \in Conns,
         writer[c] # "none", ~ Serial!Stuck(c)
  PROVE  mapped \in {c, NoConn}
  BY DEF SerialInv, OneAtATime

LEMMA WriterMoves ==
  ASSUME SerialInv, NEW c \in Conns, NEW from, NEW to \in Serial!WriterPcs,
         Serial!WriterGoto(c, from, to)
  PROVE  /\ writer[c] = from /\ writer' \in [Conns -> Serial!WriterPcs]
         /\ writer'[c] = to
         /\ \A d \in Conns \ {c} : writer'[d] = writer[d]
  BY DEF SerialInv, Serial!TypeOK, Serial!WriterGoto

LEMMA WriterLoopKeeps ==
  ASSUME Serial!SerialAssumption, SerialInv, NEW c \in Conns,
         \/ Serial!WriterWakes(c) \/ Serial!WriterChecks(c)
         \/ Serial!WriterWrites(c) \/ Serial!WriterFails(c)
  PROVE  SerialInv'
<1>1. /\ {"none", "wait", "check", "write", "port"} \subseteq Serial!WriterPcs
      /\ queueClosed \in [Conns -> BOOLEAN] /\ token \in [Conns -> BOOLEAN]
  BY DEF Serial!WriterPcs, Serial!CloseSteps, SerialInv, Serial!TypeOK
<1>2. PICK from \in {"wait", "check", "write"},
           to \in {"none", "wait", "check", "write", "port"} :
        /\ Serial!WriterGoto(c, from, to)
        /\ from = "wait" => token[c]
  BY DEF Serial!WriterWakes, Serial!WriterChecks, Serial!WriterWrites, Serial!WriterFails
<1>3. /\ writer[c] = from /\ writer' \in [Conns -> Serial!WriterPcs] /\ writer'[c] = to
      /\ \A d \in Conns \ {c} : writer'[d] = writer[d]
  BY <1>1, <1>2, WriterMoves
<1>4. /\ UNCHANGED <<present, mapped, port, queueClosed, closer>>
      /\ UNCHANGED token \/ token' = Serial!SetQueue(token, c, FALSE)
  BY DEF Serial!WriterWakes, Serial!WriterChecks, Serial!WriterWrites, Serial!WriterFails
<1>5. /\ token' \in [Conns -> BOOLEAN]
      /\ SharedQueue => \A a, b \in Conns : token'[a] = token'[b]
  <2>1. UNCHANGED token \/ QueueSet(token', token, c, FALSE)
    BY <1>1, <1>4, SetQueueSets
  <2> QED
    BY <1>1, <2>1 DEF QueueSet, SerialInv, OneQueue
<1>6. Serial!TypeOK' /\ OneQueue'
  BY <1>3, <1>4, <1>5 DEF SerialInv, Serial!TypeOK, OneQueue
<1>7. mapped \in {c, NoConn}
  BY <1>2, <1>3, MovingWriter DEF Serial!Stuck
<1>8. OneAtATime'
  <2> SUFFICES ASSUME mapped # NoConn, NEW d \in Conns \ {c}
               PROVE  writer'[d] = "none" \/ Serial!Stuck(d)'
    BY <1>4, <1>7 DEF SerialInv, OneAtATime
  <2>1. writer[d] = "none" \/ Serial!Stuck(d)
    BY <1>7 DEF SerialInv, OneAtATime
  <2> QED
    BY <1>3, <1>4, <2>1, StuckStays
<1>9. PortFirst' /\ Serial!NoOrphan'
  BY <1>2, <1>3, <1>4 DEF SerialInv, PortFirst, Serial!NoOrphan, Serial!Closing,
     Serial!CloseSteps
<1> QED
  BY <1>6, <1>8, <1>9 DEF SerialInv

-----------------------------------------------------------------------------
(* Close, run by the writer or by a goroutine of its own: one of the two   *)
(* moves on, and nothing else is in the map meanwhile.                     *)
LEMMA CloserMoves ==
  ASSUME Serial!SerialAssumption, SerialInv, NEW c \in Conns, NEW w \in BOOLEAN,
         NEW from \in {"port", "queue", "unmap"}, NEW to \in {"queue", "unmap", "check", "none"},
         to = "check" => w, Serial!CloserGoto(c, w, from, to)
  PROVE  /\ writer' \in [Conns -> Serial!WriterPcs] /\ closer' \in [Conns -> Serial!CloserPcs]
         /\ \A d \in Conns \ {c} : writer'[d] = writer[d] /\ closer'[d] = closer[d]
         /\ IF w THEN writer[c] = from /\ writer'[c] = to /\ closer'[c] = closer[c]
                 ELSE closer[c] = from /\ closer'[c] = to /\ writer'[c] = writer[c]
         /\ mapped \in {c, NoConn}
         /\ ~ w => mapped = NoConn
<1>1. /\ writer \in [Conns -> Serial!WriterPcs] /\ closer \in [Conns -> Serial!CloserPcs]
      /\ {"queue", "unmap", "check", "none"} \subseteq Serial!WriterPcs
      /\ {"queue", "unmap", "none"} \subseteq Serial!CloserPcs
  BY DEF SerialInv, Serial!TypeOK, Serial!WriterPcs, Serial!CloserPcs, Serial!CloseSteps
<1>2. CASE w
  <2>1. Serial!WriterGoto(c, from, to) /\ UNCHANGED closer
    BY <1>2 DEF Serial!CloserGoto
  <2>2. /\ writer[c] = from /\ writer' \in [Conns -> Serial!WriterPcs] /\ writer'[c] = to
        /\ \A d \in Conns \ {c} : writer'[d] = writer[d]
    BY <1>1, <2>1, WriterMoves
  <2>3. mapped \in {c, NoConn}
    BY <2>2, MovingWriter DEF Serial!Stuck
  <2> QED
    BY <1>1, <1>2, <2>1, <2>2, <2>3
<1>3. CASE ~ w
  <2>1. closer[c] = from /\ closer' = [closer EXCEPT ![c] = to] /\ UNCHANGED writer
    BY <1>3 DEF Serial!CloserGoto
  <2>2. mapped = NoConn
    BY <2>1 DEF SerialInv, OneAtATime
  <2> QED
    BY <1>1, <1>3, <2>1, <2>2
<1> QED
  BY <1>2, <1>3

LEMMA ClosePortKeeps ==
  ASSUME Serial!SerialAssumption, SerialInv, NEW c \in Conns, NEW w \in BOOLEAN,
         Serial!ClosePort(c, w)
  PROVE  SerialInv'
<1>1. /\ Serial!CloserGoto(c, w, "port", "queue")
      /\ port' = [port EXCEPT ![c] = "closed"]
      /\ UNCHANGED <<present, mapped, queueClosed, token>>
  BY DEF Serial!ClosePort
<1>2. /\ writer' \in [Conns -> Serial!WriterPcs] /\ closer' \in [Conns -> Serial!CloserPcs]
      /\ \A d \in Conns \ {c} : writer'[d] = writer[d] /\ closer'[d] = closer[d]
      /\ IF w THEN writer[c] = "port" /\ writer'[c] = "queue" /\ closer'[c] = closer[c]
              ELSE closer[c] = "port" /\ closer'[c] = "queue" /\ writer'[c] = writer[c]
      /\ mapped \in {c, NoConn} /\ (~ w => mapped = NoConn)
  BY <1>1, CloserMoves
<1>3. /\ port' \in [Conns -> {"closed", "open", "stale"}] /\ port'[c] = "closed"
      /\ \A d \in Conns \ {c} : port'[d] = port[d]
  BY <1>1 DEF SerialInv, Serial!TypeOK
<1>4. Serial!TypeOK' /\ OneQueue'
  BY <1>1, <1>2, <1>3 DEF SerialInv, Serial!TypeOK, OneQueue
<1>5. OneAtATime'
  BY <1>1, <1>2 DEF SerialInv, OneAtATime, Serial!Stuck
<1>6. PortFirst' /\ Serial!NoOrphan'
  BY <1>1, <1>2, <1>3 DEF SerialInv, PortFirst, Serial!NoOrphan, Serial!Closing
<1> QED
  BY <1>4, <1>5, <1>6 DEF SerialInv

LEMMA CloseQueueKeeps ==
  ASSUME Serial!SerialAssumption, SerialInv, NEW c \in Conns, NEW w \in BOOLEAN,
         Serial!CloseQueue(c, w)
  PROVE  SerialInv'
<1>1. /\ Serial!CloserGoto(c, w, "queue", "unmap")
      /\ queueClosed' = Serial!SetQueue(queueClosed, c, TRUE)
      /\ token' = IF queueClosed[c] THEN token ELSE Serial!SetQueue(token, c, TRUE)
      /\ UNCHANGED <<present, mapped, port>>
  BY DEF Serial!CloseQueue
<1>2. /\ writer' \in [Conns -> Serial!WriterPcs] /\ closer' \in [Conns -> Serial!CloserPcs]
      /\ \A d \in Conns \ {c} : writer'[d] = writer[d] /\ closer'[d] = closer[d]
      /\ IF w THEN writer[c] = "queue" /\ writer'[c] = "unmap" /\ closer'[c] = closer[c]
              ELSE closer[c] = "queue" /\ closer'[c] = "unmap" /\ writer'[c] = writer[c]
      /\ mapped \in {c, NoConn} /\ (~ w => mapped = NoConn)
  BY <1>1, CloserMoves
<1>3. /\ queueClosed \in [Conns -> BOOLEAN] /\ token \in [Conns -> BOOLEAN]
      /\ SharedQueue => \A a, b \in Conns : queueClosed[a] = queueClosed[b] /\ token[a] = token[b]
  BY DEF SerialInv, Serial!TypeOK, OneQueue
<1>4. /\ queueClosed' \in [Conns -> BOOLEAN] /\ token' \in [Conns -> BOOLEAN]
      /\ OneQueue'
  <2>1. QueueSet(queueClosed', queueClosed, c, TRUE)
    BY <1>1, <1>3, SetQueueSets
  <2>2. UNCHANGED token \/ QueueSet(token', token, c, TRUE)
    BY <1>1, <1>3, SetQueueSets
  <2> QED
    BY <1>3, <2>1, <2>2 DEF OneQueue, QueueSet
<1>5. Serial!TypeOK'
  BY <1>1, <1>2, <1>4 DEF SerialInv, Serial!TypeOK
<1>6. OneAtATime'
  <2> SUFFICES ASSUME mapped # NoConn, NEW d \in Conns \ {c}
               PROVE  writer'[d] = "none" \/ Serial!Stuck(d)'
    BY <1>1, <1>2 DEF SerialInv, OneAtATime
  <2>1. writer[d] = "none" \/ Serial!Stuck(d)
    BY <1>2 DEF SerialInv, OneAtATime
  <2> QED
    BY <1>1, <1>2, <2>1, StuckStays
<1>7. PortFirst' /\ Serial!NoOrphan'
  BY <1>1, <1>2 DEF SerialInv, PortFirst, Serial!NoOrphan, Serial!Closing, Serial!CloseSteps
<1> QED
  BY <1>4, <1>5, <1>6, <1>7 DEF SerialInv

(* The key that is deleted belongs to the connection that is being closed, *)
(* whose port is closed by then, or is gone already.                       *)
LEMMA OnConnectionClosedKeeps ==
  ASSUME Serial!SerialAssumption, SerialInv, NEW c \in Conns, NEW w \in BOOLEAN,
         Serial!OnConnectionClosed(c, w)
  PROVE  SerialInv'
<1>1. /\ Serial!CloserGoto(c, w, "unmap", IF w THEN "check" ELSE "none")
      /\ mapped' = NoConn
      /\ UNCHANGED <<present, port, queueClosed, token>>
  BY DEF Serial!OnConnectionClosed
<1>2. PICK to \in {"check", "none"} :
        to = (IF w THEN "check" ELSE "none") /\ Serial!CloserGoto(c, w, "unmap", to)
  BY <1>1
<1>3. /\ writer' \in [Conns -> Serial!WriterPcs] /\ closer' \in [Conns -> Serial!CloserPcs]
      /\ \A d \in Conns \ {c} : writer'[d] = writer[d] /\ closer'[d] = closer[d]
      /\ IF w THEN writer[c] = "unmap" /\ writer'[c] = to /\ closer'[c] = closer[c]
              ELSE closer[c] = "unmap" /\ closer'[c] = to /\ writer'[c] = writer[c]
      /\ mapped \in {c, NoConn}
  BY <1>2, CloserMoves
<1>4. Serial!TypeOK' /\ OneQueue' /\ OneAtATime'
  BY <1>1, <1>3 DEF SerialInv, Serial!TypeOK, OneQueue, OneAtATime
<1>5. port[c] = "closed"
  BY <1>3 DEF SerialInv, PortFirst
<1>6. PortFirst'
  BY <1>1, <1>2, <1>3 DEF SerialInv, PortFirst
<1>7. Serial!NoOrphan'
  BY <1>1, <1>3, <1>5 DEF SerialInv, Serial!NoOrphan, Serial!Closing, Serial!SerialAssumption
<1> QED
  BY <1>4, <1>6, <1>7 DEF SerialInv

-----------------------------------------------------------------------------
LEMMA InitSerialInv == Serial!Init => SerialInv
<1> SUFFICES ASSUME Serial!Init
             PROVE  SerialInv
  OBVIOUS
<1>1. Serial!TypeOK
  BY DEF Serial!Init, Serial!TypeOK, Serial!WriterPcs, Serial!CloserPcs
<1> QED
  BY <1>1 DEF Serial!Init, SerialInv, OneAtATime, PortFirst, OneQueue, Serial!NoOrphan

LEMMA StepSerialInv ==
  ASSUME Serial!SerialAssumption, Prompt
  PROVE  SerialInv /\ [Serial!Next]_(Serial!vars) => SerialInv'
<1> SUFFICES ASSUME SerialInv, [Serial!Next]_(Serial!vars)
             PROVE  SerialInv'
  OBVIOUS
<1>1. CASE UNCHANGED Serial!vars
  BY <1>1 DEF Serial!vars, SerialInv, Serial!TypeOK, OneAtATime, PortFirst, OneQueue,
     Serial!NoOrphan, Serial!Stuck, Serial!Closing
<1>2. CASE Serial!PlugIn \/ Serial!Unplug \/ Serial!SendMsg \/ Serial!ChangeSettings
  BY <1>2, PlugKeeps, SendMsgKeeps, ChangeSettingsKeeps
<1>3. ASSUME NEW c \in Conns, Serial!WatcherOpens(c)
      PROVE  SerialInv'
  BY <1>3, WatcherOpensKeeps
<1>4. ASSUME NEW c \in Conns, NEW w \in BOOLEAN, Serial!Close(c, w)
      PROVE  SerialInv'
  BY <1>4, ClosePortKeeps, CloseQueueKeeps, OnConnectionClosedKeeps DEF Serial!Close
<1>5. ASSUME NEW c \in Conns, Serial!Writer(c) \/ Serial!Closer(c)
      PROVE  SerialInv'
  BY <1>4, <1>5, WriterLoopKeeps DEF Serial!Writer, Serial!Closer
<1> QED
  BY <1>1, <1>2, <1>3, <1>5 DEF Serial!Next

(***************************************************************************)
(* No port of a serial device is left open and forgotten, for any number   *)
(* of openings, however unplugging, failing writes, changed settings and   *)
(* two overlapping Close calls interleave, as long as a Close has ended    *)
(* when the watcher opens the device again.  This is where deletion by the *)
(* name of the device could take away a connection's successor.            *)
(***************************************************************************)
NoOrphan == Serial!NoOrphan

THEOREM NoOrphanKept ==
  ASSUME Serial!SerialAssumption, Prompt
  PROVE  Serial!Spec => []NoOrphan
<1>1. SerialInv => NoOrphan
  BY DEF SerialInv, NoOrphan
<1> QED
  BY <1>1, InitSerialInv, StepSerialInv, PTL DEF Serial!Spec

-----------------------------------------------------------------------------
(***************************************************************************)
(* With a queue for each opening, a queue is closed after its port, and a  *)
(* goroutine that waits on it has been told.                               *)
(***************************************************************************)
OwnQueueTold ==
  ~ SharedQueue => \A c \in Conns :
    queueClosed[c] => port[c] = "closed" /\ (writer[c] = "wait" => token[c])

(* No goroutine of a serial device waits for ever on a closed queue. *)
NobodyStuck == ~ SharedQueue => \A c \in Conns : ~ Serial!Stuck(c)

(* What holds however long a Close takes. *)
SlowInv == Serial!TypeOK /\ PortFirst /\ OwnQueueTold

(* The user, the settings and the senders. *)
LEMMA SlowOutside ==
  ASSUME Serial!SerialAssumption, SlowInv,
         Serial!PlugIn \/ Serial!Unplug \/ Serial!SendMsg \/ Serial!ChangeSettings
  PROVE  SlowInv'
<1>1. /\ mapped' \in Conns \cup {NoConn} /\ present' \in BOOLEAN
      /\ UNCHANGED <<queueClosed, writer>>
      /\ writer \in [Conns -> Serial!WriterPcs] /\ queueClosed \in [Conns -> BOOLEAN]
  BY DEF Serial!PlugIn, Serial!Unplug, Serial!SendMsg, Serial!ChangeSettings, SlowInv,
     Serial!TypeOK
<1>2. /\ port' \in [Conns -> {"closed", "open", "stale"}]
      /\ \A c \in Conns : port'[c] = "closed" <=> port[c] = "closed"
  BY DEF Serial!PlugIn, Serial!Unplug, Serial!SendMsg, Serial!ChangeSettings, SlowInv,
     Serial!TypeOK
<1>3. token' \in [Conns -> BOOLEAN] /\ \A c \in Conns : token[c] => token'[c]
  BY DEF Serial!PlugIn, Serial!Unplug, Serial!SendMsg, Serial!ChangeSettings, SlowInv,
     Serial!TypeOK, Serial!SetQueue
<1>4. /\ closer' \in [Conns -> Serial!CloserPcs]
      /\ \A c \in Conns : closer'[c] = closer[c] \/ closer'[c] = "port"
  BY DEF Serial!PlugIn, Serial!Unplug, Serial!SendMsg, Serial!ChangeSettings, SlowInv,
     Serial!TypeOK, Serial!CloserPcs, Serial!CloseSteps
<1>5. Serial!TypeOK'
  BY <1>1, <1>2, <1>3, <1>4 DEF Serial!TypeOK
<1>6. PortFirst'
  BY <1>1, <1>2, <1>4 DEF SlowInv, PortFirst
<1>7. OwnQueueTold'
  BY <1>1, <1>2, <1>3 DEF SlowInv, OwnQueueTold
<1> QED
  BY <1>5, <1>6, <1>7 DEF SlowInv

(* A new opening has a queue that is open. *)
LEMMA SlowOpens ==
  ASSUME Serial!SerialAssumption, SlowInv, NEW c \in Conns, Serial!WatcherOpens(c)
  PROVE  SlowInv'
<1>1. /\ mapped' = c /\ port' = [port EXCEPT ![c] = "open"]
      /\ writer' = [writer EXCEPT ![c] = "wait"]
      /\ UNCHANGED <<present, closer>> /\ closer[c] = "none"
      /\ IF SharedQueue
         THEN UNCHANGED <<queueClosed, token>>
         ELSE /\ queueClosed' = [queueClosed EXCEPT ![c] = FALSE]
              /\ token' = [token EXCEPT ![c] = FALSE]
  BY DEF Serial!WatcherOpens, Serial!Unused
<1>2. Serial!TypeOK'
  BY <1>1 DEF SlowInv, Serial!TypeOK, Serial!WriterPcs
<1>3. PortFirst'
  BY <1>1 DEF SlowInv, Serial!TypeOK, PortFirst
<1>4. OwnQueueTold'
  BY <1>1 DEF SlowInv, Serial!TypeOK, OwnQueueTold
<1> QED
  BY <1>2, <1>3, <1>4 DEF SlowInv

(* A writer goes back to waiting only after a write that succeeded, so     *)
(* with an open port, whose queue nobody has closed.                       *)
LEMMA SlowLoop ==
  ASSUME Serial!SerialAssumption, SlowInv, NEW c \in Conns,
         \/ Serial!WriterWakes(c) \/ Serial!WriterChecks(c)
         \/ Serial!WriterWrites(c) \/ Serial!WriterFails(c)
  PROVE  SlowInv'
<1>1. /\ {"none", "wait", "check", "write", "port"} \subseteq Serial!WriterPcs
      /\ queueClosed \in [Conns -> BOOLEAN] /\ token \in [Conns -> BOOLEAN]
      /\ writer \in [Conns -> Serial!WriterPcs]
  BY DEF Serial!WriterPcs, Serial!CloseSteps, SlowInv, Serial!TypeOK
<1>2. PICK to \in {"none", "wait", "check", "write", "port"} :
        /\ writer' = [writer EXCEPT ![c] = to]
        /\ writer[c] \in {"wait", "check", "write"}
        /\ to = "wait" => port[c] = "open"
  BY DEF Serial!WriterWakes, Serial!WriterChecks, Serial!WriterWrites, Serial!WriterFails,
     Serial!WriterGoto
<1>3. /\ UNCHANGED <<present, mapped, port, queueClosed, closer>>
      /\ UNCHANGED token \/ (token' = Serial!SetQueue(token, c, FALSE) /\ writer'[c] = "check")
  BY <1>1 DEF Serial!WriterWakes, Serial!WriterChecks, Serial!WriterWrites,
     Serial!WriterFails, Serial!WriterGoto
<1>4. /\ token' \in [Conns -> BOOLEAN]
      /\ ~ SharedQueue => \A d \in Conns : token'[d] = token[d] \/ (d = c /\ writer'[c] = "check")
  <2>1. UNCHANGED token \/ (QueueSet(token', token, c, FALSE) /\ writer'[c] = "check")
    BY <1>1, <1>3, SetQueueSets
  <2> QED
    BY <1>1, <2>1 DEF QueueSet
<1>5. Serial!TypeOK'
  BY <1>1, <1>2, <1>3, <1>4 DEF SlowInv, Serial!TypeOK
<1>6. PortFirst'
  BY <1>1, <1>2, <1>3 DEF SlowInv, PortFirst
<1>7. OwnQueueTold'
  BY <1>1, <1>2, <1>3, <1>4 DEF SlowInv, OwnQueueTold
<1> QED
  BY <1>5, <1>6, <1>7 DEF SlowInv

(* Close leaves a token behind when it closes the queue. *)
LEMMA SlowClose ==
  ASSUME Serial!SerialAssumption, SlowInv, NEW c \in Conns, NEW w \in BOOLEAN,
         Serial!Close(c, w)
  PROVE  SlowInv'
<1>1. /\ queueClosed \in [Conns -> BOOLEAN] /\ token \in [Conns -> BOOLEAN]
      /\ writer \in [Conns -> Serial!WriterPcs] /\ closer \in [Conns -> Serial!CloserPcs]
      /\ port \in [Conns -> {"closed", "open", "stale"}]
      /\ {"queue", "unmap", "check", "none"} \subseteq Serial!WriterPcs
      /\ {"queue", "unmap", "none"} \subseteq Serial!CloserPcs
  BY DEF SlowInv, Serial!TypeOK, Serial!WriterPcs, Serial!CloserPcs, Serial!CloseSteps
<1>2. PICK from \in {"port", "queue", "unmap"}, to \in {"queue", "unmap", "check", "none"} :
        /\ Serial!CloserGoto(c, w, from, to)
        /\ from = "port" <=> to = "queue"
        /\ from = "queue" <=> to = "unmap"
        /\ from = "unmap" <=> to \in {"check", "none"}
        /\ to = "check" => w
        /\ port' = IF from = "port" THEN [port EXCEPT ![c] = "closed"] ELSE port
        /\ IF from = "queue"
           THEN /\ queueClosed' = Serial!SetQueue(queueClosed, c, TRUE)
                /\ token' = IF queueClosed[c] THEN token ELSE Serial!SetQueue(token, c, TRUE)
           ELSE UNCHANGED <<queueClosed, token>>
        /\ mapped' \in {mapped, NoConn} /\ UNCHANGED present
  BY DEF Serial!Close, Serial!ClosePort, Serial!CloseQueue, Serial!OnConnectionClosed
<1>3. /\ writer' \in [Conns -> Serial!WriterPcs] /\ closer' \in [Conns -> Serial!CloserPcs]
      /\ \A d \in Conns \ {c} : writer'[d] = writer[d] /\ closer'[d] = closer[d]
      /\ IF w THEN writer[c] = from /\ writer'[c] = to /\ closer'[c] = closer[c]
              ELSE closer[c] = from /\ closer'[c] = to /\ writer'[c] = writer[c]
  BY <1>1, <1>2 DEF Serial!CloserGoto, Serial!WriterGoto
<1>4. /\ port' \in [Conns -> {"closed", "open", "stale"}]
      /\ \A d \in Conns : port[d] = "closed" => port'[d] = "closed"
      /\ port'[c] = "closed"
  BY <1>1, <1>2, <1>3 DEF SlowInv, PortFirst
<1>5. PortFirst'
  BY <1>3, <1>4 DEF SlowInv, PortFirst
<1>6. /\ queueClosed' \in [Conns -> BOOLEAN] /\ token' \in [Conns -> BOOLEAN]
      /\ ~ SharedQueue => \A d \in Conns :
           /\ d # c => queueClosed'[d] = queueClosed[d] /\ token'[d] = token[d]
           /\ token[d] => token'[d]
           /\ queueClosed'[d] => queueClosed[d] \/ token'[d]
  <2>1. CASE from # "queue"
    BY <1>1, <1>2, <2>1
  <2>2. CASE from = "queue"
    <3>1. QueueSet(queueClosed', queueClosed, c, TRUE)
      BY <1>1, <1>2, <2>2, SetQueueSets
    <3>2. IF queueClosed[c] THEN token' = token ELSE QueueSet(token', token, c, TRUE)
      BY <1>1, <1>2, <2>2, SetQueueSets
    <3> QED
      BY <1>1, <3>1, <3>2 DEF QueueSet
  <2> QED
    BY <2>1, <2>2
<1>7. OwnQueueTold'
  <2> SUFFICES ASSUME ~ SharedQueue, NEW d \in Conns, queueClosed'[d]
               PROVE  port'[d] = "closed" /\ (writer'[d] = "wait" => token'[d])
    BY DEF OwnQueueTold
  <2>1. writer'[d] = "wait" => writer[d] = "wait"
    BY <1>3
  <2>2. CASE queueClosed[d]
    BY <1>4, <1>6, <2>1, <2>2 DEF SlowInv, OwnQueueTold
  <2>3. CASE ~ queueClosed[d]
    BY <1>4, <1>6, <2>3
  <2> QED
    BY <2>2, <2>3
<1>8. Serial!TypeOK'
  BY <1>2, <1>3, <1>4, <1>6 DEF SlowInv, Serial!TypeOK
<1> QED
  BY <1>5, <1>7, <1>8 DEF SlowInv

LEMMA InitSlowInv == Serial!Init => SlowInv
<1> SUFFICES ASSUME Serial!Init
             PROVE  SlowInv
  OBVIOUS
<1>1. Serial!TypeOK
  BY DEF Serial!Init, Serial!TypeOK, Serial!WriterPcs, Serial!CloserPcs
<1> QED
  BY <1>1 DEF Serial!Init, SlowInv, PortFirst, OwnQueueTold

LEMMA StepSlowInv ==
  ASSUME Serial!SerialAssumption
  PROVE  SlowInv /\ [Serial!Next]_(Serial!vars) => SlowInv'
<1> SUFFICES ASSUME SlowInv, [Serial!Next]_(Serial!vars)
             PROVE  SlowInv'
  OBVIOUS
<1>1. CASE UNCHANGED Serial!vars
  BY <1>1 DEF Serial!vars, SlowInv, Serial!TypeOK, PortFirst, OwnQueueTold
<1>2. CASE Serial!PlugIn \/ Serial!Unplug \/ Serial!SendMsg \/ Serial!ChangeSettings
  BY <1>2, SlowOutside
<1>3. ASSUME NEW c \in Conns, Serial!WatcherOpens(c) \/ Serial!Writer(c) \/ Serial!Closer(c)
      PROVE  SlowInv'
  BY <1>3, SlowOpens, SlowLoop, SlowClose DEF Serial!Writer, Serial!Closer
<1> QED
  BY <1>1, <1>2, <1>3 DEF Serial!Next

(* The variables of a serial output keep their types, with a queue of its  *)
(* own for every opening or one for all of them, however long a Close      *)
(* takes.                                                                  *)
THEOREM SerialTypeCorrect ==
  ASSUME Serial!SerialAssumption
  PROVE  Serial!Spec => []Serial!TypeOK
<1>1. SlowInv => Serial!TypeOK
  BY DEF SlowInv
<1> QED
  BY <1>1, InitSlowInv, StepSlowInv, PTL DEF Serial!Spec

(***************************************************************************)
(* With a queue of its own for each opening no goroutine of a serial       *)
(* device ever waits on a queue that is closed without a token to wake it, *)
(* however Close calls overlap with one another and with the next opening. *)
(* With the queue that the openings of a device share this is not so: it   *)
(* is where the output stays silent after the device comes back.           *)
(***************************************************************************)
THEOREM NobodyStuckKept ==
  ASSUME Serial!SerialAssumption
  PROVE  Serial!Spec => []NobodyStuck
<1>1. SlowInv => NobodyStuck
  BY DEF SlowInv, OwnQueueTold, NobodyStuck, Serial!Stuck
<1> QED
  BY <1>1, InitSlowInv, StepSlowInv, PTL DEF Serial!Spec

-----------------------------------------------------------------------------
(* One queue for all openings is closed for all or for none. *)
AllClosed == \A c \in Conns : queueClosed[c]
AllOrNone == AllClosed \/ \A c \in Conns : ~ queueClosed[c]

(* Nothing opens the shared queue again. *)
LEMMA SharedStep ==
  ASSUME Serial!SerialAssumption, SharedQueue, Serial!TypeOK, AllOrNone,
         [Serial!Next]_(Serial!vars)
  PROVE  AllOrNone' /\ (AllClosed => AllClosed')
<1>1. SUFFICES UNCHANGED queueClosed \/ AllClosed'
  BY DEF AllOrNone, AllClosed
<1>2. CASE \/ UNCHANGED Serial!vars
           \/ Serial!PlugIn \/ Serial!Unplug \/ Serial!SendMsg \/ Serial!ChangeSettings
  BY <1>2 DEF Serial!vars, Serial!PlugIn, Serial!Unplug, Serial!SendMsg, Serial!ChangeSettings
<1>3. ASSUME NEW c \in Conns, NEW w \in BOOLEAN, Serial!Close(c, w)
      PROVE  UNCHANGED queueClosed \/ AllClosed'
  <2>1. CASE Serial!CloseQueue(c, w)
    <3>1. queueClosed' = Serial!SetQueue(queueClosed, c, TRUE)
      BY <2>1 DEF Serial!CloseQueue
    <3>2. QueueSet(queueClosed', queueClosed, c, TRUE)
      BY <3>1, SetQueueSets DEF Serial!TypeOK
    <3> QED
      BY <3>2 DEF QueueSet, AllClosed
  <2>2. CASE Serial!ClosePort(c, w) \/ Serial!OnConnectionClosed(c, w)
    BY <2>2 DEF Serial!ClosePort, Serial!OnConnectionClosed
  <2> QED
    BY <1>3, <2>1, <2>2 DEF Serial!Close
<1>4. ASSUME NEW c \in Conns, Serial!WatcherOpens(c) \/ Serial!Writer(c) \/ Serial!Closer(c)
      PROVE  UNCHANGED queueClosed \/ AllClosed'
  <2>1. CASE Serial!WatcherOpens(c)
    BY <2>1 DEF Serial!WatcherOpens
  <2>2. CASE \/ Serial!WriterWakes(c) \/ Serial!WriterChecks(c)
             \/ Serial!WriterWrites(c) \/ Serial!WriterFails(c)
    BY <2>2 DEF Serial!WriterWakes, Serial!WriterChecks, Serial!WriterWrites,
       Serial!WriterFails
  <2> QED
    BY <1>3, <1>4, <2>1, <2>2 DEF Serial!Writer, Serial!Closer
<1> QED
  BY <1>2, <1>4 DEF Serial!Next

(***************************************************************************)
(* Where the openings of a device share the queue that the watcher stored  *)
(* with the settings, the first Close is the end of the output: whatever   *)
(* is plugged in and opened later, nobody serves the device again.         *)
(***************************************************************************)
THEOREM SharedQueueEndsOutput ==
  ASSUME Serial!SerialAssumption, SharedQueue
  PROVE  Serial!Spec => []((\E c \in Conns : queueClosed[c]) => []~ Serial!Served)
<1>1. Serial!Init => AllOrNone
  BY DEF Serial!Init, AllOrNone
<1>2. SlowInv => Serial!TypeOK
  BY DEF SlowInv
<1>3. SlowInv /\ AllOrNone /\ [Serial!Next]_(Serial!vars) => AllOrNone'
  BY <1>2, SharedStep
<1>4. SlowInv /\ AllOrNone /\ AllClosed /\ [Serial!Next]_(Serial!vars) => AllClosed'
  BY <1>2, SharedStep
<1>5. AllOrNone /\ (\E c \in Conns : queueClosed[c]) => AllClosed
  BY DEF AllOrNone
<1>6. SlowInv /\ AllClosed => ~ Serial!Served
  BY DEF SlowInv, Serial!TypeOK, AllClosed, Serial!Served
<1> QED
  BY <1>1, <1>3, <1>4, <1>5, <1>6, InitSlowInv, StepSlowInv, PTL DEF Serial!Spec
=============================================================================
