------------------------- MODULE MessageQueueProofs -------------------------
(***************************************************************************)
(* The order and the limit of a MessageQueue, and that it implements       *)
(* PriorityBuffer, for every size, every set of priorities and every       *)
(* bound.  The inductive invariant adds to QueueOrder that the arrival     *)
(* numbers in use are below the counter, without which the next message    *)
(* could not be placed behind its equals.                                  *)
(***************************************************************************)
EXTENDS MessageQueue, FiniteSetTheorems, SequenceTheorems, TLAPS

Ordered(q) ==
  \A i, j \in 1 .. Len(q) : i < j =>
     \/ q[i].prio < q[j].prio
     \/ q[i].prio = q[j].prio /\ q[i].arrival < q[j].arrival

Numbered(q, n) == \A i \in 1 .. Len(q) : q[i].arrival < n

(* A slice that is typed, in order and numbered below n. *)
Sound(q, n) == q \in Seq(Entry) /\ Ordered(q) /\ Numbered(q, n)

QueueInv ==
  /\ TypeOK
  /\ Sound(entries, arrivals)
  /\ putting # <<>> => arrivals < MaxPuts

-----------------------------------------------------------------------------
(* What the positions of a typed slice hold. *)
LEMMA EntryFields ==
  ASSUME NEW q \in Seq(Entry), NEW i \in 1 .. Len(q)
  PROVE  q[i] \in Entry /\ q[i].prio \in Int /\ q[i].arrival \in Nat
<1>1. q[i] \in Entry
  BY ElementOfSeq
<1> QED
  BY <1>1, QueueAssumption DEF Entry

(* Where the entries are after an insertion. *)
LEMMA InsertPlaces ==
  ASSUME NEW q \in Seq(Entry), NEW e \in Entry, NEW k \in 0 .. Len(q),
         NEW r, r = InsertAt(q, k, e)
  PROVE  /\ r \in Seq(Entry)
         /\ Len(r) = Len(q) + 1
         /\ \A i \in 1 .. Len(q) + 1 :
              r[i] = IF i <= k THEN q[i] ELSE IF i = k + 1 THEN e ELSE q[i - 1]
<1>1. k \in 0 .. Len(q) /\ Len(q) \in Nat
  BY LenProperties
<1>2. /\ SubSeq(q, 1, k) \in Seq(Entry)
      /\ Len(SubSeq(q, 1, k)) = k
      /\ \A i \in 1 .. k : SubSeq(q, 1, k)[i] = q[i]
  BY <1>1, SubSeqProperties, ElementOfSeq
<1>3. /\ SubSeq(q, k+1, Len(q)) \in Seq(Entry)
      /\ Len(SubSeq(q, k+1, Len(q))) = Len(q) - k
      /\ \A i \in 1 .. Len(q) - k : SubSeq(q, k+1, Len(q))[i] = q[i + k]
  BY <1>1, SubSeqProperties, ElementOfSeq
<1>4. /\ r \in Seq(Entry)
      /\ Len(r) = Len(q) + 1
      /\ \A i \in 1 .. Len(q) + 1 :
           r[i] = IF i <= k THEN q[i] ELSE IF i = k + 1 THEN e ELSE q[i - 1]
  <2> DEFINE a == SubSeq(q, 1, k)
             b == SubSeq(q, k+1, Len(q))
             ae == a \o <<e>>
  <2>1. r = ae \o b
    BY DEF InsertAt
  <2>2. /\ ae \in Seq(Entry)
        /\ Len(ae) = k + 1
        /\ \A i \in 1 .. k + 1 : ae[i] = IF i <= k THEN q[i] ELSE e
    <3>1. <<e>> \in Seq(Entry) /\ Len(<<e>>) = 1 /\ <<e>>[1] = e
      OBVIOUS
    <3>2. /\ ae \in Seq(Entry)
          /\ Len(ae) = Len(a) + 1
          /\ \A i \in 1 .. Len(a) + 1 : ae[i] = IF i <= Len(a) THEN a[i] ELSE <<e>>[i - Len(a)]
      BY <1>2, <3>1, ConcatProperties
    <3>3. Len(a) = k /\ \A i \in 1 .. k : a[i] = q[i]
      BY <1>2
    <3> HIDE DEF a, ae
    <3>4. ASSUME NEW i \in 1 .. k + 1
          PROVE  ae[i] = IF i <= k THEN q[i] ELSE e
      <4>1. CASE i <= k
        BY <1>1, <3>2, <3>3, <4>1
      <4>2. CASE i = k + 1
        <5>1. i - Len(a) = 1
          BY <1>1, <3>3, <4>2
        <5> QED
          BY <1>1, <3>1, <3>2, <3>3, <4>2, <5>1
      <4> QED
        BY <1>1, <4>1, <4>2
    <3> QED
      BY <1>1, <3>2, <3>3, <3>4
  <2> HIDE DEF a, b, ae
  <2>3. /\ b \in Seq(Entry)
        /\ Len(b) = Len(q) - k
        /\ \A i \in 1 .. Len(q) - k : b[i] = q[i + k]
    BY <1>3 DEF b
  <2>4. /\ r \in Seq(Entry)
        /\ Len(r) = Len(q) + 1
    <3>1. r \in Seq(Entry) /\ Len(r) = Len(ae) + Len(b)
      BY <2>1, <2>2, <2>3, ConcatProperties
    <3> QED
      BY <1>1, <2>2, <2>3, <3>1
  <2>5. ASSUME NEW i \in 1 .. Len(q) + 1
        PROVE  r[i] = IF i <= k + 1 THEN ae[i] ELSE b[i - k - 1]
    <3>1. \A j \in 1 .. Len(ae) + Len(b) :
            r[j] = IF j <= Len(ae) THEN ae[j] ELSE b[j - Len(ae)]
      BY <2>1, <2>2, <2>3, ConcatProperties
    <3>2. Len(ae) = k + 1 /\ Len(ae) + Len(b) = Len(q) + 1 /\ i - Len(ae) = i - k - 1
      BY <1>1, <2>2, <2>3
    <3> QED
      BY <3>1, <3>2
  <2>6. ASSUME NEW i \in 1 .. Len(q) + 1
        PROVE  r[i] = IF i <= k THEN q[i] ELSE IF i = k + 1 THEN e ELSE q[i - 1]
    <3>1. CASE i <= k + 1
      BY <3>1, <1>1, <2>2, <2>5
    <3>2. CASE i > k + 1
      <4>1. i - k - 1 \in 1 .. Len(q) - k /\ (i - k - 1) + k = i - 1
        BY <3>2, <1>1
      <4>2. r[i] = b[i - k - 1] /\ b[i - k - 1] = q[(i - k - 1) + k]
        BY <4>1, <3>2, <1>1, <2>3, <2>5
      <4> QED
        BY <4>1, <4>2, <3>2, <1>1
    <3> QED
      BY <3>1, <3>2, <1>1
  <2> QED
    BY <2>4, <2>6
<1> QED
  BY <1>4

(* What inserting the newest message at a place sort.Search may return does. *)
LEMMA InsertIsSound ==
  ASSUME NEW q \in Seq(Entry), NEW n \in Nat, Sound(q, n),
         NEW e \in Entry, e.arrival = n,
         NEW k \in InsertPositions(q, e.prio)
  PROVE  /\ Sound(InsertAt(q, k, e), n + 1)
         /\ Len(InsertAt(q, k, e)) = Len(q) + 1
<1> DEFINE r == InsertAt(q, k, e)
<1>1. k \in 0 .. Len(q) /\ Len(q) \in Nat
  BY LenProperties DEF InsertPositions
<1> HIDE DEF r
<1>4. /\ r \in Seq(Entry)
      /\ Len(r) = Len(q) + 1
      /\ \A i \in 1 .. Len(q) + 1 :
           r[i] = IF i <= k THEN q[i] ELSE IF i = k + 1 THEN e ELSE q[i - 1]
  BY <1>1, InsertPlaces DEF r
<1>5. /\ \A i \in 1 .. k : q[i].prio <= e.prio
      /\ \A i \in k + 1 .. Len(q) : q[i].prio > e.prio
  <2>1. \A i \in 1 .. Len(q) : q[i].prio \in Int
    BY EntryFields
  <2>2. e.prio \in Int
    BY QueueAssumption DEF Entry
  <2>3. /\ k > 0 => q[k].prio <= e.prio
        /\ k < Len(q) => q[k+1].prio > e.prio
    BY DEF InsertPositions
  <2>4. \A i, j \in 1 .. Len(q) : i < j => q[i].prio <= q[j].prio
    BY <2>1 DEF Sound, Ordered
  <2>5. ASSUME NEW i \in 1 .. k
        PROVE  q[i].prio <= e.prio
    BY <1>1, <2>1, <2>2, <2>3, <2>4
  <2>6. ASSUME NEW i \in k + 1 .. Len(q)
        PROVE  q[i].prio > e.prio
    BY <1>1, <2>1, <2>2, <2>3, <2>4
  <2> QED
    BY <2>5, <2>6
<1>6. /\ \A i \in 1 .. Len(q) : q[i].prio \in Int /\ q[i].arrival \in Nat
      /\ e.prio \in Int /\ e.arrival \in Nat
  BY EntryFields, QueueAssumption DEF Entry
<1>7. Ordered(r)
  <2> SUFFICES ASSUME NEW i \in 1 .. Len(q) + 1, NEW j \in 1 .. Len(q) + 1, i < j
               PROVE  \/ r[i].prio < r[j].prio
                      \/ r[i].prio = r[j].prio /\ r[i].arrival < r[j].arrival
    BY <1>4 DEF Ordered
  <2>1. CASE j <= k
    <3>1. r[i] = q[i] /\ r[j] = q[j] /\ i \in 1 .. Len(q) /\ j \in 1 .. Len(q)
      BY <2>1, <1>1, <1>4
    <3> QED
      BY <3>1 DEF Sound, Ordered
  <2>2. CASE i > k + 1
    <3>1. r[i] = q[i-1] /\ r[j] = q[j-1] /\ i-1 \in 1 .. Len(q) /\ j-1 \in 1 .. Len(q)
      BY <2>2, <1>1, <1>4
    <3> QED
      BY <3>1 DEF Sound, Ordered
  <2>3. CASE j = k + 1
    <3>1. r[i] = q[i] /\ r[j] = e /\ i \in 1 .. k /\ i \in 1 .. Len(q)
      BY <2>3, <1>1, <1>4
    <3> QED
      BY <3>1, <1>5, <1>6 DEF Sound, Numbered
  <2>4. CASE i = k + 1
    <3>1. r[i] = e /\ r[j] = q[j-1] /\ j-1 \in k + 1 .. Len(q)
      BY <2>4, <1>1, <1>4
    <3> QED
      BY <3>1, <1>5, <1>6
  <2>5. CASE i <= k /\ j > k + 1
    <3>1. i \in 1 .. Len(q) /\ j-1 \in 1 .. Len(q) /\ i < j-1 /\ ~ j <= k /\ j # k + 1
      BY <2>5, <1>1
    <3>2. r[i] = q[i] /\ r[j] = q[j-1]
      BY <2>5, <3>1, <1>4
    <3> QED
      BY <3>1, <3>2 DEF Sound, Ordered
  <2> QED
    BY <1>1, <2>1, <2>2, <2>3, <2>4, <2>5
<1>8. Numbered(r, n + 1)
  <2> SUFFICES ASSUME NEW i \in 1 .. Len(q) + 1
               PROVE  r[i].arrival < n + 1
    BY <1>4 DEF Numbered
  <2>1. CASE i = k + 1
    BY <1>1, <1>4, <2>1
  <2>2. CASE i # k + 1
    <3>1. \E j \in 1 .. Len(q) : r[i] = q[j]
      <4>1. CASE i <= k
        BY <1>1, <1>4, <4>1
      <4>2. CASE i > k
        <5>1. r[i] = q[i-1] /\ i - 1 \in 1 .. Len(q)
          BY <1>1, <1>4, <2>2, <4>2
        <5> QED
          BY <5>1
      <4> QED
        BY <1>1, <4>1, <4>2
    <3> QED
      BY <3>1, <1>6 DEF Sound, Numbered
  <2> QED
    BY <2>1, <2>2
<1> QED
  BY <1>4, <1>7, <1>8 DEF Sound, r

(* What getFirst leaves of a queue is still in order. *)
LEMMA StripIsSound ==
  ASSUME NEW q \in Seq(Entry), NEW n \in Nat, NEW now, Sound(q, n),
         NEW r \in StrippedQueues(q, now)
  PROVE  Sound(r, n) /\ Len(r) <= Len(q)
<1>1. PICK k \in 0 .. Len(q) : r = SubSeq(q, k+1, Len(q))
  BY DEF StrippedQueues
<1>2. Len(q) \in Nat
  BY LenProperties
<1>3. /\ r \in Seq(Entry)
      /\ Len(r) = Len(q) - k
      /\ \A i \in 1 .. Len(q) - k : r[i] = q[i + k]
  BY <1>1, <1>2, SubSeqProperties, ElementOfSeq
<1>4. \A i \in 1 .. Len(r) : r[i] = q[i + k] /\ i + k \in 1 .. Len(q)
  BY <1>2, <1>3
<1>5. Ordered(r)
  <2> SUFFICES ASSUME NEW i \in 1 .. Len(r), NEW j \in 1 .. Len(r), i < j
               PROVE  \/ r[i].prio < r[j].prio
                      \/ r[i].prio = r[j].prio /\ r[i].arrival < r[j].arrival
    BY DEF Ordered
  <2> DEFINE x == i + k
             y == j + k
  <2>1. x \in 1 .. Len(q) /\ y \in 1 .. Len(q) /\ x < y
    BY <1>2, <1>3, <1>4
  <2>2. r[i] = q[x] /\ r[j] = q[y]
    BY <1>4
  <2> HIDE DEF x, y
  <2> QED
    BY <2>1, <2>2 DEF Sound, Ordered
<1>6. Numbered(r, n)
  BY <1>4 DEF Sound, Numbered
<1> QED
  BY <1>2, <1>3, <1>5, <1>6 DEF Sound

(* Prune keeps a subset in the same order, whichever subset it is. *)
LEMMA PruneIsSound ==
  ASSUME NEW q \in Seq(Entry), NEW n \in Nat, NEW now, NEW max, Sound(q, n),
         NEW r \in PrunedQueues(q, now, max)
  PROVE  Sound(r, n) /\ Len(r) = Cardinality(Survivors(q, now, max))
<1> DEFINE K == Survivors(q, now, max)
           c == Cardinality(K)
<1>1. Len(q) \in Nat
  BY LenProperties
<1>2. K \subseteq 1 .. Len(q)
  BY DEF Survivors, Usable
<1>3. IsFiniteSet(K) /\ c \in Nat
  <2>1. IsFiniteSet(1 .. Len(q))
    BY <1>1, FS_Interval
  <2>2. IsFiniteSet(K)
    BY <1>2, <2>1, FS_Subset
  <2> QED
    BY <2>2, FS_CardinalityType
<1>4. PICK f \in [1 .. c -> K] :
        /\ r = [a \in DOMAIN f |-> q[f[a]]]
        /\ \A a, b \in 1 .. c : a < b => f[a] < f[b]
  BY DEF PrunedQueues, Enumerations
<1>5. r = [a \in 1 .. c |-> q[f[a]]]
  BY <1>4
<1>6. \A a \in 1 .. c : f[a] \in 1 .. Len(q) /\ q[f[a]] \in Entry
  BY <1>2, <1>4, ElementOfSeq
<1>7. r \in Seq(Entry) /\ Len(r) = c
  <2> HIDE DEF K, c
  <2>1. r \in [1 .. c -> Entry]
    BY <1>5, <1>6
  <2> QED
    BY <1>3, <2>1, LenProperties
<1> HIDE DEF K, c
<1>8. Ordered(r)
  <2> SUFFICES ASSUME NEW i \in 1 .. c, NEW j \in 1 .. c, i < j
               PROVE  \/ r[i].prio < r[j].prio
                      \/ r[i].prio = r[j].prio /\ r[i].arrival < r[j].arrival
    BY <1>7 DEF Ordered
  <2>1. f[i] < f[j] /\ r[i] = q[f[i]] /\ r[j] = q[f[j]]
    BY <1>4, <1>5
  <2>2. f[i] \in 1 .. Len(q) /\ f[j] \in 1 .. Len(q)
    BY <1>6
  <2> QED
    BY <2>1, <2>2 DEF Sound, Ordered
<1>9. Numbered(r, n)
  <2>1. \A i \in 1 .. c : r[i] = q[f[i]]
    BY <1>5
  <2> QED
    BY <1>6, <1>7, <2>1 DEF Sound, Numbered
<1> QED
  BY <1>7, <1>8, <1>9 DEF Sound, K, c

(* How many current entries are removed before the one at place i. *)
Rank(q, now, i) == Cardinality({j \in Usable(q, now) : GoesBefore(q, j, i)})

LEMMA Ranks ==
  ASSUME NEW q \in Seq(Entry), NEW now
  PROVE  /\ IsFiniteSet(Usable(q, now)) /\ Cardinality(Usable(q, now)) \in Nat
         /\ \A i \in Usable(q, now) : Rank(q, now, i) \in 0 .. Cardinality(Usable(q, now)) - 1
         /\ \A i, j \in Usable(q, now) :
              /\ GoesBefore(q, i, j) => Rank(q, now, i) < Rank(q, now, j)
              /\ i # j => GoesBefore(q, i, j) \/ GoesBefore(q, j, i)
<1> DEFINE U == Usable(q, now)
           n == Cardinality(U)
           Before(i) == {j \in U : GoesBefore(q, j, i)}
<1>1. IsFiniteSet(U) /\ n \in Nat /\ U \subseteq 1 .. Len(q) /\ Len(q) \in Nat
  <2>1. Len(q) \in Nat
    BY LenProperties
  <2>2. IsFiniteSet(1 .. Len(q))
    BY <2>1, FS_Interval
  <2>3. U \subseteq 1 .. Len(q)
    BY DEF Usable
  <2>4. IsFiniteSet(U)
    BY <2>2, <2>3, FS_Subset
  <2> QED
    BY <2>1, <2>3, <2>4, FS_CardinalityType
<1>2. \A i \in U : q[i].prio \in Int /\ i \in Int
  BY <1>1, EntryFields
<1>3. ASSUME NEW i \in U
      PROVE  /\ IsFiniteSet(Before(i))
             /\ Cardinality(Before(i)) \in Nat
             /\ Cardinality(Before(i)) < n
  <2>1. Before(i) \subseteq U /\ i \notin Before(i)
    BY <1>2 DEF GoesBefore
  <2>2. IsFiniteSet(Before(i)) /\ Cardinality(Before(i)) <= n
    BY <1>1, <2>1, FS_Subset
  <2>3. Cardinality(Before(i)) # n
    BY <1>1, <2>1, FS_Subset
  <2>4. Cardinality(Before(i)) \in Nat
    BY <2>2, FS_CardinalityType
  <2> QED
    BY <1>1, <2>2, <2>3, <2>4
<1>4. ASSUME NEW i \in U, NEW j \in U, GoesBefore(q, i, j)
      PROVE  Cardinality(Before(i)) < Cardinality(Before(j))
  <2>1. Before(i) \subseteq Before(j)
    BY <1>2, <1>4 DEF GoesBefore
  <2>2. i \in Before(j) /\ i \notin Before(i)
    BY <1>2, <1>4 DEF GoesBefore
  <2>3. /\ Cardinality(Before(i)) <= Cardinality(Before(j))
        /\ Cardinality(Before(i)) # Cardinality(Before(j))
    BY <1>3, <2>1, <2>2, FS_Subset
  <2>4. Cardinality(Before(i)) \in Nat /\ Cardinality(Before(j)) \in Nat
    BY <1>3
  <2> HIDE DEF Before
  <2> QED
    BY <2>3, <2>4
<1>5. \A i, j \in U : i # j => GoesBefore(q, i, j) \/ GoesBefore(q, j, i)
  BY <1>2 DEF GoesBefore
<1>6. \A i \in U : Rank(q, now, i) = Cardinality(Before(i))
  BY DEF Rank
<1> HIDE DEF Before, U, n
<1>7. \A i \in U : Rank(q, now, i) \in 0 .. n - 1
  BY <1>1, <1>3, <1>6
<1>8. \A i, j \in U : GoesBefore(q, i, j) => Rank(q, now, i) < Rank(q, now, j)
  BY <1>4, <1>6
<1> QED
  BY <1>1, <1>5, <1>7, <1>8 DEF U, n

(* The current entries have all ranks from 0 on, so prune keeps those of   *)
(* the max highest ranks, or all.                                          *)
LEMMA PruneKeeps ==
  ASSUME NEW q \in Seq(Entry), NEW now, NEW max \in Nat
  PROVE  /\ Cardinality(Usable(q, now)) <= max => Survivors(q, now, max) = Usable(q, now)
         /\ Cardinality(Usable(q, now)) > max => Cardinality(Survivors(q, now, max)) = max
<1> DEFINE U == Usable(q, now)
           n == Cardinality(U)
           K == Survivors(q, now, max)
           rank == [i \in U |-> Rank(q, now, i)]
           top == [i \in K |-> rank[i]]
<1>1. IsFiniteSet(U) /\ n \in Nat
  BY Ranks
<1>2. \A i \in U : rank[i] \in 0 .. n - 1
  BY Ranks
<1>3. \A i, j \in U : rank[i] = rank[j] => i = j
  <2>1. \A i, j \in U : i # j => rank[i] < rank[j] \/ rank[j] < rank[i]
    BY Ranks
  <2>2. \A i \in U : rank[i] \in Int
    BY <1>2
  <2> HIDE DEF rank, U
  <2> QED BY <2>1, <2>2
<1>4. K = {i \in U : rank[i] >= n - max}
  BY DEF Survivors, Rank
<1>5. CASE n <= max
  <2> HIDE DEF K, U, n, rank
  <2>0. \A i \in U : rank[i] >= n - max
    BY <1>1, <1>2, <1>5
  <2>1. K = U
    BY <1>4, <2>0
  <2> QED BY <1>1, <1>5, <2>1 DEF K, U, n
<1>6. CASE n > max
  <2>1. rank \in Injection(U, 0 .. n - 1)
    BY <1>2, <1>3 DEF Injection, IsInjective
  <2>2. IsFiniteSet(0 .. n - 1) /\ Cardinality(0 .. n - 1) = n
    <3>1. n - 1 \in Int /\ (0 > n - 1 => n = 0) /\ n - 1 - 0 + 1 = n
      BY <1>1
    <3> HIDE DEF n
    <3> QED BY <3>1, FS_Interval
  <2>3. rank \in Surjection(U, 0 .. n - 1)
    <3> HIDE DEF rank, U
    <3> QED BY <2>1, <2>2, FS_Injection DEF n
  <2>4. top \in Bijection(K, n - max .. n - 1)
    <3> HIDE DEF rank, U, K, n
    <3>1. K \subseteq U /\ \A i \in K : top[i] = rank[i]
      BY <1>4
    <3>2. \A i \in K : rank[i] \in n - max .. n - 1
      BY <1>1, <1>2, <1>4
    <3>3. \A i, j \in K : top[i] = top[j] => i = j
      BY <1>3, <3>1
    <3>4. ASSUME NEW m \in n - max .. n - 1 PROVE \E i \in K : top[i] = m
      <4>1. m \in 0 .. n - 1 /\ m >= n - max
        BY <1>1, <1>6
      <4>2. PICK i \in U : rank[i] = m
        BY <2>3, <4>1 DEF Surjection
      <4> QED BY <1>4, <4>1, <4>2
    <3> QED BY <3>1, <3>2, <3>3, <3>4 DEF Bijection, Injection, IsInjective, Surjection
  <2>5. /\ IsFiniteSet(n - max .. n - 1)
        /\ Cardinality(n - max .. n - 1) = max
    <3>1. n - max \in Int /\ n - 1 \in Int /\ (n - max > n - 1 => max = 0)
          /\ n - 1 - (n - max) + 1 = max
      BY <1>1
    <3> HIDE DEF n
    <3> QED BY <3>1, FS_Interval
  <2>6. IsFiniteSet(K)
    BY <1>1, <1>4, FS_Subset
  <2>7. Cardinality(K) = max
    <3> HIDE DEF K, n, top
    <3> QED BY <2>4, <2>5, <2>6, FS_Bijection DEF ExistsBijection
  <2> QED BY <1>1, <1>6, <2>7
<1> QED BY <1>1, <1>5, <1>6

LEMMA PruneKeepsAtMost ==
  ASSUME NEW q \in Seq(Entry), NEW now, NEW max \in Nat
  PROVE  Cardinality(Survivors(q, now, max)) <= max
<1>1. Cardinality(Usable(q, now)) \in Nat
  BY Ranks
<1> QED BY <1>1, PruneKeeps

-----------------------------------------------------------------------------
(* A new queue is empty, hence sound and within the limit. *)
LEMMA InitQueueInv == Init => QueueInv /\ WithinLimit
<1> SUFFICES ASSUME Init
             PROVE  QueueInv /\ WithinLimit
  OBVIOUS
<1> USE QueueAssumption DEF Init
<1>1. entries = <<>> /\ Len(entries) = 0 /\ 1 .. Len(entries) = {}
  OBVIOUS
<1>2. TypeOK
  <2>1. /\ entries \in Seq(Entry) /\ popped \in Seq(Entry) /\ Len(popped) <= 1
        /\ putting \in Seq([prio : Prios, age : Ages]) /\ Len(putting) <= 1
    BY EmptySeq
  <2>2. clock \in 0 .. MaxClock /\ arrivals \in 0 .. MaxPuts
    OBVIOUS
  <2> QED
    BY <2>1, <2>2 DEF TypeOK
<1>3. Sound(entries, arrivals)
  BY <1>1 DEF Sound, Ordered, Numbered
<1> QED
  BY <1>1, <1>2, <1>3 DEF QueueInv, WithinLimit

(* What the message that Put inserts is made of. *)
LEMMA PutEntry ==
  ASSUME QueueInv, PutInsert
  PROVE  LET e == [prio |-> putting[1].prio,
                   outdatedAt |-> clock + putting[1].age,
                   arrival |-> arrivals]
         IN /\ e \in Entry /\ e.arrival = arrivals
            /\ putting[1].prio \in Prios /\ putting[1].age \in Ages
            /\ arrivals \in Nat /\ clock \in Nat
<1> USE QueueAssumption
<1>1. putting[1] \in [prio : Prios, age : Ages]
  <2>1. putting \in Seq([prio : Prios, age : Ages]) /\ putting # <<>>
    BY DEF QueueInv, TypeOK, PutInsert
  <2>2. 1 \in 1 .. Len(putting)
    BY <2>1
  <2> QED
    BY <2>1, <2>2, ElementOfSeq
<1>2. clock \in Nat /\ arrivals \in Nat
  BY DEF QueueInv, TypeOK
<1>3. clock + putting[1].age \in Nat
  <2>1. putting[1].age \in Ages
    BY <1>1
  <2>2. putting[1].age \in Nat
    BY <2>1
  <2> QED
    BY <1>2, <2>2
<1> QED
  BY <1>1, <1>2, <1>3 DEF Entry

(* Put keeps the order and prunes what is too long. *)
LEMMA PutInsertInv ==
  ASSUME QueueInv, PutInsert
  PROVE  QueueInv' /\ WithinLimit'
<1> USE QueueAssumption
<1> DEFINE e == [prio |-> putting[1].prio,
                 outdatedAt |-> clock + putting[1].age,
                 arrival |-> arrivals]
<1>1. e \in Entry /\ e.arrival = arrivals /\ arrivals \in Nat /\ clock \in Nat
  BY PutEntry
<1>2. PICK q \in Inserted(e) :
        entries' \in IF Len(q) > PruneAbove THEN PrunedQueues(q, clock, MaxSize) ELSE {q}
  BY DEF PutInsert
<1> HIDE DEF e
<1>3. Sound(q, arrivals + 1) /\ q \in Seq(Entry) /\ Len(q) \in Nat
  <2>1. PICK k \in InsertPositions(entries, e.prio) : q = InsertAt(entries, k, e)
    BY <1>2 DEF Inserted
  <2>2. Sound(q, arrivals + 1)
    BY <1>1, <2>1, InsertIsSound DEF QueueInv, Sound
  <2> QED
    BY <2>2, LenProperties DEF Sound
<1>4. Sound(entries', arrivals + 1) /\ Len(entries') <= PruneAbove
  <2>1. CASE Len(q) > PruneAbove
    <3>1. entries' \in PrunedQueues(q, clock, MaxSize)
      BY <1>2, <2>1
    <3>2. /\ Sound(entries', arrivals + 1)
          /\ Len(entries') = Cardinality(Survivors(q, clock, MaxSize))
      BY <1>1, <1>3, <3>1, PruneIsSound
    <3>3. Len(entries') <= MaxSize /\ Len(entries') \in Nat
      BY <1>3, <3>2, PruneKeepsAtMost, LenProperties DEF Sound
    <3> QED
      BY <3>2, <3>3
  <2>2. CASE ~ Len(q) > PruneAbove
    BY <1>2, <1>3, <2>2
  <2> QED
    BY <2>1, <2>2
<1>5. arrivals + 1 \in 0 .. MaxPuts
  BY DEF QueueInv, TypeOK, PutInsert
<1> QED
  BY <1>4, <1>5 DEF QueueInv, TypeOK, PutInsert, WithinLimit, Sound

(* PopFirst takes the head off a sound queue that is within the limit. *)
LEMMA PopFirstInv ==
  ASSUME QueueInv, WithinLimit, PopFirst
  PROVE  QueueInv' /\ WithinLimit'
<1>1. PICK q \in StrippedQueues(entries, clock) :
        IF q = <<>> THEN entries' = <<>> /\ popped' = <<>>
                    ELSE entries' = Tail(q) /\ popped' = <<Head(q)>>
  BY DEF PopFirst
<1>2. entries \in Seq(Entry) /\ Len(entries) \in Nat /\ arrivals \in Nat
  BY LenProperties DEF QueueInv, TypeOK
<1>3. Sound(q, arrivals) /\ Len(q) <= Len(entries)
  BY <1>1, <1>2, StripIsSound DEF QueueInv
<1>4. q \in Seq(Entry) /\ Len(q) \in Nat
  BY <1>3, LenProperties DEF Sound
<1>5. CASE q = <<>>
  <2>1. entries' = <<>> /\ popped' = <<>> /\ Len(entries') = 0 /\ Sound(entries', arrivals)
    BY <1>1, <1>3, <1>5
  <2> QED
    BY <2>1, QueueAssumption DEF QueueInv, TypeOK, PopFirst, WithinLimit, Sound
<1>6. CASE q # <<>>
  <2>1. entries' = Tail(q) /\ popped' = <<Head(q)>>
    BY <1>1, <1>6
  <2>2. /\ Head(q) \in Entry
        /\ Tail(q) \in Seq(Entry)
        /\ Len(Tail(q)) = Len(q) - 1
        /\ \A i \in 1 .. Len(Tail(q)) : Tail(q)[i] = q[i+1]
    BY <1>4, <1>6, HeadTailProperties
  <2>3. Sound(entries', arrivals)
    <3>1. \A i \in 1 .. Len(entries') : entries'[i] = q[i+1] /\ i + 1 \in 1 .. Len(q)
      BY <1>4, <2>1, <2>2
    <3>2. Ordered(entries')
      <4> SUFFICES ASSUME NEW i \in 1 .. Len(entries'), NEW j \in 1 .. Len(entries'), i < j
                   PROVE  \/ entries'[i].prio < entries'[j].prio
                          \/ /\ entries'[i].prio = entries'[j].prio
                             /\ entries'[i].arrival < entries'[j].arrival
        BY DEF Ordered
      <4> DEFINE x == i + 1
                 y == j + 1
      <4>1. x \in 1 .. Len(q) /\ y \in 1 .. Len(q) /\ x < y
        BY <1>4, <3>1
      <4>2. entries'[i] = q[x] /\ entries'[j] = q[y]
        BY <3>1
      <4> HIDE DEF x, y
      <4> QED
        BY <1>3, <4>1, <4>2 DEF Sound, Ordered
    <3>3. Numbered(entries', arrivals)
      BY <1>3, <3>1 DEF Sound, Numbered
    <3> QED
      BY <2>1, <2>2, <3>2, <3>3 DEF Sound
  <2>4. popped' \in Seq(Entry) /\ Len(popped') <= 1
    BY <2>1, <2>2
  <2>5. Len(entries') <= PruneAbove
    BY <1>2, <1>3, <1>4, <2>1, <2>2, QueueAssumption DEF WithinLimit
  <2> QED
    BY <2>3, <2>4, <2>5 DEF QueueInv, TypeOK, PopFirst, WithinLimit, Sound
<1> QED
  BY <1>5, <1>6

(* No step of anybody breaks the inductive invariant. *)
LEMMA StepQueueInv == QueueInv /\ WithinLimit /\ [Next]_vars => QueueInv' /\ WithinLimit'
<1> SUFFICES ASSUME QueueInv, WithinLimit, [Next]_vars
             PROVE  QueueInv' /\ WithinLimit'
  OBVIOUS
<1> USE QueueAssumption
<1>1. entries \in Seq(Entry) /\ Len(entries) \in Nat /\ arrivals \in Nat
  BY LenProperties DEF QueueInv, TypeOK
<1>2. ASSUME NEW prio \in Prios, NEW age \in Ages, PutCheck(prio, age)
      PROVE  QueueInv' /\ WithinLimit'
  <2>1. putting' \in Seq([prio : Prios, age : Ages]) /\ Len(putting') = 1
    BY <1>2 DEF PutCheck
  <2> QED
    BY <1>2, <2>1 DEF PutCheck, QueueInv, TypeOK, WithinLimit, Sound, Ordered, Numbered
<1>3. CASE PutInsert
  BY <1>3, PutInsertInv
<1>4. CASE PeekFirst
  <2>1. Sound(entries', arrivals) /\ Len(entries') <= Len(entries)
    BY <1>1, <1>4, StripIsSound DEF PeekFirst, QueueInv
  <2>2. Len(entries') <= PruneAbove
    BY <1>1, <2>1, LenProperties DEF WithinLimit, Sound
  <2> QED
    BY <1>4, <2>1, <2>2 DEF PeekFirst, QueueInv, TypeOK, WithinLimit, Sound
<1>5. CASE PopFirst
  BY <1>5, PopFirstInv
<1>6. CASE GetQueueDump
  <2>1. /\ Sound(entries', arrivals)
        /\ Len(entries') = Cardinality(Survivors(entries, clock, MaxSize))
    BY <1>1, <1>6, PruneIsSound DEF GetQueueDump, QueueInv
  <2>2. Len(entries') <= PruneAbove
    <3>1. Len(entries') <= MaxSize /\ Len(entries') \in Nat
      BY <1>1, <2>1, PruneKeepsAtMost, LenProperties DEF Sound
    <3> QED
      BY <3>1
  <2> QED
    BY <1>6, <2>1, <2>2 DEF GetQueueDump, QueueInv, TypeOK, WithinLimit, Sound
<1>7. CASE ReceiveDataAvailable
  BY <1>7 DEF ReceiveDataAvailable, QueueInv, TypeOK, WithinLimit
<1>8. CASE Close
  BY <1>8 DEF Close, QueueInv, TypeOK, WithinLimit
<1>9. CASE Tick
  <2>1. clock' \in 0 .. MaxClock
    BY <1>9 DEF Tick, QueueInv, TypeOK
  <2> QED
    BY <1>9, <2>1 DEF Tick, QueueInv, TypeOK, WithinLimit
<1>10. CASE UNCHANGED vars
  BY <1>10 DEF vars, QueueInv, TypeOK, WithinLimit
<1> QED
  BY <1>2, <1>3, <1>4, <1>5, <1>6, <1>7, <1>8, <1>9, <1>10 DEF Next

-----------------------------------------------------------------------------
(* The variables of every MessageQueue keep their types. *)
THEOREM TypeCorrect == Spec => []TypeOK
<1>1. QueueInv => TypeOK
  BY DEF QueueInv
<1> QED
  BY <1>1, InitQueueInv, StepQueueInv, PTL DEF Spec

(***************************************************************************)
(* Whatever is put, popped, pruned or expires, and in whatever order, the  *)
(* slice stays sorted by urgency and, within a priority, by arrival.       *)
(***************************************************************************)
THEOREM OrderKept == Spec => []QueueOrder
<1>1. QueueInv => QueueOrder
  BY DEF QueueInv, Sound, Ordered, QueueOrder
<1> QED
  BY <1>1, InitQueueInv, StepQueueInv, PTL DEF Spec

(***************************************************************************)
(* However many messages are put and never read, a queue holds at most     *)
(* 1.1 * maxSize of them: the count behind it is PruneKeepsAtMost.         *)
(***************************************************************************)
THEOREM LimitKept == Spec => []WithinLimit
  BY InitQueueInv, StepQueueInv, PTL DEF Spec
-----------------------------------------------------------------------------
(* The refinement.  The entries at some places of a slice, as a set. *)
At(q, I) == {q[i] : i \in I}
All(q) == At(q, 1 .. Len(q))

(* The same as Current, Outweighs and Trims of PriorityBuffer, at a time. *)
CurrentAt(H, now) == {e \in H : e.outdatedAt >= now}
Better(b, a) == \/ b.prio < a.prio
                \/ b.prio = a.prio /\ b.arrival > a.arrival
TrimsAt(H, K, now) ==
  /\ K \subseteq CurrentAt(H, now)
  /\ IF Cardinality(CurrentAt(H, now)) <= MaxSize
     THEN K = CurrentAt(H, now)
     ELSE /\ Cardinality(K) = MaxSize
          /\ \A a \in CurrentAt(H, now) \ K, b \in K : Better(b, a)
ExpiresAt(H, K, now) == K \subseteq H /\ CurrentAt(H, now) \subseteq K

(* In a sound slice no message is in two places, so places can be counted  *)
(* for messages.                                                           *)
LEMMA PlacesDiffer ==
  ASSUME NEW q, NEW n, Sound(q, n), NEW i \in 1 .. Len(q), NEW j \in 1 .. Len(q), i # j
  PROVE  q[i] # q[j]
<1>1. q \in Seq(Entry) /\ Len(q) \in Nat
  BY LenProperties DEF Sound
<1>2. /\ q[i].prio \in Int /\ q[i].arrival \in Nat
      /\ q[j].prio \in Int /\ q[j].arrival \in Nat
  BY <1>1, EntryFields
<1>3. i < j \/ j < i
  BY <1>1
<1> QED BY <1>2, <1>3 DEF Sound, Ordered

LEMMA CountPlaces ==
  ASSUME NEW q, NEW n, Sound(q, n), NEW I \in SUBSET (1 .. Len(q))
  PROVE  /\ IsFiniteSet(I) /\ IsFiniteSet(At(q, I))
         /\ Cardinality(At(q, I)) = Cardinality(I) /\ Cardinality(I) \in Nat
<1> DEFINE f == [i \in I |-> q[i]]
           S == At(q, I)
<1>1. IsFiniteSet(I) /\ Cardinality(I) \in Nat
  <2>1. Len(q) \in Nat
    BY LenProperties DEF Sound
  <2>2. IsFiniteSet(1 .. Len(q))
    BY <2>1, FS_Interval
  <2> QED BY <2>2, FS_Subset, FS_CardinalityType
<1>2. f \in Bijection(I, S)
  <2>1. f \in [I -> S] /\ \A s \in S : \E i \in I : f[i] = s
    BY DEF At
  <2>2. \A i, j \in I : f[i] = f[j] => i = j
    BY PlacesDiffer
  <2> QED BY <2>1, <2>2 DEF Bijection, Injection, IsInjective, Surjection
<1>3. IsFiniteSet(S) /\ Cardinality(S) = Cardinality(I)
  <2> HIDE DEF f, S
  <2> QED BY <1>1, <1>2, FS_Bijection DEF ExistsBijection
<1> QED BY <1>1, <1>3

LEMMA CountAll ==
  ASSUME NEW q, NEW n, Sound(q, n)
  PROVE  Cardinality(All(q)) = Len(q)
<1>1. Len(q) \in Nat
  BY LenProperties DEF Sound
<1>2. Cardinality(1 .. Len(q)) = Len(q)
  <2>1. ASSUME NEW m \in Nat PROVE Cardinality(1 .. m) = m
    <3>1. m \in Int /\ 1 \in Int /\ (1 > m => m = 0) /\ m - 1 + 1 = m
      OBVIOUS
    <3> QED BY <3>1, FS_Interval
  <2> QED BY <1>1, <2>1
<1>3. Cardinality(At(q, 1 .. Len(q))) = Cardinality(1 .. Len(q))
  BY CountPlaces
<1> QED BY <1>2, <1>3 DEF All

LEMMA UsableIsCurrent ==
  ASSUME NEW q, NEW n, Sound(q, n), NEW now \in Nat
  PROVE  /\ CurrentAt(All(q), now) = At(q, Usable(q, now))
         /\ Usable(q, now) \subseteq 1 .. Len(q)
<1>1. \A i \in 1 .. Len(q) : q[i].outdatedAt \in Nat
  <2>1. \A i \in 1 .. Len(q) : q[i] \in Entry
    BY ElementOfSeq DEF Sound
  <2> QED BY <2>1 DEF Entry
<1>2. \A i \in 1 .. Len(q) : q[i].outdatedAt >= now <=> ~ Outdated(q[i], now)
  BY <1>1 DEF Outdated
<1> QED BY <1>2 DEF CurrentAt, All, At, Usable

LEMMA InsertAdds ==
  ASSUME NEW q \in Seq(Entry), NEW e \in Entry, NEW k \in 0 .. Len(q)
  PROVE  All(InsertAt(q, k, e)) = All(q) \cup {e}
<1> DEFINE r == InsertAt(q, k, e)
<1> HIDE DEF r
<1>2. /\ Len(r) = Len(q) + 1 /\ Len(q) \in Nat
      /\ \A i \in 1 .. Len(q) + 1 :
           r[i] = IF i <= k THEN q[i] ELSE IF i = k + 1 THEN e ELSE q[i - 1]
  <2>1. Len(q) \in Nat
    BY LenProperties
  <2>2. /\ Len(r) = Len(q) + 1
        /\ \A i \in 1 .. Len(q) + 1 :
             r[i] = IF i <= k THEN q[i] ELSE IF i = k + 1 THEN e ELSE q[i - 1]
    BY InsertPlaces DEF r
  <2> QED BY <2>1, <2>2
<1>3. ASSUME NEW i \in 1 .. Len(r) PROVE r[i] \in All(q) \cup {e}
  <2>1. CASE i <= k
    BY <1>2, <2>1 DEF All, At
  <2>2. CASE i = k + 1
    BY <1>2, <2>2
  <2>3. CASE i > k + 1
    <3>1. i - 1 \in 1 .. Len(q) /\ r[i] = q[i - 1]
      BY <1>2, <2>3
    <3> QED BY <3>1 DEF All, At
  <2> QED BY <1>2, <2>1, <2>2, <2>3
<1>4. ASSUME NEW i \in 1 .. Len(q) PROVE q[i] \in All(r)
  <2>1. CASE i <= k
    <3>1. i \in 1 .. Len(r) /\ r[i] = q[i]
      BY <1>2, <2>1
    <3> QED BY <3>1 DEF All, At
  <2>2. CASE i > k
    <3>1. i + 1 \in 1 .. Len(r) /\ r[i + 1] = q[(i + 1) - 1] /\ (i + 1) - 1 = i
      BY <1>2, <2>2
    <3> QED BY <3>1 DEF All, At
  <2> QED BY <1>2, <2>1, <2>2
<1>5. e \in All(r)
  <2>1. k + 1 \in 1 .. Len(r) /\ r[k + 1] = e
    BY <1>2
  <2> QED BY <2>1 DEF All, At
<1>6. All(r) \subseteq All(q) \cup {e}
  BY <1>3 DEF All, At
<1>7. All(q) \subseteq All(r)
  BY <1>4 DEF All, At
<1> QED BY <1>5, <1>6, <1>7 DEF r

(* What getFirst strips is outdated, and what is then in front is not. *)
LEMMA StripExpires ==
  ASSUME NEW q, NEW n \in Nat, Sound(q, n), NEW now \in Nat, NEW r \in StrippedQueues(q, now)
  PROVE  /\ ExpiresAt(All(q), All(r), now)
         /\ r # <<>> => r[1].outdatedAt >= now
         /\ r = <<>> => CurrentAt(All(q), now) = {}
<1>0. q \in Seq(Entry) /\ Len(q) \in Nat
  BY LenProperties DEF Sound
<1>1. PICK k \in 0 .. Len(q) :
        /\ \A i \in 1 .. k : Outdated(q[i], now)
        /\ k < Len(q) => ~ Outdated(q[k + 1], now)
        /\ r = SubSeq(q, k + 1, Len(q))
  BY DEF StrippedQueues
<1>2. /\ r \in Seq(Entry) /\ Len(r) = Len(q) - k
      /\ \A i \in 1 .. Len(q) - k : r[i] = q[i + k]
  BY <1>0, <1>1, SubSeqProperties, ElementOfSeq
<1>3. All(r) \subseteq All(q)
  <2>1. \A i \in 1 .. Len(r) : i + k \in 1 .. Len(q) /\ r[i] = q[i + k]
    BY <1>0, <1>2
  <2> QED BY <2>1 DEF All, At
<1>4. \A i \in 1 .. Len(q) : q[i].outdatedAt \in Nat
  <2>1. \A i \in 1 .. Len(q) : q[i] \in Entry
    BY <1>0, ElementOfSeq
  <2> QED BY <2>1 DEF Entry
<1>5. ASSUME NEW i \in 1 .. Len(q), q[i].outdatedAt >= now
      PROVE  i > k /\ q[i] \in All(r)
  <2>1. i > k
    BY <1>0, <1>1, <1>4, <1>5 DEF Outdated
  <2>2. i - k \in 1 .. Len(r) /\ r[i - k] = q[(i - k) + k] /\ (i - k) + k = i
    BY <1>0, <1>2, <2>1
  <2> QED BY <2>1, <2>2 DEF All, At
<1>6. CurrentAt(All(q), now) \subseteq All(r)
  BY <1>5 DEF CurrentAt, All, At
<1>7. ASSUME r # <<>> PROVE r[1].outdatedAt >= now
  <2>1. Len(r) # 0
    BY <1>2, <1>7, EmptySeq
  <2>2. k < Len(q) /\ r[1] = q[1 + k] /\ 1 + k = k + 1 /\ k + 1 \in 1 .. Len(q)
    BY <1>0, <1>2, <2>1
  <2> QED BY <1>1, <1>4, <2>2 DEF Outdated
<1>8. ASSUME r = <<>> PROVE CurrentAt(All(q), now) = {}
  <2>1. All(r) = {}
    BY <1>8 DEF All, At
  <2> QED BY <1>6, <2>1
<1> QED BY <1>3, <1>6, <1>7, <1>8 DEF ExpiresAt

(* What prune leaves is what the buffer may keep. *)
LEMMA PruneLeaves ==
  ASSUME NEW q, NEW n \in Nat, Sound(q, n), NEW now, NEW max, NEW r \in PrunedQueues(q, now, max)
  PROVE  All(r) = At(q, Survivors(q, now, max))
<1> DEFINE K == Survivors(q, now, max)
           c == Cardinality(K)
<1>1. K \subseteq 1 .. Len(q)
  BY DEF Survivors, Usable
<1>2. IsFiniteSet(K) /\ c \in Nat
  BY <1>1, CountPlaces
<1>3. PICK f \in [1 .. c -> K] :
        /\ r = [a \in DOMAIN f |-> q[f[a]]]
        /\ \A a, b \in 1 .. c : a < b => f[a] < f[b]
  BY DEF PrunedQueues, Enumerations
<1> HIDE DEF K
<1>4. \A a \in 1 .. c : f[a] \in Int
  <2>1. \A i \in K : i \in Int
    BY <1>1
  <2> QED BY <1>3, <2>1
<1>5. f \in Injection(1 .. c, K)
  <2>1. \A a, b \in 1 .. c : f[a] = f[b] => a = b
    <3> HIDE DEF c
    <3> QED BY <1>2, <1>3, <1>4
  <2> QED BY <2>1 DEF Injection, IsInjective
<1>6. f \in Surjection(1 .. c, K)
  <2>1. IsFiniteSet(1 .. c) /\ Cardinality(1 .. c) = c
    BY <1>2, FS_Interval
  <2> QED BY <1>2, <1>5, <2>1, FS_Injection
<1> HIDE DEF c
<1>7. DOMAIN r = 1 .. c /\ \A a \in 1 .. c : r[a] = q[f[a]]
  BY <1>3
<1>8. Len(r) = c
  <2>1. q \in Seq(Entry)
    BY DEF Sound
  <2> QED BY <2>1, PruneIsSound DEF K, c
<1>9. At(r, 1 .. c) = At(q, K)
  BY <1>6, <1>7 DEF At, Surjection
<1> QED BY <1>8, <1>9 DEF All, K

LEMMA PruneTrims ==
  ASSUME NEW q, NEW n \in Nat, Sound(q, n), NEW now \in Nat,
         NEW r \in PrunedQueues(q, now, MaxSize)
  PROVE  TrimsAt(All(q), All(r), now)
<1> DEFINE U == Usable(q, now)
           K == Survivors(q, now, MaxSize)
<1>0. q \in Seq(Entry) /\ MaxSize \in Nat
  BY QueueAssumption DEF Sound
<1>1. CurrentAt(All(q), now) = At(q, U) /\ U \subseteq 1 .. Len(q)
  BY UsableIsCurrent
<1>2. All(r) = At(q, K)
  BY PruneLeaves
<1>3. K \subseteq U /\ K \subseteq 1 .. Len(q)
  BY <1>1 DEF Survivors
<1>4. Cardinality(At(q, U)) = Cardinality(U) /\ Cardinality(U) \in Nat
  BY <1>1, CountPlaces
<1>5. Cardinality(At(q, K)) = Cardinality(K)
  BY <1>3, CountPlaces
<1>6. At(q, K) \subseteq At(q, U)
  BY <1>3 DEF At
<1>7. CASE Cardinality(U) <= MaxSize
  <2>1. K = U
    BY <1>0, <1>7, PruneKeeps
  <2> QED BY <1>1, <1>2, <1>4, <1>7, <2>1 DEF TrimsAt
<1>8. CASE ~ Cardinality(U) <= MaxSize
  <2>1. Cardinality(K) = MaxSize
    BY <1>0, <1>4, <1>8, PruneKeeps
  <2>2. ASSUME NEW i \in U, i \notin K, NEW j \in K
        PROVE  Better(q[j], q[i])
    <3>1. i \in 1 .. Len(q) /\ j \in 1 .. Len(q) /\ j \in U
      BY <1>1, <1>3
    <3>2. Rank(q, now, i) < Rank(q, now, j)
      <4>1. Rank(q, now, j) >= Cardinality(U) - MaxSize
            /\ ~ (Rank(q, now, i) >= Cardinality(U) - MaxSize)
        BY <2>2 DEF Survivors, Rank
      <4>2. Rank(q, now, i) \in Int /\ Rank(q, now, j) \in Int
        BY <1>0, <3>1, Ranks
      <4> HIDE DEF U
      <4> QED BY <1>0, <1>4, <4>1, <4>2
    <3>3. ~ GoesBefore(q, j, i)
      <4>1. GoesBefore(q, j, i) => Rank(q, now, j) < Rank(q, now, i)
        BY <1>0, <3>1, Ranks
      <4>2. Rank(q, now, i) \in Int /\ Rank(q, now, j) \in Int
        BY <1>0, <3>1, Ranks
      <4> QED BY <3>2, <4>1, <4>2
    <3>4. GoesBefore(q, i, j)
      BY <1>0, <2>2, <3>1, <3>3, Ranks
    <3>5. q[i].prio = q[j].prio /\ i < j => q[i].arrival < q[j].arrival
      BY <1>0, <3>1, EntryFields DEF Sound, Ordered
    <3>6. /\ q[i].prio \in Int /\ q[i].arrival \in Nat
          /\ q[j].prio \in Int /\ q[j].arrival \in Nat
      BY <1>0, <3>1, EntryFields
    <3> QED BY <3>4, <3>5, <3>6 DEF GoesBefore, Better
  <2>3. \A a \in At(q, U) \ At(q, K), b \in At(q, K) : Better(b, a)
    <3> SUFFICES ASSUME NEW a \in At(q, U) \ At(q, K), NEW b \in At(q, K) PROVE Better(b, a)
      OBVIOUS
    <3>1. PICK i \in U : a = q[i]
      BY DEF At
    <3>2. PICK j \in K : b = q[j]
      BY DEF At
    <3>3. i \notin K
      BY <3>1 DEF At
    <3> QED BY <2>2, <3>1, <3>2, <3>3
  <2> HIDE DEF U, K
  <2> QED BY <1>1, <1>2, <1>4, <1>5, <1>6, <1>8, <2>1, <2>3 DEF TrimsAt
<1> QED BY <1>7, <1>8

(* PriorityBuffer counts as this module does. *)
LEMMA SameCount == \A S : Buffer!Cardinality(S) = Cardinality(S)
BY DEF Buffer!Cardinality, Cardinality

LEMMA SameTrims ==
  ASSUME NEW H, NEW K
  PROVE  Buffer!Trims(H, K) <=> TrimsAt(H, K, clock)
BY SameCount DEF Buffer!Trims, Buffer!Current, Buffer!Outweighs, TrimsAt, CurrentAt, Better

LEMMA HeldIsAll == Held = All(entries) /\ Held' = All(entries')
BY DEF Held, All, At

(* Put is the acceptance of one message. *)
LEMMA PutAccepts ==
  ASSUME QueueInv, WithinLimit, PutInsert
  PROVE  Buffer!Accept
<1> DEFINE e == [prio |-> putting[1].prio,
                 outdatedAt |-> clock + putting[1].age,
                 arrival |-> arrivals]
<1>1. entries \in Seq(Entry) /\ Len(entries) \in Nat /\ arrivals \in Nat /\ clock \in Nat
  BY QueueAssumption, LenProperties DEF QueueInv, TypeOK
<1>2. putting[1].prio \in Prios /\ putting[1].age \in Ages
  BY PutEntry
<1>3. e \in Entry /\ e.arrival = arrivals
  BY PutEntry
<1>4. PICK k \in InsertPositions(entries, e.prio) :
        LET q == InsertAt(entries, k, e)
        IN entries' \in IF Len(q) > PruneAbove THEN PrunedQueues(q, clock, MaxSize) ELSE {q}
  BY DEF PutInsert, Inserted
<1> DEFINE q == InsertAt(entries, k, e)
<1> HIDE DEF e, q
<1>5. Sound(q, arrivals + 1)
  BY <1>1, <1>3, InsertIsSound DEF q, QueueInv
<1>6. All(q) = All(entries) \cup {e}
  <2>1. k \in 0 .. Len(entries)
    BY DEF InsertPositions
  <2> QED BY <1>1, <1>3, <2>1, InsertAdds DEF q
<1>7. All(entries') = All(q) \/ TrimsAt(All(q), All(entries'), clock)
  <2>1. CASE Len(q) > PruneAbove
    <3>1. entries' \in PrunedQueues(q, clock, MaxSize)
      BY <1>4, <2>1 DEF q
    <3>2. arrivals + 1 \in Nat
      BY <1>1
    <3> QED BY <1>1, <1>5, <3>1, <3>2, PruneTrims
  <2>2. CASE ~ Len(q) > PruneAbove
    <3>1. entries' = q
      BY <1>4, <2>2 DEF q
    <3> QED BY <3>1
  <2> QED BY <2>1, <2>2
<1>8. Cardinality(All(entries')) <= PruneAbove
  <2>1. Sound(entries', arrivals') /\ Len(entries') <= PruneAbove
    BY StepQueueInv DEF Next, QueueInv, WithinLimit
  <2>2. Cardinality(All(entries')) = Len(entries')
    BY <2>1, CountAll
  <2> QED BY <2>1, <2>2
<1>9. e = [prio |-> putting[1].prio,
           outdatedAt |-> clock + putting[1].age,
           arrival |-> arrivals]
  BY DEF e
<1>10. /\ arrivals' = arrivals + 1 /\ UNCHANGED <<clock, popped>>
  BY DEF PutInsert
<1> QED
  <2> DEFINE H == Held \cup {e}
  <2>1. /\ Held' = H \/ Buffer!Trims(H, Held')
        /\ Buffer!Cardinality(Held') <= PruneAbove
    BY <1>6, <1>7, <1>8, HeldIsAll, SameTrims, SameCount
  <2> QED
    BY <1>2, <1>9, <1>10, <2>1 DEF Buffer!Accept

(* PopFirst hands out the first of the current messages in the order of    *)
(* urgency and arrival, or finds none.                                     *)
LEMMA PopDelivers ==
  ASSUME QueueInv, PopFirst
  PROVE  Buffer!Deliver \/ Buffer!DeliverNothing
<1>1. Sound(entries, arrivals) /\ arrivals \in Nat /\ clock \in Nat /\ entries \in Seq(Entry)
  BY QueueAssumption DEF QueueInv, TypeOK
<1>2. PICK q \in StrippedQueues(entries, clock) :
        IF q = <<>> THEN entries' = <<>> /\ popped' = <<>>
                    ELSE entries' = Tail(q) /\ popped' = <<Head(q)>>
  BY DEF PopFirst
<1>3. Sound(q, arrivals)
  BY <1>1, <1>2, StripIsSound
<1>4. /\ ExpiresAt(All(entries), All(q), clock)
      /\ q # <<>> => q[1].outdatedAt >= clock
      /\ q = <<>> => CurrentAt(All(entries), clock) = {}
  BY <1>1, <1>2, StripExpires
<1>5. UNCHANGED <<clock, arrivals>>
  BY DEF PopFirst
<1>6. CASE q = <<>>
  <2>1. popped' = <<>> /\ All(entries') = {}
    BY <1>2, <1>6 DEF All, At
  <2> QED
    BY <1>4, <1>5, <1>6, <2>1, HeldIsAll DEF Buffer!DeliverNothing, Buffer!Current, CurrentAt
<1>7. CASE q # <<>>
  <2> DEFINE e == q[1]
  <2>1. entries' = Tail(q) /\ popped' = <<e>>
    BY <1>2, <1>3, <1>7, HeadTailProperties DEF Sound
  <2>2. /\ Len(q) \in Nat \ {0}
        /\ Len(Tail(q)) = Len(q) - 1
        /\ \A i \in 1 .. Len(Tail(q)) : Tail(q)[i] = q[i+1]
    BY <1>3, <1>7, HeadTailProperties, LenProperties, EmptySeq DEF Sound
  <2>3. e \in All(q)
    BY <2>2 DEF All, At
  <2>4. e \in CurrentAt(All(entries), clock)
    BY <1>4, <1>7, <2>3 DEF ExpiresAt, CurrentAt
  <2>5. All(Tail(q)) = All(q) \ {e}
    <3>1. ASSUME NEW i \in 1 .. Len(Tail(q)) PROVE Tail(q)[i] \in All(q) \ {e}
      <4>1. i + 1 \in 1 .. Len(q) /\ 1 \in 1 .. Len(q) /\ i + 1 # 1
        BY <2>2
      <4>2. q[i + 1] # q[1]
        BY <1>3, <4>1, PlacesDiffer
      <4> QED BY <2>2, <4>1, <4>2 DEF All, At
    <3>2. ASSUME NEW x \in All(q) \ {e} PROVE x \in All(Tail(q))
      <4>1. PICK j \in 1 .. Len(q) : x = q[j]
        BY DEF All, At
      <4>2. j # 1
        BY <4>1
      <4>3. j - 1 \in 1 .. Len(Tail(q)) /\ (j - 1) + 1 = j
        BY <2>2, <4>2
      <4> QED BY <2>2, <4>1, <4>3 DEF All, At
    <3>3. All(Tail(q)) \subseteq All(q) \ {e}
      BY <3>1 DEF All, At
    <3> QED BY <3>2, <3>3
  <2>6. ASSUME NEW x \in CurrentAt(All(entries), clock) \ {e}
        PROVE  Buffer!Precedes(e, x)
    <3>1. x \in All(q)
      BY <1>4 DEF ExpiresAt
    <3>2. PICK j \in 1 .. Len(q) : x = q[j]
      BY <3>1 DEF All, At
    <3>3. 1 \in 1 .. Len(q) /\ 1 < j
      BY <2>2, <3>2
    <3> QED BY <1>3, <3>2, <3>3 DEF Buffer!Precedes, Sound, Ordered
  <2>7. ExpiresAt(All(entries) \ {e}, All(entries'), clock)
    BY <1>4, <2>1, <2>5 DEF ExpiresAt, CurrentAt
  <2>8. e \notin All(entries')
    BY <2>1, <2>5
  <2> HIDE DEF e
  <2>9. Buffer!Deliver
    <3>1. Buffer!Current(Held) = CurrentAt(All(entries), clock)
      BY HeldIsAll DEF Buffer!Current, CurrentAt
    <3>2. Buffer!Expires(Held \ {e}, Held')
      BY <2>7, HeldIsAll DEF Buffer!Expires, Buffer!Current, ExpiresAt, CurrentAt
    <3> QED BY <1>5, <2>1, <2>4, <2>6, <2>8, <3>1, <3>2, HeldIsAll DEF Buffer!Deliver
  <2> QED BY <2>9
<1> QED BY <1>6, <1>7

(* Every step of the queue is a step of the buffer, or changes nothing the *)
(* buffer shows.                                                           *)
LEMMA StepBuffer ==
  ASSUME QueueInv, WithinLimit, [Next]_vars
  PROVE  [Buffer!Next]_(Buffer!bufferVars)
<1>1. Sound(entries, arrivals) /\ arrivals \in Nat /\ clock \in Nat
  BY QueueAssumption DEF QueueInv, TypeOK
<1>2. CASE PutInsert
  BY <1>2, PutAccepts DEF Buffer!Next
<1>3. CASE PopFirst
  BY <1>3, PopDelivers DEF Buffer!Next
<1>4. CASE PeekFirst
  <2>1. ExpiresAt(All(entries), All(entries'), clock)
    BY <1>1, <1>4, StripExpires DEF PeekFirst
  <2>2. UNCHANGED <<clock, arrivals, popped>>
    BY <1>4 DEF PeekFirst
  <2>3. Buffer!Shrink
    BY <2>1, <2>2, HeldIsAll DEF Buffer!Shrink, Buffer!Expires, Buffer!Current, ExpiresAt, CurrentAt
  <2> QED BY <2>3 DEF Buffer!Next
<1>5. CASE GetQueueDump
  <2>1. TrimsAt(All(entries), All(entries'), clock)
    BY <1>1, <1>5, PruneTrims DEF GetQueueDump
  <2>2. UNCHANGED <<clock, arrivals, popped>>
    BY <1>5 DEF GetQueueDump
  <2>3. Buffer!Shrink
    BY <2>1, <2>2, HeldIsAll, SameTrims DEF Buffer!Shrink
  <2> QED BY <2>3 DEF Buffer!Next
<1>6. CASE Tick
  BY <1>6 DEF Tick, Buffer!Next, Buffer!Advance, Held
<1>7. CASE \/ \E prio \in Prios, age \in Ages : PutCheck(prio, age)
           \/ ReceiveDataAvailable \/ Close \/ UNCHANGED vars
  <2>1. UNCHANGED <<clock, entries, arrivals, popped>>
    BY <1>7 DEF PutCheck, ReceiveDataAvailable, Close, vars
  <2> QED BY <2>1 DEF Buffer!bufferVars, Held
<1> QED BY <1>2, <1>3, <1>4, <1>5, <1>6, <1>7 DEF Next

(***************************************************************************)
(* A MessageQueue keeps what PriorityBuffer promises sendMsg and the       *)
(* writers: each PopFirst hands out the most urgent message that is still  *)
(* current, the oldest of its priority, and a current message is lost only *)
(* when the queue is pruned, the least urgent and oldest first.            *)
(***************************************************************************)
THEOREM ImplementsBuffer == Spec => BufferSpec
<1>1. Init => Buffer!Init
  BY DEF Init, Buffer!Init, Held
<1>2. QueueInv /\ WithinLimit /\ [Next]_vars => [Buffer!Next]_(Buffer!bufferVars)
  BY StepBuffer
<1> QED
  BY <1>1, <1>2, InitQueueInv, StepQueueInv, PTL DEF Spec, BufferSpec, Buffer!Spec
-----------------------------------------------------------------------------
(***************************************************************************)
(* Induction over the numbers, for sets: a set with 0 and every successor  *)
(* is all of Nat.  If n were missing, adding 1 would map the members up to *)
(* n into themselves, one to one but never to 0, and they are finitely     *)
(* many.                                                                   *)
(***************************************************************************)
LEMMA SetInduction ==
  ASSUME NEW S \in SUBSET Nat, 0 \in S, \A n \in S : n + 1 \in S
  PROVE  S = Nat
<1> SUFFICES ASSUME NEW n \in Nat, n \notin S PROVE FALSE
  OBVIOUS
<1> DEFINE A == S \cap (0 .. n)
           f == [i \in A |-> i + 1]
<1>1. IsFiniteSet(A)
  <2>1. 0 \in Int /\ n \in Int
    OBVIOUS
  <2>2. IsFiniteSet(0 .. n)
    BY <2>1, FS_Interval
  <2>3. A \subseteq 0 .. n
    OBVIOUS
  <2> QED BY <2>2, <2>3, FS_Subset
<1>2. /\ \A i \in A : i + 1 \in A /\ i \in Nat
      /\ 0 \in A
  OBVIOUS
<1> HIDE DEF A
<1>3. f \in Injection(A, A)
  BY <1>2 DEF Injection, IsInjective
<1>4. f \in Surjection(A, A)
  <2> HIDE DEF f
  <2> QED BY <1>1, <1>3, FS_Injection
<1>5. \E i \in A : f[i] = 0
  <2> HIDE DEF f
  <2> QED BY <1>2, <1>4 DEF Surjection
<1> QED BY <1>2, <1>5

(* A set of numbers that is not empty has a least member. *)
LEMMA LeastMember ==
  ASSUME NEW S \in SUBSET Nat, S # {}
  PROVE  \E m \in S : \A i \in S : m <= i
<1> SUFFICES ASSUME \A m \in S : \E i \in S : ~ (m <= i) PROVE FALSE
  OBVIOUS
<1> DEFINE Free == {n \in Nat : \A i \in 0 .. n : i \notin S}
<1>1. 0 \in Free
  <2>1. 0 \notin S
    OBVIOUS
  <2> QED BY <2>1
<1>2. ASSUME NEW n \in Free PROVE n + 1 \in Free
  <2>1. n + 1 \notin S
    <3>1. ASSUME n + 1 \in S PROVE FALSE
      <4>1. PICK i \in S : ~ (n + 1 <= i)
        BY <3>1
      <4>2. i \in 0 .. n
        BY <4>1
      <4> QED BY <4>2
    <3> QED BY <3>1
  <2> QED BY <2>1
<1>3. Free = Nat
  <2> HIDE DEF Free
  <2>1. Free \in SUBSET Nat
    BY DEF Free
  <2> QED BY <1>1, <1>2, <2>1, SetInduction
<1>4. PICK s : s \in S
  OBVIOUS
<1> QED BY <1>3, <1>4

(* sort.Search has one answer on a slice in order of priority: the first  *)
(* place whose successor is less urgent.                                   *)
LEMMA OneInsertPosition ==
  ASSUME NEW q, NEW n, Sound(q, n), NEW prio \in Int
  PROVE  \E k : InsertPositions(q, prio) = {k}
<1>1. q \in Seq(Entry) /\ Len(q) \in Nat /\ \A i \in 1 .. Len(q) : q[i].prio \in Int
  <2>1. q \in Seq(Entry) /\ Len(q) \in Nat
    BY LenProperties DEF Sound
  <2> QED BY <2>1, EntryFields
<1> DEFINE S == {k \in 0 .. Len(q) : k < Len(q) => q[k+1].prio > prio}
<1>2. PICK k \in S : \A i \in S : k <= i
  <2>1. S \subseteq Nat /\ Len(q) \in S
    BY <1>1
  <2> HIDE DEF S
  <2> QED BY <2>1, LeastMember
<1>3. k > 0 => q[k].prio <= prio
  <2> SUFFICES ASSUME k > 0, ~ (q[k].prio <= prio) PROVE FALSE
    OBVIOUS
  <2>1. k - 1 \in 0 .. Len(q) /\ (k - 1) + 1 = k /\ k \in 1 .. Len(q)
    BY <1>1
  <2>2. k - 1 \in S
    BY <1>1, <2>1
  <2> QED BY <1>2, <2>1, <2>2
<1>4. k \in InsertPositions(q, prio)
  BY <1>3 DEF InsertPositions
<1>5. ASSUME NEW i \in InsertPositions(q, prio) PROVE i = k
  <2>1. i \in 0 .. Len(q) /\ (i > 0 => q[i].prio <= prio) /\ (i < Len(q) => q[i+1].prio > prio)
    BY DEF InsertPositions
  <2>2. k <= i
    BY <1>2, <2>1
  <2>3. ASSUME k < i PROVE FALSE
    <3>1. i \in 1 .. Len(q) /\ k + 1 \in 1 .. Len(q) /\ k < Len(q)
      BY <1>1, <2>1, <2>3
    <3>2. q[k + 1].prio > prio /\ q[i].prio <= prio
      BY <2>1, <2>3, <3>1
    <3>3. k + 1 < i => q[k + 1].prio <= q[i].prio
      BY <1>1, <3>1 DEF Sound, Ordered
    <3> QED BY <1>1, <2>1, <2>3, <3>1, <3>2, <3>3
  <2> QED BY <2>1, <2>2, <2>3
<1> QED BY <1>4, <1>5

(* The loop of StripOutdatedMessages stops at one place. *)
LEMMA OneStripped ==
  ASSUME NEW q \in Seq(Entry), NEW now
  PROVE  \E r : StrippedQueues(q, now) = {r}
<1> DEFINE J == {j \in 0 .. Len(q) : /\ \A i \in 1 .. j : Outdated(q[i], now)
                                     /\ j < Len(q) => ~ Outdated(q[j+1], now)}
           S == {j \in 0 .. Len(q) : j < Len(q) => ~ Outdated(q[j+1], now)}
<1>1. Len(q) \in Nat
  BY LenProperties
<1>2. PICK k \in S : \A i \in S : k <= i
  <2>1. S \subseteq Nat /\ Len(q) \in S
    BY <1>1
  <2> HIDE DEF S
  <2> QED BY <2>1, LeastMember
<1>3. ASSUME NEW i \in 1 .. k PROVE Outdated(q[i], now)
  <2>1. i - 1 \in 0 .. Len(q) /\ (i - 1) + 1 = i /\ i - 1 < Len(q) /\ i - 1 < k
    BY <1>1
  <2>2. i - 1 \notin S
    BY <1>1, <1>2, <2>1
  <2> QED BY <2>1, <2>2
<1>4. k \in J
  BY <1>3
<1>5. ASSUME NEW j \in J PROVE j = k
  <2>1. k <= j
    BY <1>2
  <2>2. ASSUME k < j PROVE FALSE
    <3>1. k + 1 \in 1 .. j /\ k < Len(q)
      BY <1>1, <2>2
    <3> QED BY <3>1
  <2> QED BY <1>1, <2>1, <2>2
<1>6. J = {k}
  BY <1>4, <1>5
<1> DEFINE Cut(j) == SubSeq(q, j+1, Len(q))
<1>7. StrippedQueues(q, now) = {Cut(j) : j \in J}
  BY DEF StrippedQueues
<1> HIDE DEF J, Cut
<1>8. StrippedQueues(q, now) = {Cut(k)}
  BY <1>6, <1>7
<1> QED BY <1>8

(* A finite set of numbers has one increasing enumeration: the place of    *)
(* each is how many there are up to it.                                    *)
LEMMA OneEnumeration ==
  ASSUME NEW K \in SUBSET Nat, IsFiniteSet(K)
  PROVE  \E f : Enumerations(K) = {f}
<1> DEFINE c == Cardinality(K)
           UpTo(x) == {y \in K : y <= x}
           place == [x \in K |-> Cardinality(UpTo(x))]
<1>1. c \in Nat
  BY FS_CardinalityType
<1>2. ASSUME NEW x \in K
      PROVE  IsFiniteSet(UpTo(x)) /\ place[x] \in 1 .. c
  <2>1. UpTo(x) \subseteq K /\ x \in UpTo(x)
    OBVIOUS
  <2>2. IsFiniteSet(UpTo(x)) /\ Cardinality(UpTo(x)) <= c
    BY <2>1, FS_Subset
  <2>3. Cardinality(UpTo(x)) \in Nat /\ Cardinality(UpTo(x)) # 0
    BY <2>1, <2>2, FS_CardinalityType, FS_EmptySet
  <2>4. place[x] = Cardinality(UpTo(x))
    OBVIOUS
  <2> HIDE DEF UpTo, place, c
  <2> QED BY <1>1, <2>2, <2>3, <2>4
<1>3. ASSUME NEW x \in K, NEW y \in K, x < y PROVE place[x] < place[y]
  <2>1. UpTo(x) \subseteq UpTo(y) /\ y \in UpTo(y) /\ y \notin UpTo(x)
    <3>1. x \in Nat /\ y \in Nat /\ \A z \in K : z \in Nat
      OBVIOUS
    <3>2. \A z \in K : z <= x => z <= y
      BY <1>3, <3>1
    <3>3. y <= y /\ ~ (y <= x)
      BY <1>3, <3>1
    <3> QED BY <3>2, <3>3
  <2>2. IsFiniteSet(UpTo(y)) /\ place[x] \in Nat /\ place[y] \in Nat
    BY <1>2
  <2>3. /\ Cardinality(UpTo(x)) <= Cardinality(UpTo(y))
        /\ Cardinality(UpTo(x)) # Cardinality(UpTo(y))
    BY <2>1, <2>2, FS_Subset
  <2>4. place[x] = Cardinality(UpTo(x)) /\ place[y] = Cardinality(UpTo(y))
    OBVIOUS
  <2> HIDE DEF UpTo, place
  <2> QED BY <2>2, <2>3, <2>4
<1> HIDE DEF place, UpTo, c
<1>4. \A x, y \in K : place[x] = place[y] => x = y
  <2> SUFFICES ASSUME NEW x \in K, NEW y \in K, place[x] = place[y], x # y PROVE FALSE
    OBVIOUS
  <2>1. x < y \/ y < x
    OBVIOUS
  <2>2. place[x] \in Int /\ place[y] \in Int
    BY <1>2
  <2> QED BY <1>3, <2>1, <2>2
<1>5. place \in Injection(K, 1 .. c)
  <2>1. place \in [K -> 1 .. c]
    BY <1>2 DEF place
  <2> QED BY <1>4, <2>1 DEF Injection, IsInjective
<1>6. IsFiniteSet(1 .. c) /\ Cardinality(1 .. c) = c
  <2>1. c \in Int /\ 1 \in Int /\ (1 > c => c = 0) /\ c - 1 + 1 = c
    BY <1>1
  <2> QED BY <2>1, FS_Interval
<1>7. place \in Surjection(K, 1 .. c)
  BY <1>5, <1>6, FS_Injection DEF c
<1> DEFINE f == [a \in 1 .. c |-> CHOOSE x \in K : place[x] = a]
<1>8. ASSUME NEW a \in 1 .. c PROVE f[a] \in K /\ place[f[a]] = a
  BY <1>7 DEF Surjection
<1>9. ASSUME NEW x \in K PROVE place[x] \in 1 .. c /\ f[place[x]] = x
  BY <1>2, <1>4, <1>8
<1>10. f \in Enumerations(K)
  <2>1. f \in [1 .. c -> K]
    BY <1>8
  <2> HIDE DEF f
  <2>2. ASSUME NEW a \in 1 .. c, NEW b \in 1 .. c, a < b PROVE f[a] < f[b]
    <3>1. /\ f[a] \in K /\ f[b] \in K /\ place[f[a]] = a /\ place[f[b]] = b
          /\ f[a] \in Nat /\ f[b] \in Nat
      BY <1>8
    <3>2. f[a] # f[b]
      BY <2>2, <3>1
    <3>3. ~ (f[b] < f[a])
      BY <1>1, <1>3, <2>2, <3>1
    <3> QED BY <3>1, <3>2, <3>3
  <2> QED BY <2>1, <2>2 DEF Enumerations, c
<1>11. ASSUME NEW g \in Enumerations(K) PROVE g = f
  <2>1. g \in [1 .. c -> K] /\ \A a, b \in 1 .. c : a < b => g[a] < g[b]
    BY DEF Enumerations, c
  <2>2. \A a \in 1 .. c : g[a] \in Nat
    BY <2>1
  <2>3. \A a, b \in 1 .. c : g[a] <= g[b] <=> a <= b
    BY <1>1, <2>1, <2>2
  <2>4. g \in Injection(1 .. c, K)
    <3>1. \A a, b \in 1 .. c : g[a] = g[b] => a = b
      BY <1>1, <2>2, <2>3
    <3> QED BY <2>1, <3>1 DEF Injection, IsInjective
  <2>5. g \in Surjection(1 .. c, K)
    BY <1>6, <2>4, FS_Injection DEF c
  <2>6. ASSUME NEW a \in 1 .. c PROVE place[g[a]] = a
    <3> DEFINE h == [b \in 1 .. a |-> g[b]]
               U == UpTo(g[a])
    <3>1. h \in Bijection(1 .. a, U)
      <4>1. \A b \in 1 .. a : b \in 1 .. c /\ g[b] \in U
        BY <1>1, <2>1, <2>3 DEF UpTo
      <4>2. \A x \in U : \E b \in 1 .. a : g[b] = x
        BY <1>1, <2>3, <2>5 DEF UpTo, Surjection
      <4>3. \A b, d \in 1 .. a : h[b] = h[d] => b = d
        BY <2>4, <4>1 DEF Injection, IsInjective
      <4>4. h \in [1 .. a -> U] /\ \A x \in U : \E b \in 1 .. a : h[b] = x
        BY <4>1, <4>2
      <4> HIDE DEF h, U
      <4> QED BY <4>3, <4>4 DEF Bijection, Injection, IsInjective, Surjection
    <3>2. IsFiniteSet(1 .. a) /\ Cardinality(1 .. a) = a
      <4>1. a \in Int /\ 1 \in Int /\ ~ 1 > a /\ a - 1 + 1 = a
        BY <1>1
      <4> QED BY <4>1, FS_Interval
    <3>3. Cardinality(U) = a
      <4> HIDE DEF h, U
      <4> QED BY <3>1, <3>2, FS_Bijection DEF ExistsBijection
    <3> QED BY <2>1, <3>3 DEF place
  <2>7. \A a \in 1 .. c : g[a] = f[a]
    BY <1>9, <2>1, <2>6
  <2> QED BY <2>1, <2>7
<1> HIDE DEF f
<1> QED BY <1>10, <1>11

(* PruneOutdatedMessages leaves one slice: the survivors, in their order. *)
LEMMA OnePruned ==
  ASSUME NEW q \in Seq(Entry), NEW now, NEW max
  PROVE  \E r : PrunedQueues(q, now, max) = {r}
<1> DEFINE K == Survivors(q, now, max)
<1>1. K \subseteq 1 .. Len(q) /\ Len(q) \in Nat
  BY LenProperties DEF Survivors, Usable
<1>2. IsFiniteSet(K) /\ K \in SUBSET Nat
  <2>1. IsFiniteSet(1 .. Len(q))
    BY <1>1, FS_Interval
  <2> QED BY <1>1, <2>1, FS_Subset
<1> HIDE DEF K
<1>3. PICK f : Enumerations(K) = {f}
  BY <1>2, OneEnumeration
<1> DEFINE Listed(g) == [a \in DOMAIN g |-> q[g[a]]]
<1>4. PrunedQueues(q, now, max) = {Listed(g) : g \in Enumerations(K)}
  BY DEF PrunedQueues, K
<1> HIDE DEF Listed
<1>5. PrunedQueues(q, now, max) = {Listed(f)}
  BY <1>3, <1>4
<1> QED BY <1>5

(***************************************************************************)
(* Whatever is put, stripped or pruned next, one slice can come of it: the *)
(* model, which describes the results of messagequeue.go's loops and of    *)
(* sort.Search by what is true of them, leaves no choice and never blocks. *)
(***************************************************************************)
OneOutcome ==
  /\ \A prio \in Prios, age \in Ages :
       LET e == [prio |-> prio, outdatedAt |-> clock + age, arrival |-> arrivals]
       IN  /\ Cardinality(Inserted(e)) = 1
           /\ \A q \in Inserted(e) : Cardinality(PrunedQueues(q, clock, MaxSize)) = 1
  /\ Cardinality(StrippedQueues(entries, clock)) = 1
  /\ Cardinality(PrunedQueues(entries, clock, MaxSize)) = 1

(* A set of one member has cardinality 1. *)
LEMMA OneMember == ASSUME NEW S, \E x : S = {x} PROVE Cardinality(S) = 1
BY FS_Singleton

(* In a queue that is in order each operation has one outcome. *)
LEMMA InvOneOutcome == QueueInv => OneOutcome
<1> SUFFICES ASSUME QueueInv PROVE OneOutcome
  OBVIOUS
<1>1. Sound(entries, arrivals) /\ arrivals \in Nat /\ clock \in Nat /\ entries \in Seq(Entry)
  BY QueueAssumption DEF QueueInv, TypeOK
<1>2. ASSUME NEW prio \in Prios, NEW age \in Ages, NEW e,
             e = [prio |-> prio, outdatedAt |-> clock + age, arrival |-> arrivals]
      PROVE  /\ Cardinality(Inserted(e)) = 1
             /\ \A q \in Inserted(e) : Cardinality(PrunedQueues(q, clock, MaxSize)) = 1
  <2>1. e \in Entry /\ e.prio \in Int
    <3>1. age \in Nat /\ prio \in Int
      BY QueueAssumption
    <3>2. clock + age \in Nat
      BY <1>1, <3>1
    <3> QED BY <1>1, <1>2, <3>1, <3>2 DEF Entry
  <2>2. PICK k : InsertPositions(entries, e.prio) = {k}
    BY <1>1, <2>1, OneInsertPosition
  <2>3. Inserted(e) = {InsertAt(entries, k, e)}
    BY <2>2 DEF Inserted
  <2>4. k \in 0 .. Len(entries)
    BY <2>2 DEF InsertPositions
  <2> DEFINE q == InsertAt(entries, k, e)
  <2> HIDE DEF q
  <2>5. q \in Seq(Entry)
    BY <1>1, <2>1, <2>4, InsertPlaces DEF q
  <2>6. Inserted(e) = {q}
    BY <2>3 DEF q
  <2>7. Cardinality(PrunedQueues(q, clock, MaxSize)) = 1
    BY <2>5, OnePruned, OneMember
  <2> QED BY <2>6, <2>7, OneMember
<1>3. Cardinality(StrippedQueues(entries, clock)) = 1
  BY <1>1, OneStripped, OneMember
<1>4. Cardinality(PrunedQueues(entries, clock, MaxSize)) = 1
  BY <1>1, OnePruned, OneMember
<1> QED BY <1>2, <1>3, <1>4 DEF OneOutcome

(***************************************************************************)
(* Every operation on the queue always has exactly one outcome.  It rests  *)
(* on the queue being in order: in one that is not, sort.Search may have   *)
(* several answers or miss the place.                                      *)
(***************************************************************************)
THEOREM OperationsDetermined == Spec => []OneOutcome
  BY InitQueueInv, StepQueueInv, InvOneOutcome, PTL DEF Spec
=============================================================================
