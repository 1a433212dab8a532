-------------------------- MODULE HobbsMeterProofs --------------------------
(***************************************************************************)
(* The flight log of HobbsMeter for every choice of its times: its types,  *)
(* that the last entry is the open leg, that a log that is not dirty is on *)
(* the card, that a flight that is over and saved stays as it is, that a   *)
(* power cut costs at most a save interval, that a file that does not      *)
(* parse is never replaced, and that the total minutes never go back.      *)
(* HobbsInv is inductive for the first three; the loss needs to know       *)
(* besides how many seconds the card is behind and that all earlier legs   *)
(* are on it, and the bad file that the log of a run that met it is        *)
(* read-only.                                                              *)
(***************************************************************************)
EXTENDS HobbsMeter, SequenceTheorems, FiniteSetTheorems, TLAPS

HobbsInv == TypeOK /\ OpenLeg /\ CleanIsSaved

-----------------------------------------------------------------------------
(* The minutes of a number of seconds are a natural number. *)
LEMMA WholeMinutes ==
  ASSUME NEW s \in Nat
  PROVE  s \div Minute \in Nat
  BY HobbsAssumption

(* What update may make of a typed log: one entry more... *)
LEMMA AppendedLog ==
  ASSUME NEW log \in Seq(Entry), NEW e \in Entry
  PROVE  /\ Append(log, e) \in Seq(Entry)
         /\ Len(Append(log, e)) = Len(log) + 1
         /\ Append(log, e)[Len(log) + 1] = e
         /\ \A i \in 1 .. Len(log) : Append(log, e)[i] = log[i]
  BY AppendProperties

(* ...the last entry changed... *)
LEMMA ChangedLog ==
  ASSUME NEW log \in Seq(Entry), log # <<>>, NEW e \in Entry
  PROVE  LET r == [log EXCEPT ![Len(log)] = e]
         IN  /\ r \in Seq(Entry)
             /\ Len(r) = Len(log)
             /\ r # <<>>
             /\ r[Len(log)] = e
             /\ \A i \in 1 .. Len(log) - 1 : r[i] = log[i]
<1> DEFINE r == [log EXCEPT ![Len(log)] = e]
<1>1. Len(log) \in 1 .. Len(log) /\ Len(log) \in Nat \ {0}
  BY EmptySeq
<1>2. /\ r \in Seq(Entry)
      /\ Len(r) = Len(log)
      /\ \A j \in 1 .. Len(log) : r[j] = IF j = Len(log) THEN e ELSE log[j]
  BY <1>1, ExceptSeq
<1>3. r # <<>>
  BY <1>1, <1>2, EmptySeq
<1> HIDE DEF r
<1>4. r[Len(log)] = e /\ \A i \in 1 .. Len(log) - 1 : r[i] = log[i]
  BY <1>1, <1>2
<1> QED
  BY <1>2, <1>3, <1>4 DEF r

(* ...or the last entry less. *)
LEMMA ShortenedLog ==
  ASSUME NEW log \in Seq(Entry), log # <<>>
  PROVE  /\ Front(log) \in Seq(Entry)
         /\ Len(Front(log)) = Len(log) - 1
         /\ \A i \in 1 .. Len(log) - 1 : Front(log)[i] = log[i]
<1>1. Len(log) \in Nat \ {0}
  BY EmptySeq
<1>2. \A i \in 1 .. Len(log) - 1 : log[i] \in Entry
  BY <1>1, ElementOfSeq
<1> DEFINE n == Len(log) - 1
           r == SubSeq(log, 1, n)
<1>3. n \in Nat
  BY <1>1
<1> HIDE DEF n
<1>4. /\ r \in Seq(Entry)
      /\ Len(r) = IF 1 <= n THEN n - 1 + 1 ELSE 0
      /\ \A i \in 1 .. n - 1 + 1 : r[i] = log[1 + i - 1]
  BY <1>2, <1>3, SubSeqProperties DEF n
<1> HIDE DEF r
<1>5. Len(r) = n /\ \A i \in 1 .. n : r[i] = log[i]
  BY <1>3, <1>4
<1> QED
  BY <1>4, <1>5 DEF Front, n, r

-----------------------------------------------------------------------------
(***************************************************************************)
(* The end of every second: the log is written and is clean, or the card   *)
(* is untouched and the log is as dirty as update left it.                 *)
(***************************************************************************)
CardStep(d) ==
  /\ sinceSave' \in 0 .. SaveInterval - 1
  /\ saveFailed' \in BOOLEAN
  /\ \/ ~ readOnly /\ file' = entries' /\ garbled' = FALSE /\ dirty' = FALSE
     \/ UNCHANGED disk /\ dirty' = d

(* Flush does one or the other. *)
LEMMA FlushWritesOrNot ==
  ASSUME TypeOK, NEW landed \in BOOLEAN, NEW d \in BOOLEAN, Flush(landed, d)
  PROVE  CardStep(d)
<1>1. sinceSave' \in 0 .. SaveInterval - 1
  <2>1. sinceSave' = IF sinceSave + 1 >= SaveInterval THEN 0 ELSE sinceSave + 1
    BY DEF Flush
  <2> QED
    BY <2>1, HobbsAssumption DEF TypeOK
<1>2. \/ SaveDone
      \/ SaveFails(d)
      \/ dirty' = d /\ UNCHANGED <<disk, saveFailed>>
  BY DEF Flush
<1>3. CASE SaveDone
  BY <1>1, <1>3 DEF SaveDone, CardStep
<1>4. CASE SaveFails(d)
  BY <1>1, <1>4 DEF SaveFails, CardStep
<1>5. CASE dirty' = d /\ UNCHANGED <<disk, saveFailed>>
  BY <1>1, <1>5 DEF CardStep, TypeOK
<1> QED
  BY <1>2, <1>3, <1>4, <1>5

(* The legs before the open one, as many as are over. *)
Over == IF flying THEN Len(entries) - 1 ELSE Len(entries)

(***************************************************************************)
(* What a second does to the log in memory: it stays typed and pointed at  *)
(* the open leg, the legs that are over stay, and a change makes it dirty. *)
(***************************************************************************)
LogStep(d) ==
  /\ entries' \in Seq(Entry) /\ Len(entries') <= MaxFlights
  /\ flying' \in BOOLEAN
  /\ legSeconds' \in 0 .. MaxLeg
  /\ above' \in 0 .. TakeoffDebounce
  /\ below' \in 0 .. LandingDebounce - 1
  /\ OpenLeg'
  /\ Over <= Len(entries') /\ \A i \in 1 .. Over : entries'[i] = entries[i]
  /\ d \in BOOLEAN
  /\ d \/ (~ dirty /\ entries' = entries)
  /\ CardStep(d)

(* Seconds that leave the log alone. *)
LEMMA QuietSecond ==
  ASSUME HobbsInv, NoFix \/ OnGround \/ Accelerate
  PROVE  LogStep(dirty)
<1> USE HobbsAssumption
<1>1. Len(entries) \in Nat /\ Over <= Len(entries)
  BY LenProperties DEF HobbsInv, TypeOK, Over
<1>2. CardStep(dirty)
  <2>1. dirty \in BOOLEAN /\ TypeOK /\ Flush(FALSE, dirty)
    BY DEF HobbsInv, TypeOK, NoFix, OnGround, Accelerate
  <2> QED
    BY <2>1, FlushWritesOrNot
<1>3. UNCHANGED <<entries, flying, legSeconds>>
  BY DEF NoFix, OnGround, Accelerate, Unmoved
<1>4. /\ above' \in 0 .. TakeoffDebounce /\ below' \in 0 .. LandingDebounce - 1
      /\ ~ flying => above' < TakeoffDebounce /\ below' = 0
  <2>1. /\ above \in 0 .. TakeoffDebounce /\ below \in 0 .. LandingDebounce - 1
        /\ ~ flying => above < TakeoffDebounce /\ below = 0
    BY DEF HobbsInv, TypeOK, OpenLeg
  <2>2. \/ above' = above /\ below' = below
        \/ above' = 0 /\ below' = below
        \/ above' = above + 1 /\ above + 1 < TakeoffDebounce /\ below' = 0
    BY DEF NoFix, OnGround, Accelerate
  <2> QED
    BY <2>1, <2>2
<1>5. OpenLeg'
  BY <1>3, <1>4 DEF HobbsInv, OpenLeg
<1> QED
  BY <1>1, <1>2, <1>3, <1>4, <1>5 DEF HobbsInv, TypeOK, LogStep

(* A takeoff appends the open leg. *)
LEMMA TakeOffSecond ==
  ASSUME HobbsInv, TakeOff
  PROVE  LogStep(TRUE)
<1> USE HobbsAssumption
<1> DEFINE e == [minutes |-> (above + 1) \div Minute, landed |-> FALSE]
<1>1. ~ flying /\ above + 1 = TakeoffDebounce /\ above \in Nat
  BY DEF HobbsInv, TypeOK, OpenLeg, TakeOff
<1>2. e \in Entry /\ e.minutes = (above + 1) \div Minute
  BY <1>1, WholeMinutes DEF Entry
<1>3. entries \in Seq(Entry) /\ Len(entries) \in Nat /\ Len(entries) < MaxFlights
  BY LenProperties DEF HobbsInv, TypeOK, TakeOff
<1>4. entries' = Append(entries, e)
  BY DEF TakeOff
<1> HIDE DEF e
<1>5. /\ entries' \in Seq(Entry)
      /\ Len(entries') = Len(entries) + 1
      /\ entries'[Len(entries')] = e
      /\ \A i \in 1 .. Len(entries) : entries'[i] = entries[i]
  BY <1>2, <1>3, <1>4, AppendedLog
<1>6. entries' # <<>> /\ Len(entries') <= MaxFlights
  BY <1>3, <1>5, EmptySeq
<1>7. Over = Len(entries)
  BY <1>1 DEF Over
<1>8. /\ flying' = TRUE /\ legSeconds' = above + 1 /\ above' = above + 1 /\ below' = 0
      /\ Flush(FALSE, TRUE)
  BY DEF TakeOff
<1>9. OpenLeg'
  BY <1>2, <1>5, <1>6, <1>8 DEF OpenLeg
<1>10. CardStep(TRUE)
  BY <1>8, FlushWritesOrNot DEF HobbsInv
<1>11. /\ legSeconds' \in 0 .. MaxLeg /\ above' \in 0 .. TakeoffDebounce
       /\ below' \in 0 .. LandingDebounce - 1
       /\ Over <= Len(entries')
  BY <1>1, <1>3, <1>5, <1>7, <1>8
<1>12. \A i \in 1 .. Over : entries'[i] = entries[i]
  BY <1>5, <1>7
<1> QED
  BY <1>5, <1>6, <1>8, <1>9, <1>10, <1>11, <1>12 DEF LogStep

(* While flying the log has its open leg, whose entry can be changed. *)
LEMMA OpenEntry ==
  ASSUME HobbsInv, flying
  PROVE  /\ entries \in Seq(Entry) /\ entries # <<>>
         /\ Len(entries) \in Nat \ {0} /\ Len(entries) <= MaxFlights
         /\ entries[Len(entries)] \in Entry
         /\ entries[Len(entries)].minutes = legSeconds \div Minute
         /\ Over = Len(entries) - 1
<1>1. /\ entries \in Seq(Entry) /\ entries # <<>> /\ Len(entries) <= MaxFlights
      /\ entries[Len(entries)].minutes = legSeconds \div Minute
      /\ Over = Len(entries) - 1
  BY DEF HobbsInv, TypeOK, OpenLeg, Over
<1>2. Len(entries) \in Nat \ {0}
  BY <1>1, EmptySeq
<1>3. entries[Len(entries)] \in Entry
  BY <1>1, <1>2, ElementOfSeq
<1> QED
  BY <1>1, <1>2, <1>3

(* A second in flight counts into the open leg. *)
LEMMA FlySecond ==
  ASSUME HobbsInv, Fly
  PROVE  LogStep(TRUE)
<1> USE HobbsAssumption
<1> DEFINE e == [entries[Len(entries)] EXCEPT !.minutes = (legSeconds + 1) \div Minute]
<1>1. /\ flying /\ flying' = TRUE /\ legSeconds \in 0 .. MaxLeg /\ legSeconds < MaxLeg
      /\ legSeconds' = legSeconds + 1 /\ below' = 0
      /\ Flush(FALSE, TRUE)
  BY DEF Fly, HobbsInv, TypeOK
<1>2. above' \in 0 .. TakeoffDebounce
  <2>1. above \in 0 .. TakeoffDebounce
    BY DEF HobbsInv, TypeOK
  <2>2. above' = IF above < TakeoffDebounce THEN above + 1 ELSE above
    BY DEF Fly
  <2> QED
    BY <2>1, <2>2
<1>3. legSeconds + 1 \in Nat /\ (legSeconds + 1) \div Minute \in Nat
  BY <1>1, WholeMinutes
<1>4. e \in Entry /\ e.minutes = (legSeconds + 1) \div Minute
  BY <1>1, <1>3, OpenEntry DEF Entry
<1>5. entries' = [entries EXCEPT ![Len(entries)] = e]
  BY DEF Fly
<1> HIDE DEF e
<1>6. /\ entries' \in Seq(Entry)
      /\ Len(entries') = Len(entries)
      /\ entries' # <<>>
      /\ entries'[Len(entries)] = e
      /\ \A i \in 1 .. Len(entries) - 1 : entries'[i] = entries[i]
  BY <1>1, <1>4, <1>5, OpenEntry, ChangedLog
<1>7. OpenLeg'
  BY <1>1, <1>4, <1>6 DEF OpenLeg
<1>8. CardStep(TRUE)
  BY <1>1, FlushWritesOrNot DEF HobbsInv
<1>9. /\ legSeconds' \in 0 .. MaxLeg /\ below' \in 0 .. LandingDebounce - 1
      /\ Over <= Len(entries') /\ Len(entries') <= MaxFlights
  BY <1>1, <1>6, OpenEntry
<1>10. \A i \in 1 .. Over : entries'[i] = entries[i]
  BY <1>1, <1>6, OpenEntry
<1> QED
  BY <1>1, <1>2, <1>6, <1>7, <1>8, <1>9, <1>10 DEF LogStep

(* The landing fields go into the open leg and leave its minutes alone. *)
LEMMA TouchedLog ==
  ASSUME HobbsInv, flying
  PROVE  /\ Touched \in Seq(Entry)
         /\ Len(Touched) = Len(entries)
         /\ Touched # <<>>
         /\ Touched[Len(entries)].minutes = legSeconds \div Minute
         /\ \A i \in 1 .. Len(entries) - 1 : Touched[i] = entries[i]
<1> DEFINE e == [entries[Len(entries)] EXCEPT !.landed = TRUE]
<1>1. CASE below = 0
  <2>1. e \in Entry /\ e.minutes = legSeconds \div Minute
    BY OpenEntry DEF Entry
  <2>2. Touched = [entries EXCEPT ![Len(entries)] = e]
    BY <1>1 DEF Touched
  <2> HIDE DEF e
  <2> QED
    BY <2>1, <2>2, OpenEntry, ChangedLog
<1>2. CASE below # 0
  <2>1. Touched = entries
    BY <1>2 DEF Touched
  <2> QED
    BY <2>1, OpenEntry
<1> QED
  BY <1>1, <1>2

(* A slow second that is not the last of the debounce. *)
LEMMA SlowSecond ==
  ASSUME HobbsInv, SlowDown
  PROVE  LogStep(dirty \/ below = 0)
<1> USE HobbsAssumption
<1>1. /\ flying /\ flying' = flying /\ legSeconds' = legSeconds
      /\ above' = 0 /\ below' = below + 1 /\ below + 1 < LandingDebounce
      /\ entries' = Touched
      /\ legSeconds \in 0 .. MaxLeg /\ below \in 0 .. LandingDebounce - 1
      /\ dirty \in BOOLEAN /\ flying \in BOOLEAN
  BY DEF SlowDown, HobbsInv, TypeOK
<1>2. CardStep(dirty \/ below = 0)
  <2>1. TypeOK /\ (dirty \/ below = 0) \in BOOLEAN /\ Flush(FALSE, dirty \/ below = 0)
    BY DEF SlowDown, HobbsInv
  <2> QED
    BY <2>1, FlushWritesOrNot
<1>3. OpenLeg'
  BY <1>1, TouchedLog DEF OpenLeg
<1>4. /\ below' \in 0 .. LandingDebounce - 1 /\ above' \in 0 .. TakeoffDebounce
      /\ entries' \in Seq(Entry)
      /\ Over <= Len(entries') /\ Len(entries') <= MaxFlights
  BY <1>1, OpenEntry, TouchedLog
<1>5. \A i \in 1 .. Over : entries'[i] = entries[i]
  BY <1>1, OpenEntry, TouchedLog
<1>6. (dirty \/ below = 0) \/ (~ dirty /\ entries' = entries)
  BY <1>1 DEF Touched
<1> QED
  BY <1>1, <1>2, <1>3, <1>4, <1>5, <1>6 DEF LogStep

(* A landing closes the open leg or drops it; the legs before it stay. *)
LEMMA LandSecond ==
  ASSUME HobbsInv, Land
  PROVE  LogStep(TRUE)
<1> USE HobbsAssumption
<1>1. /\ flying /\ flying' = FALSE /\ legSeconds' = 0 /\ above' = 0 /\ below' = 0
      /\ Flush(TRUE, TRUE)
  BY DEF Land
<1>2. \/ entries' = Front(entries)
      \/ entries' = Touched
  BY DEF Land
<1>3. /\ entries' \in Seq(Entry)
      /\ Len(entries') \in {Len(entries), Len(entries) - 1}
      /\ \A i \in 1 .. Len(entries) - 1 : entries'[i] = entries[i]
  <2>1. CASE entries' = Front(entries)
    BY <1>1, <2>1, OpenEntry, ShortenedLog
  <2>2. CASE entries' = Touched
    BY <1>1, <2>2, OpenEntry, TouchedLog
  <2> QED
    BY <1>2, <2>1, <2>2
<1>4. CardStep(TRUE)
  BY <1>1, FlushWritesOrNot DEF HobbsInv
<1>5. OpenLeg'
  BY <1>1 DEF OpenLeg
<1>6. /\ Over <= Len(entries') /\ Len(entries') <= MaxFlights
      /\ 0 \in 0 .. MaxLeg /\ 0 \in 0 .. TakeoffDebounce /\ 0 \in 0 .. LandingDebounce - 1
  BY <1>1, <1>3, OpenEntry
<1>7. \A i \in 1 .. Over : entries'[i] = entries[i]
  BY <1>1, <1>3, OpenEntry
<1> QED
  BY <1>1, <1>3, <1>4, <1>5, <1>6, <1>7 DEF LogStep

-----------------------------------------------------------------------------
(* What is known after a second, whichever way update returned. *)
SecondDone ==
  /\ HobbsInv'
  /\ Over <= Len(entries') /\ \A i \in 1 .. Over : entries'[i] = entries[i]
  /\ \/ ~ readOnly /\ file' = entries' /\ garbled' = FALSE
     \/ UNCHANGED disk

(* A step of the log and of the card keeps the invariant. *)
LEMMA LogStepKeeps ==
  ASSUME HobbsInv, NEW d \in BOOLEAN, LogStep(d),
         listening' \in BOOLEAN, UNCHANGED <<readOnly, enabled, unread>>
  PROVE  SecondDone
<1>1. CardStep(d)
  BY DEF LogStep
<1>2. CASE ~ readOnly /\ file' = entries' /\ garbled' = FALSE /\ dirty' = FALSE
  BY <1>1, <1>2 DEF LogStep, CardStep, SecondDone, HobbsInv, TypeOK, CleanIsSaved
<1>3. CASE UNCHANGED disk /\ dirty' = d
  <2>1. CleanIsSaved'
    BY <1>3 DEF LogStep, HobbsInv, CleanIsSaved, disk
  <2>2. TypeOK'
    BY <1>1, <1>3 DEF LogStep, CardStep, HobbsInv, TypeOK, disk
  <2> QED
    BY <1>3, <2>1, <2>2 DEF LogStep, SecondDone, HobbsInv
<1> QED
  BY <1>1, <1>2, <1>3 DEF CardStep

(* Every second is one of those above. *)
LEMMA SecondKeeps ==
  ASSUME HobbsInv, Second
  PROVE  SecondDone
<1>1. listening' \in BOOLEAN /\ UNCHANGED <<readOnly, enabled, unread>>
  BY DEF Second, HobbsInv, TypeOK
<1>2. CASE NoFix \/ OnGround \/ Accelerate
  <2>1. dirty \in BOOLEAN
    BY DEF HobbsInv, TypeOK
  <2> QED
    BY <1>1, <1>2, <2>1, QuietSecond, LogStepKeeps
<1>3. CASE TakeOff
  BY <1>1, <1>3, TakeOffSecond, LogStepKeeps
<1>4. CASE Fly
  BY <1>1, <1>4, FlySecond, LogStepKeeps
<1>5. CASE SlowDown
  <2>1. LogStep(dirty \/ below = 0)
    BY <1>5, SlowSecond
  <2> QED
    BY <1>1, <2>1, LogStepKeeps
<1>6. CASE Land
  BY <1>1, <1>6, LandSecond, LogStepKeeps
<1> QED
  BY <1>2, <1>3, <1>4, <1>5, <1>6 DEF Second, Update

(* The shutdown saves the log as it is, or leaves everything as it was. *)
LEMMA ShutdownKeeps ==
  ASSUME HobbsInv, Shutdown
  PROVE  HobbsInv' /\ ((~ readOnly /\ file' = entries) \/ UNCHANGED file)
<1>1. /\ UNCHANGED <<entries, flying, legSeconds, above, below, readOnly, sinceSave,
                     unread, listening>>
      /\ enabled' = FALSE
  BY DEF Shutdown, leg
<1>2. OpenLeg'
  BY <1>1 DEF HobbsInv, OpenLeg
<1>3. CASE SaveDone
  BY <1>1, <1>2, <1>3 DEF SaveDone, HobbsInv, TypeOK, CleanIsSaved
<1>4. CASE SaveFails(dirty)
  BY <1>1, <1>2, <1>4 DEF SaveFails, HobbsInv, TypeOK, CleanIsSaved, disk
<1>5. CASE UNCHANGED <<dirty, saveFailed, disk>>
  BY <1>1, <1>2, <1>5 DEF HobbsInv, TypeOK, CleanIsSaved, disk
<1> QED
  BY <1>3, <1>4, <1>5 DEF Shutdown

(* The steps of the world outside, and the next run of the program. *)
LEMMA OutsideKeeps ==
  ASSUME HobbsInv,
         \/ PowerCut \/ BadEdit \/ RepairFile \/ UNCHANGED vars
         \/ \E readable \in BOOLEAN : Restart(readable)
  PROVE  HobbsInv' /\ UNCHANGED file
<1> USE HobbsAssumption
<1>1. CASE PowerCut \/ BadEdit \/ RepairFile \/ UNCHANGED vars
  <2>1. /\ UNCHANGED <<entries, flying, legSeconds, above, below, dirty, readOnly,
                       enabled, sinceSave, saveFailed, unread, file>>
        /\ listening' \in BOOLEAN /\ garbled' \in BOOLEAN
    BY <1>1 DEF PowerCut, BadEdit, RepairFile, vars, memory, leg, disk, HobbsInv, TypeOK
  <2> QED
    BY <2>1 DEF HobbsInv, TypeOK, OpenLeg, CleanIsSaved
<1>2. ASSUME NEW readable \in BOOLEAN, Restart(readable)
      PROVE  HobbsInv' /\ UNCHANGED file
  <2>1. UNCHANGED <<file, garbled>>
    BY <1>2 DEF Restart, disk
  <2>2. /\ listening' = TRUE /\ enabled' = TRUE /\ flying' = FALSE /\ legSeconds' = 0
        /\ above' = 0 /\ below' = 0 /\ dirty' = FALSE /\ sinceSave' = 0
        /\ saveFailed' = FALSE
        /\ unread' \in BOOLEAN /\ readOnly' \in BOOLEAN
    BY <1>2 DEF Restart
  <2>3. entries' \in Seq(Entry) /\ Len(entries') <= MaxFlights
    <3>1. entries' = file \/ entries' = <<>>
      BY <1>2 DEF Restart
    <3>2. file \in Seq(Entry) /\ Len(file) <= MaxFlights
      BY DEF HobbsInv, TypeOK
    <3>3. <<>> \in Seq(Entry) /\ Len(<<>>) = 0 /\ 0 <= MaxFlights
      BY EmptySeq
    <3>4. CASE entries' = file
      BY <3>2, <3>4
    <3>5. CASE entries' = <<>>
      BY <3>3, <3>5
    <3> QED
      BY <3>1, <3>4, <3>5
  <2>4. ~ readOnly' /\ ~ unread' => entries' = file
    BY <1>2 DEF Restart
  <2>5. TypeOK'
    <3>1. /\ 0 \in 0 .. MaxLeg /\ 0 \in 0 .. TakeoffDebounce
          /\ 0 \in 0 .. LandingDebounce - 1 /\ 0 \in 0 .. SaveInterval - 1
      OBVIOUS
    <3>2. /\ file' \in Seq(Entry) /\ Len(file') <= MaxFlights
          /\ garbled' \in BOOLEAN
      BY <2>1 DEF HobbsInv, TypeOK
    <3> QED
      BY <2>2, <2>3, <3>1, <3>2 DEF TypeOK
  <2> QED
    BY <2>1, <2>2, <2>4, <2>5 DEF HobbsInv, OpenLeg, CleanIsSaved
<1> QED
  BY <1>1, <1>2

-----------------------------------------------------------------------------
(* A new program on a card without a log. *)
LEMMA InitHobbsInv == Init => HobbsInv
<1> SUFFICES ASSUME Init
             PROVE  HobbsInv
  OBVIOUS
<1> USE HobbsAssumption
<1>1. entries \in Seq(Entry) /\ Len(entries) <= MaxFlights
  <2>1. <<>> \in Seq(Entry) /\ Len(<<>>) = 0 /\ 0 <= MaxFlights
    BY EmptySeq
  <2> QED
    BY <2>1 DEF Init
<1>2. entries = file
  BY DEF Init
<1>3. file \in Seq(Entry) /\ Len(file) <= MaxFlights
  BY <1>1, <1>2
<1>4. /\ legSeconds \in 0 .. MaxLeg /\ above \in 0 .. TakeoffDebounce
      /\ below \in 0 .. LandingDebounce - 1 /\ sinceSave \in 0 .. SaveInterval - 1
  BY DEF Init
<1>5. TypeOK
  BY <1>1, <1>3, <1>4 DEF Init, TypeOK
<1>6. OpenLeg
  BY DEF Init, OpenLeg
<1> QED
  BY <1>2, <1>5, <1>6 DEF HobbsInv, CleanIsSaved

(* No step breaks the inductive invariant. *)
LEMMA StepHobbsInv == HobbsInv /\ [Next]_vars => HobbsInv'
  BY SecondKeeps, ShutdownKeeps, OutsideKeeps DEF Next, SecondDone

(* The variables of every HobbsMeter keep their types. *)
THEOREM TypeCorrect == Spec => []TypeOK
<1>1. HobbsInv => TypeOK
  BY DEF HobbsInv
<1> QED
  BY <1>1, InitHobbsInv, StepHobbsInv, PTL DEF Spec

(***************************************************************************)
(* update never indexes an empty log, and counts the seconds of the open   *)
(* leg into the last entry and nowhere else.                               *)
(***************************************************************************)
THEOREM OpenLegKept == Spec => []OpenLeg
<1>1. HobbsInv => OpenLeg
  BY DEF HobbsInv
<1> QED
  BY <1>1, InitHobbsInv, StepHobbsInv, PTL DEF Spec

(* Whatever fails or is cut off, a log that is not dirty is the one on the *)
(* card: no change of the log forgets to make it dirty.                    *)
THEOREM CleanIsSavedKept == Spec => []CleanIsSaved
<1>1. HobbsInv => CleanIsSaved
  BY DEF HobbsInv
<1> QED
  BY <1>1, InitHobbsInv, StepHobbsInv, PTL DEF Spec

-----------------------------------------------------------------------------
(* The file is left alone, or rewritten from a log that agrees with it. *)
LEMMA StepSettledStay == HobbsInv /\ [Next]_vars => [SettledStay]_vars
<1> SUFFICES ASSUME HobbsInv, [Next]_vars, ~ unread, NEW i \in Settled
             PROVE  i <= Len(file') /\ file'[i] = file[i]
  BY DEF SettledStay
<1>1. i \in 1 .. Len(file) /\ Len(file) \in Nat /\ Len(entries) \in Nat
  BY LenProperties DEF Settled, HobbsInv, TypeOK
<1>2. CASE UNCHANGED file
  BY <1>1, <1>2
<1>3. ASSUME listening, ~ readOnly
      PROVE  i \in 1 .. Over /\ file[i] = entries[i]
  BY <1>1, <1>3 DEF Settled, Over
<1>4. CASE Second
  <2>1. listening /\ SecondDone
    BY <1>4, SecondKeeps DEF Second
  <2>2. CASE ~ readOnly /\ file' = entries'
    <3>1. Len(entries') \in Nat
      BY <2>1, LenProperties DEF SecondDone, HobbsInv, TypeOK
    <3>2. i \in 1 .. Over /\ file[i] = entries[i]
      BY <1>3, <2>1, <2>2
    <3>3. entries'[i] = entries[i] /\ Over <= Len(entries') /\ Over \in Int
      BY <1>1, <2>1, <3>2 DEF SecondDone, Over
    <3> QED
      BY <1>1, <2>2, <3>1, <3>2, <3>3
  <2> QED
    BY <1>2, <2>1, <2>2 DEF SecondDone, disk
<1>5. CASE Shutdown
  <2>1. listening
    BY <1>5 DEF Shutdown
  <2>2. CASE ~ readOnly /\ file' = entries
    <3>1. i \in 1 .. Over /\ file[i] = entries[i]
      BY <1>3, <2>1, <2>2
    <3> QED
      BY <1>1, <2>2, <3>1 DEF Over
  <2> QED
    BY <1>2, <1>5, <2>2, ShutdownKeeps
<1> QED
  BY <1>2, <1>4, <1>5, OutsideKeeps DEF Next

(***************************************************************************)
(* No flight is ever lost from the card: through failing saves, power cuts *)
(* between any two seconds, restarts and dropped legs, a flight that is    *)
(* over and saved keeps its place and its contents.                        *)
(***************************************************************************)
THEOREM FlightsStayKept == Spec => FlightsStay
<1>1. HobbsInv /\ [Next]_vars => [SettledStay]_vars
  BY StepSettledStay
<1> QED
  BY <1>1, InitHobbsInv, StepHobbsInv, PTL DEF Spec, FlightsStay
-----------------------------------------------------------------------------
(* What the bound on the loss needs of the times: a save interval of whole *)
(* minutes, and a takeoff that is debounced within a minute.               *)
WholeIntervals ==
  /\ SaveInterval % Minute = 0
  /\ TakeoffDebounce <= Minute

(* The seconds of the open leg that the card lacks are those since the     *)
(* latest save; of a leg it does not have yet, the debounce comes on top.  *)
Behind ==
  IF Len(file) = Len(entries)
  THEN \E s \in 0 .. legSeconds :
         file[Len(file)].minutes = s \div Minute /\ legSeconds - s <= sinceSave
  ELSE legSeconds < TakeoffDebounce + sinceSave

SavesWork == ~ readOnly /\ ~ unread /\ ~ saveFailed

LossInv == SavesWork => IF flying THEN Behind ELSE ~ dirty

(* The whole minutes of a number of seconds, and what is left over. *)
LEMMA MinutesAndSeconds ==
  ASSUME NEW s \in Nat
  PROVE  /\ s \div Minute \in Nat
         /\ Minute * (s \div Minute) <= s
         /\ s < Minute * (s \div Minute) + Minute
  BY HobbsAssumption

(* Less than an interval of whole minutes spans no more minutes than it.   *)
LEMMA MinutesWithin ==
  ASSUME WholeIntervals, NEW s \in Nat, NEW t \in Nat, s <= t, t - s < SaveInterval
  PROVE  (t \div Minute) - (s \div Minute) <= SaveInterval \div Minute
<1> DEFINE m == SaveInterval \div Minute
           a == s \div Minute
           b == t \div Minute
<1>1. Minute \in Nat \ {0} /\ SaveInterval \in Nat
  BY HobbsAssumption
<1>2. m \in Nat /\ Minute * m = SaveInterval
  BY <1>1 DEF WholeIntervals
<1>3. /\ a \in Nat /\ s < Minute * a + Minute
      /\ b \in Nat /\ Minute * b <= t
  BY MinutesAndSeconds
<1> HIDE DEF m, a, b
<1>4. Minute * b < Minute * a + Minute + Minute * m
  <2>1. Minute * b \in Nat /\ Minute * a \in Nat /\ Minute * m \in Nat
    BY <1>1, <1>2, <1>3
  <2> QED
    BY <1>1, <1>2, <1>3, <2>1
<1>5. Minute * b < Minute * (a + 1 + m)
  BY <1>1, <1>2, <1>3, <1>4
<1>6. b < a + 1 + m
  BY <1>1, <1>2, <1>3, <1>5
<1> QED
  BY <1>2, <1>3, <1>6 DEF m, a, b

(* A leg that is not on the card at all. *)
LEMMA MinutesOfNewLeg ==
  ASSUME WholeIntervals, NEW t \in Nat, t < TakeoffDebounce + SaveInterval - 1
  PROVE  t \div Minute <= SaveInterval \div Minute
<1>1. Minute \in Nat \ {0} /\ SaveInterval \in Nat /\ TakeoffDebounce \in Nat
  BY HobbsAssumption
<1>2. CASE t < Minute
  <2>1. t \div Minute = 0
    BY <1>1, <1>2
  <2>2. SaveInterval \div Minute \in Nat
    BY <1>1, MinutesAndSeconds
  <2> QED
    BY <2>1, <2>2
<1>3. CASE t >= Minute
  <2>1. Minute - 1 \in Nat /\ (Minute - 1) \div Minute = 0
    BY <1>1
  <2>2. Minute - 1 <= t /\ t - (Minute - 1) < SaveInterval
    BY <1>1, <1>3 DEF WholeIntervals
  <2>3. (t \div Minute) - ((Minute - 1) \div Minute) <= SaveInterval \div Minute
    BY <2>1, <2>2, MinutesWithin
  <2>4. t \div Minute \in Nat
    BY MinutesAndSeconds
  <2> QED
    BY <2>1, <2>3, <2>4
<1> QED
  BY <1>1, <1>2, <1>3

(* The loss is bounded as soon as a save has come through... *)
LEMMA SavedIsNotBehind ==
  ASSUME HobbsInv', file' = entries', dirty' = FALSE
  PROVE  LossInv'
<1>1. CASE flying'
  <2>1. /\ legSeconds' \in Nat /\ sinceSave' \in Nat
        /\ file'[Len(file')].minutes = legSeconds' \div Minute
    BY <1>1 DEF HobbsInv, TypeOK, OpenLeg
  <2>2. legSeconds' \in 0 .. legSeconds' /\ legSeconds' - legSeconds' <= sinceSave'
    BY <2>1
  <2>3. Behind'
    BY <2>1, <2>2 DEF Behind
  <2> QED
    BY <1>1, <2>3 DEF LossInv
<1> QED
  BY <1>1 DEF LossInv

(* A second leaves the leg open or closed and counts at most one second... *)
LegGoesOn ==
  /\ flying' = flying
  /\ Len(entries') = Len(entries)
  /\ legSeconds' \in {legSeconds, legSeconds + 1}

(* ...or it opens one, with the seconds of the debounce.                    *)
LegOpens ==
  /\ ~ flying /\ flying' = TRUE
  /\ Len(entries') = Len(entries) + 1
  /\ legSeconds' = TakeoffDebounce

LEMMA FlyGoesOn ==
  ASSUME Fly
  PROVE  LegGoesOn
<1>1. flying' = flying /\ legSeconds' = legSeconds + 1
  BY DEF Fly
<1>2. Len(entries') = Len(entries)
  BY DEF Fly
<1> QED
  BY <1>1, <1>2 DEF LegGoesOn

LEMMA SlowDownGoesOn ==
  ASSUME HobbsInv, SlowDown
  PROVE  LegGoesOn
<1>1. flying /\ flying' = flying /\ legSeconds' = legSeconds /\ entries' = Touched
  BY DEF SlowDown
<1>2. Len(entries') = Len(entries)
  BY <1>1, TouchedLog
<1> QED
  BY <1>1, <1>2 DEF LegGoesOn

LEMMA UnmovedGoesOn ==
  ASSUME Unmoved
  PROVE  LegGoesOn
  BY DEF Unmoved, LegGoesOn

LEMMA TakeOffOpens ==
  ASSUME HobbsInv, TakeOff
  PROVE  LegOpens
<1>1. /\ ~ flying /\ flying' = TRUE
      /\ legSeconds' = above + 1 /\ above + 1 >= TakeoffDebounce
      /\ entries' = Append(entries, [minutes |-> (above + 1) \div Minute, landed |-> FALSE])
  BY DEF TakeOff
<1>2. above < TakeoffDebounce /\ above \in Nat /\ TakeoffDebounce \in Nat
  BY <1>1, HobbsAssumption DEF HobbsInv, TypeOK, OpenLeg
<1>3. legSeconds' = TakeoffDebounce
  BY <1>1, <1>2
<1>4. [minutes |-> (above + 1) \div Minute, landed |-> FALSE] \in Entry
  BY <1>2, WholeMinutes DEF Entry
<1>5. Len(entries') = Len(entries) + 1
  BY <1>1, <1>4, AppendedLog DEF HobbsInv, TypeOK
<1> QED
  BY <1>1, <1>3, <1>5 DEF LegOpens

(* The end of a second: a save that came through, or failed, or was not    *)
(* due, and then the second counts since the latest save.                  *)
Counted(d) ==
  /\ file' = file /\ saveFailed' = saveFailed /\ dirty' = d
  /\ sinceSave' = sinceSave + 1 \/ ~ d

LEMMA FlushOrCount ==
  ASSUME NEW landed \in BOOLEAN, NEW d \in BOOLEAN, Flush(landed, d)
  PROVE  \/ SaveDone
         \/ saveFailed' = TRUE
         \/ ~ landed /\ Counted(d)
<1>1. \/ SaveDone
      \/ SaveFails(d)
      \/ /\ ~ (landed \/ (sinceSave + 1 >= SaveInterval /\ d))
         /\ dirty' = d /\ UNCHANGED <<disk, saveFailed>>
         /\ sinceSave' = IF sinceSave + 1 >= SaveInterval THEN 0 ELSE sinceSave + 1
  BY DEF Flush
<1> QED
  BY <1>1 DEF SaveFails, Counted, disk

(* A second that is counted brings the card no further behind than that. *)
LEMMA CountedInTheLeg ==
  ASSUME HobbsInv, HobbsInv', flying, Behind, LegGoesOn, Counted(TRUE)
  PROVE  Behind'
<1>1. /\ legSeconds \in Nat /\ sinceSave \in Nat /\ TakeoffDebounce \in Nat
      /\ sinceSave' = sinceSave + 1 /\ file' = file /\ Len(entries') = Len(entries)
      /\ legSeconds' \in {legSeconds, legSeconds + 1}
  BY HobbsAssumption DEF HobbsInv, TypeOK, Counted, LegGoesOn
<1>2. CASE Len(file) = Len(entries)
  <2>1. PICK s \in 0 .. legSeconds :
          file[Len(file)].minutes = s \div Minute /\ legSeconds - s <= sinceSave
    BY <1>2 DEF Behind
  <2>2. s \in 0 .. legSeconds' /\ legSeconds' - s <= sinceSave'
    BY <1>1, <2>1
  <2> QED
    BY <1>1, <1>2, <2>1, <2>2 DEF Behind
<1>3. CASE Len(file) # Len(entries)
  <2>1. legSeconds < TakeoffDebounce + sinceSave
    BY <1>3 DEF Behind
  <2>2. legSeconds' < TakeoffDebounce + sinceSave'
    BY <1>1, <2>1
  <2> QED
    BY <1>1, <1>3, <2>2 DEF Behind
<1> QED
  BY <1>2, <1>3

(* A leg that opens is not on the card: a closed log that is not dirty is. *)
LEMMA CountedOpening ==
  ASSUME HobbsInv, file = entries, LegOpens, Counted(TRUE)
  PROVE  Behind'
<1>1. /\ Len(entries) \in Nat /\ sinceSave \in Nat /\ TakeoffDebounce \in Nat
      /\ Len(entries') = Len(entries) + 1 /\ file' = entries
      /\ sinceSave' = sinceSave + 1 /\ legSeconds' = TakeoffDebounce
  BY HobbsAssumption, LenProperties DEF HobbsInv, TypeOK, Counted, LegOpens
<1>2. Len(file') # Len(entries') /\ legSeconds' < TakeoffDebounce + sinceSave'
  BY <1>1
<1> QED
  BY <1>2 DEF Behind

(* A second that does not end the leg. *)
LEMMA CountedSecond ==
  ASSUME HobbsInv, LossInv, HobbsInv', NEW d \in BOOLEAN, Counted(d),
         UNCHANGED <<readOnly, unread>>,
         LegGoesOn \/ LegOpens, LegGoesOn /\ ~ flying => d = dirty
  PROVE  LossInv'
<1> SUFFICES ASSUME SavesWork'
             PROVE  IF flying' THEN Behind' ELSE ~ dirty'
  BY DEF LossInv
<1>1. SavesWork /\ dirty' = d
  BY DEF SavesWork, Counted
<1>2. CASE ~ d
  <2>1. entries' = file'
    BY <1>1, <1>2 DEF HobbsInv, CleanIsSaved, SavesWork
  <2>2. LossInv'
    BY <1>1, <1>2, <2>1, SavedIsNotBehind DEF HobbsInv, TypeOK
  <2> QED
    BY <2>2 DEF LossInv
<1>3. CASE d /\ LegGoesOn /\ flying
  <2>1. Counted(TRUE) /\ Behind
    BY <1>1, <1>3 DEF LossInv
  <2>2. Behind'
    BY <1>3, <2>1, CountedInTheLeg
  <2> QED
    BY <1>3, <2>2 DEF LegGoesOn
<1>4. CASE d /\ LegGoesOn /\ ~ flying
  BY <1>1, <1>4 DEF LossInv
<1>5. CASE d /\ LegOpens
  <2>1. Counted(TRUE) /\ file = entries
    BY <1>1, <1>5 DEF LossInv, LegOpens, HobbsInv, CleanIsSaved, SavesWork
  <2>2. Behind'
    BY <1>5, <2>1, CountedOpening
  <2> QED
    BY <1>5, <2>2 DEF LegOpens
<1> QED
  BY <1>2, <1>3, <1>4, <1>5 DEF HobbsInv, TypeOK

(* A save that came through or failed. *)
LEMMA SavedSecond ==
  ASSUME HobbsInv', SaveDone \/ saveFailed' = TRUE
  PROVE  LossInv'
<1>1. CASE SaveDone
  BY <1>1, SavedIsNotBehind DEF SaveDone
<1> QED
  BY <1>1 DEF LossInv, SavesWork

LEMMA SecondBounds ==
  ASSUME HobbsInv, LossInv, HobbsInv', Second
  PROVE  LossInv'
<1>1. UNCHANGED <<readOnly, unread>> /\ Update /\ dirty \in BOOLEAN
  BY DEF Second, HobbsInv, TypeOK
<1>2. CASE NoFix \/ OnGround \/ Accelerate
  <2>1. Unmoved /\ Flush(FALSE, dirty)
    BY <1>2 DEF NoFix, OnGround, Accelerate
  <2> QED
    BY <1>1, <2>1, UnmovedGoesOn, FlushOrCount, CountedSecond, SavedSecond
<1>3. CASE SlowDown
  <2>1. flying /\ Flush(FALSE, dirty \/ below = 0)
    BY <1>3 DEF SlowDown
  <2> DEFINE d == dirty \/ below = 0
  <2>2. d \in BOOLEAN /\ LegGoesOn /\ Flush(FALSE, d)
    BY <1>3, <2>1, SlowDownGoesOn
  <2> HIDE DEF d
  <2> QED
    BY <1>1, <2>1, <2>2, FlushOrCount, CountedSecond, SavedSecond
<1>4. CASE Fly
  <2>1. flying /\ Flush(FALSE, TRUE)
    BY <1>4 DEF Fly
  <2> QED
    BY <1>1, <1>4, <2>1, FlyGoesOn, FlushOrCount, CountedSecond, SavedSecond
<1>5. CASE TakeOff
  <2>1. Flush(FALSE, TRUE)
    BY <1>5 DEF TakeOff
  <2>2. LegOpens /\ ~ LegGoesOn
    BY <1>5, TakeOffOpens DEF LegOpens, LegGoesOn
  <2> QED
    BY <1>1, <2>1, <2>2, FlushOrCount, CountedSecond, SavedSecond
<1>6. CASE Land
  <2>1. Flush(TRUE, TRUE)
    BY <1>6 DEF Land
  <2> QED
    BY <2>1, FlushOrCount, SavedSecond
<1> QED
  BY <1>1, <1>2, <1>3, <1>4, <1>5, <1>6 DEF Update

LEMMA ShutdownBounds ==
  ASSUME HobbsInv, LossInv, HobbsInv', Shutdown
  PROVE  LossInv'
<1>1. CASE dirty
  <2>1. SaveDone \/ SaveFails(dirty)
    BY <1>1 DEF Shutdown
  <2> QED
    BY <2>1, SavedSecond DEF SaveFails
<1>2. CASE ~ dirty
  BY <1>2 DEF Shutdown, LossInv, SavesWork, Behind, disk, leg
<1> QED
  BY <1>1, <1>2

(* A restart reads what is on the card, and no leg is open. *)
LEMMA OutsideBounds ==
  ASSUME LossInv,
         \/ PowerCut \/ BadEdit \/ RepairFile
         \/ \E readable \in BOOLEAN : Restart(readable)
         \/ UNCHANGED vars
  PROVE  LossInv'
<1>1. CASE PowerCut \/ BadEdit \/ RepairFile \/ UNCHANGED vars
  <2>1. UNCHANGED <<entries, flying, legSeconds, dirty, readOnly, sinceSave,
                    saveFailed, unread, file>>
    BY <1>1 DEF PowerCut, BadEdit, RepairFile, vars, memory, leg, disk
  <2> QED
    BY <2>1 DEF LossInv, SavesWork, Behind
<1>2. ASSUME NEW readable \in BOOLEAN, Restart(readable)
      PROVE  LossInv'
  BY <1>2 DEF Restart, LossInv
<1> QED
  BY <1>1, <1>2

LEMMA StepLossInv == HobbsInv /\ LossInv /\ [Next]_vars => LossInv'
<1> SUFFICES ASSUME HobbsInv, LossInv, [Next]_vars
             PROVE  LossInv'
  OBVIOUS
<1>1. HobbsInv'
  BY StepHobbsInv
<1> QED
  BY <1>1, SecondBounds, ShutdownBounds, OutsideBounds DEF Next

(* The minutes of the open leg that are on the card. *)
StoredMinutes == IF Len(file) = Len(entries) THEN file[Len(file)].minutes ELSE 0

(* What the card lacks of the open leg is less than a save interval of     *)
(* seconds, so no more than its minutes.                                   *)
LEMMA LegLoss ==
  ASSUME WholeIntervals, HobbsInv, LossInv, flying, SavesWork
  PROVE  entries[Len(entries)].minutes - StoredMinutes <= SaveInterval \div Minute
<1>1. /\ legSeconds \in Nat /\ sinceSave \in 0 .. SaveInterval - 1
      /\ entries[Len(entries)].minutes = legSeconds \div Minute
      /\ SaveInterval \in Nat /\ TakeoffDebounce \in Nat
  BY HobbsAssumption DEF HobbsInv, TypeOK, OpenLeg
<1>2. Behind
  BY DEF LossInv
<1>3. CASE Len(file) = Len(entries)
  <2>1. PICK s \in 0 .. legSeconds :
          file[Len(file)].minutes = s \div Minute /\ legSeconds - s <= sinceSave
    BY <1>2, <1>3 DEF Behind
  <2>2. s \in Nat /\ s <= legSeconds /\ legSeconds - s < SaveInterval
    BY <1>1, <2>1
  <2>3. (legSeconds \div Minute) - (s \div Minute) <= SaveInterval \div Minute
    BY <1>1, <2>2, MinutesWithin
  <2> QED
    BY <1>1, <1>3, <2>1, <2>3 DEF StoredMinutes
<1>4. CASE Len(file) # Len(entries)
  <2>1. legSeconds < TakeoffDebounce + SaveInterval - 1
    BY <1>1, <1>2, <1>4 DEF Behind
  <2>2. legSeconds \div Minute <= SaveInterval \div Minute /\ legSeconds \div Minute \in Nat
    BY <1>1, <2>1, MinutesOfNewLeg, MinutesAndSeconds
  <2> QED
    BY <1>1, <1>4, <2>2 DEF StoredMinutes
<1> QED
  BY <1>3, <1>4
-----------------------------------------------------------------------------
(* While the program runs on a file that does not parse, it is read-only.  *)
GarbledIsKept == listening /\ garbled /\ ~ unread => readOnly

LEMMA StepGarbledIsKept == HobbsInv /\ GarbledIsKept /\ [Next]_vars => GarbledIsKept'
<1> SUFFICES ASSUME HobbsInv, GarbledIsKept, [Next]_vars
             PROVE  GarbledIsKept'
  OBVIOUS
<1>1. CASE Second
  <2>1. listening /\ UNCHANGED <<readOnly, unread>> /\ SecondDone
    BY <1>1, SecondKeeps DEF Second
  <2> QED
    BY <2>1 DEF SecondDone, GarbledIsKept, disk
<1>2. CASE Shutdown
  BY <1>2 DEF Shutdown, SaveDone, SaveFails, GarbledIsKept, disk
<1>3. CASE PowerCut \/ BadEdit \/ RepairFile \/ UNCHANGED vars
  BY <1>3 DEF PowerCut, BadEdit, RepairFile, vars, memory, disk, GarbledIsKept
<1>4. ASSUME NEW readable \in BOOLEAN, Restart(readable)
      PROVE  GarbledIsKept'
  BY <1>4 DEF Restart, GarbledIsKept, disk
<1> QED
  BY <1>1, <1>2, <1>3, <1>4 DEF Next

LEMMA StepBadEditStays ==
  HobbsInv /\ GarbledIsKept /\ [Next]_vars =>
    [garbled /\ ~ unread => garbled' \/ RepairFile]_vars
<1> SUFFICES ASSUME HobbsInv, GarbledIsKept, [Next]_vars, garbled, ~ unread
             PROVE  garbled' \/ RepairFile \/ UNCHANGED vars
  OBVIOUS
<1>1. CASE Second
  <2>1. readOnly /\ SecondDone
    BY <1>1, SecondKeeps DEF Second, GarbledIsKept
  <2> QED
    BY <2>1 DEF SecondDone, disk
<1>2. CASE Shutdown
  BY <1>2 DEF Shutdown, SaveDone, SaveFails, GarbledIsKept, disk
<1>3. CASE PowerCut \/ BadEdit \/ RepairFile \/ UNCHANGED vars
  BY <1>3 DEF PowerCut, BadEdit, disk
<1>4. ASSUME NEW readable \in BOOLEAN, Restart(readable)
      PROVE  garbled'
  BY <1>4 DEF Restart, disk
<1> QED
  BY <1>1, <1>2, <1>3, <1>4 DEF Next

(***************************************************************************)
(* A file that does not parse outlives every second, landing and shutdown  *)
(* of the program: only the edit that repairs it replaces it.              *)
(***************************************************************************)
THEOREM BadEditStaysKept == Spec => BadEditStays
<1>1. Init => GarbledIsKept
  BY DEF Init, GarbledIsKept
<1> QED
  BY <1>1, InitHobbsInv, StepHobbsInv, StepGarbledIsKept, StepBadEditStays, PTL
     DEF Spec, BadEditStays
-----------------------------------------------------------------------------
(* Induction over the numbers, for sets: a set with 0 and every successor  *)
(* is all of Nat.  Were n missing, adding 1 would map the finitely many    *)
(* members below n one to one into themselves, but none of them to 0.      *)
LEMMA SetInduction ==
  ASSUME NEW S \in SUBSET Nat, 0 \in S, \A n \in S : n + 1 \in S
  PROVE  S = Nat
<1> SUFFICES ASSUME NEW n \in Nat, n \notin S PROVE FALSE
  OBVIOUS
<1> DEFINE A == S \cap (0 .. n)
           f == [i \in A |-> i + 1]
<1>1. IsFiniteSet(A)
  <2>1. 0 \in Int /\ n \in Int
    OBVIOUS
  <2>2. IsFiniteSet(0 .. n)
    BY <2>1, FS_Interval
  <2>3. A \subseteq 0 .. n
    OBVIOUS
  <2> QED BY <2>2, <2>3, FS_Subset
<1>2. /\ \A i \in A : i + 1 \in A /\ i \in Nat
      /\ 0 \in A
  OBVIOUS
<1> HIDE DEF A
<1>3. f \in Injection(A, A)
  BY <1>2 DEF Injection, IsInjective
<1>4. f \in Surjection(A, A)
  <2> HIDE DEF f
  <2> QED BY <1>1, <1>3, FS_Injection
<1>5. \E i \in A : f[i] = 0
  <2> HIDE DEF f
  <2> QED BY <1>2, <1>4 DEF Surjection
<1> QED BY <1>2, <1>5

(* g is the sum of h up to each of its first l places. *)
Sums(g, h, l) ==
  /\ g \in [0 .. l -> Nat]
  /\ g[0] = 0
  /\ \A n \in 1 .. l : g[n] = g[n - 1] + h[n]

(* Every list of numbers has its sums. *)
LEMMA SumsExist ==
  ASSUME NEW h, NEW m \in Nat, \A n \in 1 .. m : h[n] \in Nat
  PROVE  \E g : Sums(g, h, m)
<1> DEFINE S == {l \in Nat : l <= m => \E g : Sums(g, h, l)}
<1>1. 0 \in S
  <2> DEFINE g == [n \in 0 .. 0 |-> 0]
  <2>1. g \in [0 .. 0 -> Nat] /\ g[0] = 0
    OBVIOUS
  <2> HIDE DEF g
  <2>2. Sums(g, h, 0)
    BY <2>1 DEF Sums
  <2> QED BY <2>2
<1>2. ASSUME NEW l \in S PROVE l + 1 \in S
  <2> SUFFICES ASSUME l + 1 <= m PROVE \E g : Sums(g, h, l + 1)
    OBVIOUS
  <2>1. l \in Nat /\ l <= m /\ l + 1 \in 1 .. m
    OBVIOUS
  <2>2. PICK f : Sums(f, h, l)
    BY <2>1
  <2> DEFINE g == [n \in 0 .. l + 1 |-> IF n = l + 1 THEN f[l] + h[l + 1] ELSE f[n]]
  <2>3. f \in [0 .. l -> Nat] /\ f[0] = 0 /\ \A n \in 1 .. l : f[n] = f[n - 1] + h[n]
    BY <2>2 DEF Sums
  <2>4. f[l] + h[l + 1] \in Nat
    <3>1. f[l] \in Nat /\ h[l + 1] \in Nat
      BY <2>1, <2>3
    <3> QED BY <3>1
  <2>5. g \in [0 .. l + 1 -> Nat]
    BY <2>1, <2>3, <2>4
  <2>6. \A n \in 0 .. l : g[n] = f[n]
    BY <2>1
  <2>7. g[l + 1] = f[l] + h[l + 1]
    BY <2>1
  <2> HIDE DEF g
  <2>8. ASSUME NEW n \in 1 .. l + 1 PROVE g[n] = g[n - 1] + h[n]
    <3>1. CASE n = l + 1
      <4>1. n - 1 = l
        BY <2>1, <3>1
      <4> QED BY <2>1, <2>6, <2>7, <3>1, <4>1
    <3>2. CASE n # l + 1
      <4>1. n \in 1 .. l /\ n - 1 \in 0 .. l /\ n \in 0 .. l
        BY <2>1, <3>2
      <4> QED BY <2>3, <2>6, <4>1
    <3> QED BY <3>1, <3>2
  <2>9. g[0] = 0
    BY <2>1, <2>3, <2>6
  <2>10. Sums(g, h, l + 1)
    BY <2>5, <2>8, <2>9 DEF Sums
  <2> QED BY <2>10
<1>3. S = Nat
  <2>1. S \in SUBSET Nat
    OBVIOUS
  <2> HIDE DEF S
  <2> QED BY <1>1, <1>2, <2>1, SetInduction
<1> QED BY <1>3

(* TotalOf is the last of the sums of the minutes. *)
LEMMA TotalIsSum ==
  ASSUME NEW log \in Seq(Entry)
  PROVE  \E g : Sums(g, [n \in 1 .. Len(log) |-> log[n].minutes], Len(log)) /\ TotalOf(log) = g[Len(log)]
<1> DEFINE h == [n \in 1 .. Len(log) |-> log[n].minutes]
           l == Len(log)
           Is(g) == g = [n \in 0 .. l |-> IF n = 0 THEN 0 ELSE g[n - 1] + log[n].minutes]
           total == CHOOSE g : Is(g)
<1>1. l \in Nat /\ \A n \in 1 .. l : h[n] \in Nat /\ h[n] = log[n].minutes
  <2>1. \A n \in 1 .. Len(log) : log[n] \in Entry
    BY ElementOfSeq
  <2> QED BY <2>1, LenProperties DEF Entry
<1>2. TotalOf(log) = total[l]
  BY DEF TotalOf
<1> HIDE DEF h, l
<1>3. PICK g : Sums(g, h, l)
  BY <1>1, SumsExist
<1>4. Is(g)
  <2>1. g = [n \in 0 .. l |-> g[n]]
    BY <1>3 DEF Sums
  <2>2. ASSUME NEW n \in 0 .. l
        PROVE  g[n] = IF n = 0 THEN 0 ELSE g[n - 1] + log[n].minutes
    <3>1. n # 0 => n \in 1 .. l
      BY <1>1
    <3> QED BY <1>1, <1>3, <3>1 DEF Sums
  <2> QED BY <2>1, <2>2
<1>5. Is(total)
  <2> HIDE DEF Is
  <2> QED BY <1>4
<1>6. Sums(total, h, l)
  <2>1. \A n \in 0 .. l : total[n] = IF n = 0 THEN 0 ELSE total[n - 1] + log[n].minutes
    BY <1>5
  <2>2. DOMAIN total = 0 .. l /\ total = [n \in 0 .. l |-> total[n]]
    BY <1>5
  <2> HIDE DEF total
  <2>3. total[0] = 0 /\ \A n \in 1 .. l : total[n] = total[n - 1] + h[n]
    <3>1. 0 \in 0 .. l /\ \A n \in 1 .. l : n \in 0 .. l /\ n # 0
      BY <1>1
    <3> QED BY <1>1, <2>1, <3>1
  <2>4. \A n \in 0 .. l : total[n] \in Nat
    <3> DEFINE S == {n \in Nat : n <= l => total[n] \in Nat}
    <3>1. 0 \in S
      BY <2>3
    <3>2. ASSUME NEW n \in S PROVE n + 1 \in S
      <4> SUFFICES ASSUME n + 1 <= l PROVE total[n + 1] \in Nat
        OBVIOUS
      <4>1. n + 1 \in 1 .. l /\ total[n] \in Nat /\ (n + 1) - 1 = n
        BY <1>1
      <4> QED BY <1>1, <2>3, <4>1
    <3>3. S = Nat
      <4>1. S \in SUBSET Nat
        OBVIOUS
      <4> HIDE DEF S
      <4> QED BY <3>1, <3>2, <4>1, SetInduction
    <3> QED BY <1>1, <3>3
  <2> QED BY <2>2, <2>3, <2>4 DEF Sums
<1> QED BY <1>2, <1>6 DEF h, l

(* A log with at least the minutes of another in each of its places, and   *)
(* none missing but empty ones, has at least its total.                    *)
Covers(b, a) ==
  \A i \in 1 .. Len(a) : IF i <= Len(b) THEN a[i].minutes <= b[i].minutes
                                        ELSE a[i].minutes = 0

(* Compared entry by entry up to the length of each, the sums keep up. *)
LEMMA MoreMinutesMoreTotal ==
  ASSUME NEW a \in Seq(Entry), NEW b \in Seq(Entry), Covers(b, a)
  PROVE  TotalOf(a) <= TotalOf(b)
<1> DEFINE la == Len(a)
           lb == Len(b)
           ha == [n \in 1 .. la |-> a[n].minutes]
           hb == [n \in 1 .. lb |-> b[n].minutes]
<1>1. /\ la \in Nat /\ lb \in Nat
      /\ \A n \in 1 .. la : ha[n] = a[n].minutes /\ a[n].minutes \in Nat
      /\ \A n \in 1 .. lb : hb[n] = b[n].minutes /\ b[n].minutes \in Nat
  <2>1. \A n \in 1 .. Len(a) : a[n] \in Entry
    BY ElementOfSeq
  <2>2. \A n \in 1 .. Len(b) : b[n] \in Entry
    BY ElementOfSeq
  <2> QED BY <2>1, <2>2, LenProperties DEF Entry
<1>2. PICK ga : Sums(ga, ha, la) /\ TotalOf(a) = ga[la]
  BY TotalIsSum
<1>3. PICK gb : Sums(gb, hb, lb) /\ TotalOf(b) = gb[lb]
  BY TotalIsSum
<1>4. \A n \in 1 .. la : IF n <= lb THEN ha[n] <= hb[n] ELSE ha[n] = 0
  BY <1>1 DEF Covers
<1> HIDE DEF ha, hb, la, lb
<1> DEFINE Upto(n, l) == IF n <= l THEN n ELSE l
           S == {n \in Nat : ga[Upto(n, la)] <= gb[Upto(n, lb)]}
<1>5. 0 \in S
  <2>1. Upto(0, la) = 0 /\ Upto(0, lb) = 0
    BY <1>1
  <2>2. ga[0] = 0 /\ gb[0] = 0
    BY <1>2, <1>3 DEF Sums
  <2> HIDE DEF Upto
  <2> QED BY <2>1, <2>2
<1>6. ASSUME NEW n \in S PROVE n + 1 \in S
  <2> DEFINE i == Upto(n, la)
             j == Upto(n, lb)
  <2>1. ga[i] <= gb[j]
    OBVIOUS
  <2>2. /\ i \in 0 .. la /\ j \in 0 .. lb
        /\ ga[i] \in Nat /\ gb[j] \in Nat
    BY <1>1, <1>2, <1>3 DEF Sums
  <2>3. CASE n + 1 <= la
    <3>1. i = n /\ Upto(n + 1, la) = n + 1 /\ n + 1 \in 1 .. la /\ (n + 1) - 1 = n
      BY <1>1, <2>3
    <3>2. ga[n + 1] = ga[n] + ha[n + 1]
      BY <1>2, <3>1 DEF Sums
    <3>3. CASE n + 1 <= lb
      <4>1. j = n /\ Upto(n + 1, lb) = n + 1 /\ n + 1 \in 1 .. lb
        BY <1>1, <3>3
      <4>2. gb[n + 1] = gb[n] + hb[n + 1]
        BY <1>3, <3>1, <4>1 DEF Sums
      <4>3. ha[n + 1] <= hb[n + 1] /\ ha[n + 1] \in Nat /\ hb[n + 1] \in Nat
        BY <1>1, <1>4, <3>1, <3>3, <4>1
      <4>4. ga[n] <= gb[n] /\ ga[n] \in Nat /\ gb[n] \in Nat
        BY <2>1, <2>2, <3>1, <4>1
      <4>5. ga[n + 1] <= gb[n + 1]
        BY <3>2, <4>2, <4>3, <4>4
      <4> HIDE DEF Upto
      <4> QED BY <3>1, <4>1, <4>5
    <3>4. CASE ~ (n + 1 <= lb)
      <4>1. j = Upto(n + 1, lb)
        BY <1>1, <3>4
      <4>2. ha[n + 1] = 0
        BY <1>4, <3>1, <3>4
      <4>3. ga[n + 1] = ga[i]
        BY <2>2, <3>1, <3>2, <4>2
      <4> HIDE DEF Upto
      <4> QED BY <2>1, <3>1, <4>1, <4>3
    <3> QED BY <3>3, <3>4
  <2>4. CASE ~ (n + 1 <= la)
    <3>1. i = Upto(n + 1, la)
      BY <1>1, <2>4
    <3>2. gb[j] <= gb[Upto(n + 1, lb)] /\ gb[Upto(n + 1, lb)] \in Nat
      <4>1. CASE n + 1 <= lb
        <5>1. j = n /\ Upto(n + 1, lb) = n + 1 /\ n + 1 \in 1 .. lb /\ (n + 1) - 1 = n
          BY <1>1, <4>1
        <5>2. gb[n + 1] = gb[n] + hb[n + 1] /\ hb[n + 1] \in Nat /\ gb[n] \in Nat
          BY <1>1, <1>3, <2>2, <5>1 DEF Sums
        <5>3. gb[n] <= gb[n + 1] /\ gb[n + 1] \in Nat
          BY <5>2
        <5> HIDE DEF Upto
        <5> QED BY <5>1, <5>3
      <4>2. CASE ~ (n + 1 <= lb)
        <5>1. j = Upto(n + 1, lb)
          BY <1>1, <4>2
        <5> QED BY <2>2, <5>1
      <4> QED BY <4>1, <4>2
    <3>3. ga[i] <= gb[Upto(n + 1, lb)]
      <4> HIDE DEF Upto, i, j
      <4>1. gb[Upto(n + 1, lb)] \in Int /\ ga[i] \in Int /\ gb[j] \in Int
        BY <2>2, <3>2
      <4> QED BY <2>1, <3>2, <4>1
    <3> HIDE DEF Upto
    <3> QED BY <3>1, <3>3
  <2> QED BY <2>3, <2>4
<1>7. S = Nat
  <2>1. S \in SUBSET Nat
    OBVIOUS
  <2> HIDE DEF S
  <2> QED BY <1>5, <1>6, <2>1, SetInduction
<1>8. PICK n \in Nat : la <= n /\ lb <= n
  <2>1. la + lb \in Nat /\ la <= la + lb /\ lb <= la + lb
    BY <1>1
  <2> QED BY <2>1
<1>9. Upto(n, la) = la /\ Upto(n, lb) = lb
  BY <1>1, <1>8
<1>10. ga[la] <= gb[lb]
  <2>1. n \in S
    BY <1>7
  <2> QED BY <1>9, <2>1
<1> QED BY <1>2, <1>3, <1>10

(* No second takes minutes off the log. *)
LEMMA SecondCovers ==
  ASSUME HobbsInv, Second
  PROVE  entries' \in Seq(Entry) /\ Covers(entries', entries)
<1> USE HobbsAssumption
<1>1. \E d : LogStep(d)
  BY QuietSecond, TakeOffSecond, FlySecond, SlowSecond, LandSecond DEF Second, Update
<1>2. /\ entries' \in Seq(Entry) /\ entries \in Seq(Entry)
      /\ Over <= Len(entries') /\ \A i \in 1 .. Over : entries'[i] = entries[i]
      /\ Len(entries) \in Nat /\ Len(entries') \in Nat
  BY <1>1, LenProperties DEF LogStep, HobbsInv, TypeOK
<1>3. \A i \in 1 .. Len(entries) : entries[i].minutes \in Nat
  <2>1. \A i \in 1 .. Len(entries) : entries[i] \in Entry
    BY <1>2, ElementOfSeq
  <2> QED BY <2>1 DEF Entry
<1>4. CASE ~ flying
  <2>1. Over = Len(entries)
    BY <1>4 DEF Over
  <2> QED BY <1>2, <1>3, <2>1 DEF Covers
<1>5. CASE flying
  <2> DEFINE l == Len(entries)
  <2>1. /\ l \in Nat \ {0} /\ Over = l - 1
        /\ entries[l].minutes = legSeconds \div Minute
        /\ legSeconds \in Nat
    BY <1>5, OpenEntry DEF HobbsInv, TypeOK
  <2>2. SUFFICES IF l <= Len(entries') THEN entries[l].minutes <= entries'[l].minutes
                                       ELSE entries[l].minutes = 0
    <3>1. \A i \in 1 .. l : i = l \/ i \in 1 .. l - 1
      BY <2>1
    <3>2. \A i \in 1 .. l - 1 : i <= Len(entries') /\ entries'[i] = entries[i]
      BY <1>2, <2>1
    <3>3. \A i \in 1 .. l - 1 : entries[i].minutes <= entries'[i].minutes
      BY <1>3, <2>1, <3>2
    <3> QED BY <1>2, <2>2, <3>1, <3>2, <3>3 DEF Covers
  <2>3. l \in 1 .. l
    BY <2>1
  <2>4. CASE entries' = entries
    BY <1>3, <2>1, <2>3, <2>4
  <2>5. CASE Fly
    <3> DEFINE e == [entries[l] EXCEPT !.minutes = (legSeconds + 1) \div Minute]
    <3>1. e.minutes = (legSeconds + 1) \div Minute /\ e \in Entry
      <4>1. (legSeconds + 1) \div Minute \in Nat
        BY <2>1, WholeMinutes
      <4> QED BY <1>5, <4>1, OpenEntry DEF Entry
    <3>2. entries' = [entries EXCEPT ![l] = e]
      BY <2>5 DEF Fly
    <3> HIDE DEF e
    <3>3. entries'[l] = e /\ Len(entries') = l
      BY <1>5, <3>1, <3>2, OpenEntry, ChangedLog
    <3>4. legSeconds \div Minute <= (legSeconds + 1) \div Minute
      BY <2>1
    <3> HIDE DEF l
    <3> QED BY <2>1, <3>1, <3>3, <3>4
  <2>6. CASE entries' = Touched
    <3>1. Len(entries') = l /\ entries'[l].minutes = legSeconds \div Minute
      BY <1>5, <2>6, TouchedLog
    <3>2. entries[l].minutes \in Nat
      BY <1>3, <2>3
    <3> HIDE DEF l
    <3> QED BY <2>1, <3>1, <3>2
  <2>7. CASE Land /\ TooShort
    <3>1. entries' = Front(entries) /\ legSeconds < Minute
      BY <2>1, <2>7 DEF Land, TooShort
    <3>2. Len(entries') = l - 1
      BY <1>5, <3>1, OpenEntry, ShortenedLog
    <3>3. legSeconds \div Minute = 0
      BY <2>1, <3>1
    <3> HIDE DEF l
    <3> QED BY <2>1, <3>2, <3>3
  <2>8. \/ entries' = entries
        \/ Fly
        \/ entries' = Touched
        \/ Land /\ TooShort
    <3>1. CASE NoFix
      BY <3>1 DEF NoFix, Unmoved
    <3>2. CASE SlowDown
      BY <3>2 DEF SlowDown
    <3>3. CASE Land
      <4>1. entries' = IF TooShort THEN Front(entries) ELSE Touched
        BY <3>3 DEF Land
      <4> QED BY <3>3, <4>1
    <3>4. ~ OnGround /\ ~ Accelerate /\ ~ TakeOff
      BY <1>5 DEF OnGround, Accelerate, TakeOff
    <3>5. NoFix \/ OnGround \/ Accelerate \/ TakeOff \/ Fly \/ SlowDown \/ Land
      BY DEF Second, Update
    <3> QED BY <3>1, <3>2, <3>3, <3>4, <3>5
  <2> QED BY <2>4, <2>5, <2>6, <2>7, <2>8
<1> QED BY <1>2, <1>4, <1>5

(***************************************************************************)
(* TotalNeverFalls: while the program runs the total that the page shows   *)
(* never goes back.  A second changes the minutes of the open leg alone,   *)
(* and only a leg of no minutes is dropped, so the log after it covers the *)
(* log before it.                                                          *)
(***************************************************************************)
THEOREM TotalNeverFallsKept == Spec => TotalNeverFalls
<1> DEFINE Kept == Second \/ Shutdown => TotalOf(entries') >= TotalOf(entries)
<1>1. HobbsInv /\ [Next]_vars => [Kept]_vars
  <2> SUFFICES ASSUME HobbsInv, Second \/ Shutdown
               PROVE  TotalOf(entries') >= TotalOf(entries)
    OBVIOUS
  <2>1. entries \in Seq(Entry)
    BY DEF HobbsInv, TypeOK
  <2>2. entries' \in Seq(Entry) /\ Covers(entries', entries)
    <3>1. CASE Second
      BY <3>1, SecondCovers
    <3>2. CASE Shutdown
      <4>1. entries' = entries
        BY <3>2 DEF Shutdown
      <4>2. \A i \in 1 .. Len(entries) : entries[i].minutes \in Nat
        <5>1. \A i \in 1 .. Len(entries) : entries[i] \in Entry
          BY <2>1, ElementOfSeq
        <5> QED BY <5>1 DEF Entry
      <4>3. Len(entries) \in Nat
        BY <2>1, LenProperties
      <4> QED BY <2>1, <4>1, <4>2, <4>3 DEF Covers
    <3> QED BY <3>1, <3>2
  <2>3. TotalOf(entries) <= TotalOf(entries')
    BY <2>1, <2>2, MoreMinutesMoreTotal
  <2> QED BY <2>3
<1> QED
  BY <1>1, InitHobbsInv, StepHobbsInv, PTL DEF Spec, TotalNeverFalls
-----------------------------------------------------------------------------
(* The legs before the open one are on the card as they are in memory, and *)
(* nothing else but the open one is.                                       *)
EarlierLegs ==
  SavesWork /\ flying =>
    /\ Len(file) \in {Len(entries) - 1, Len(entries)}
    /\ \A i \in 1 .. Len(entries) - 1 : file[i] = entries[i]

(* On the ground a log that is not dirty is the one on the card. *)
LEMMA SavedOnGround ==
  ASSUME HobbsInv, LossInv, SavesWork, ~ flying
  PROVE  file = entries
  BY DEF LossInv, HobbsInv, CleanIsSaved, SavesWork

(* A second ends with a save that came through or failed, or it is counted *)
(* and neither ends a leg nor changes one that is over.                    *)
LEMMA SecondEnds ==
  ASSUME HobbsInv, Second
  PROVE  \/ SaveDone
         \/ saveFailed' = TRUE
         \/ /\ file' = file /\ saveFailed' = saveFailed
            /\ LegGoesOn \/ LegOpens
<1>1. Update /\ dirty \in BOOLEAN
  BY DEF Second, HobbsInv, TypeOK
<1>2. CASE NoFix \/ OnGround \/ Accelerate
  <2>1. Unmoved /\ Flush(FALSE, dirty)
    BY <1>2 DEF NoFix, OnGround, Accelerate
  <2> QED
    BY <1>1, <2>1, UnmovedGoesOn, FlushOrCount DEF Counted
<1>3. CASE SlowDown
  <2> DEFINE d == dirty \/ below = 0
  <2>1. d \in BOOLEAN /\ LegGoesOn /\ Flush(FALSE, d)
    BY <1>3, SlowDownGoesOn DEF SlowDown
  <2> HIDE DEF d
  <2> QED
    BY <2>1, FlushOrCount DEF Counted
<1>4. CASE Fly
  <2>1. LegGoesOn /\ Flush(FALSE, TRUE)
    BY <1>4, FlyGoesOn DEF Fly
  <2> QED
    BY <2>1, FlushOrCount DEF Counted
<1>5. CASE TakeOff
  <2>1. LegOpens /\ Flush(FALSE, TRUE)
    BY <1>5, TakeOffOpens DEF TakeOff
  <2> QED
    BY <2>1, FlushOrCount DEF Counted
<1>6. CASE Land
  <2>1. Flush(TRUE, TRUE)
    BY <1>6 DEF Land
  <2> QED
    BY <2>1, FlushOrCount
<1> QED
  BY <1>1, <1>2, <1>3, <1>4, <1>5, <1>6 DEF Update

LEMMA SavedKeepsEarlier ==
  ASSUME HobbsInv', SaveDone \/ saveFailed' = TRUE
  PROVE  EarlierLegs'
<1>1. CASE SaveDone
  BY <1>1 DEF SaveDone, EarlierLegs
<1> QED
  BY <1>1 DEF EarlierLegs, SavesWork

LEMMA SecondKeepsEarlier ==
  ASSUME HobbsInv, LossInv, EarlierLegs, Second
  PROVE  EarlierLegs'
<1>1. /\ UNCHANGED <<readOnly, unread>> /\ HobbsInv'
      /\ Over <= Len(entries') /\ \A i \in 1 .. Over : entries'[i] = entries[i]
  BY SecondKeeps DEF Second, SecondDone
<1>2. Len(entries) \in Nat /\ Len(entries') \in Nat
  BY <1>1, LenProperties DEF HobbsInv, TypeOK
<1>3. CASE SaveDone \/ saveFailed' = TRUE
  BY <1>1, <1>3, SavedKeepsEarlier
<1>4. CASE file' = file /\ saveFailed' = saveFailed /\ (LegGoesOn \/ LegOpens)
  <2> SUFFICES ASSUME SavesWork', flying'
               PROVE  /\ Len(file') \in {Len(entries') - 1, Len(entries')}
                      /\ \A i \in 1 .. Len(entries') - 1 : file'[i] = entries'[i]
    BY DEF EarlierLegs
  <2>1. SavesWork
    BY <1>1, <1>4 DEF SavesWork
  <2>2. CASE LegGoesOn
    <3>1. flying /\ Len(entries') = Len(entries) /\ Over = Len(entries) - 1
      BY <2>2 DEF LegGoesOn, Over
    <3> QED
      BY <1>1, <1>4, <2>1, <3>1 DEF EarlierLegs
  <2>3. CASE LegOpens
    <3>1. ~ flying /\ Len(entries') - 1 = Len(entries) /\ Over = Len(entries)
      BY <1>2, <2>3 DEF LegOpens, Over
    <3>2. file = entries
      BY <2>1, <3>1, SavedOnGround
    <3> QED
      BY <1>1, <1>4, <3>1, <3>2
  <2> QED
    BY <1>4, <2>2, <2>3
<1> QED
  BY <1>3, <1>4, SecondEnds

LEMMA StepEarlierLegs ==
  HobbsInv /\ LossInv /\ EarlierLegs /\ [Next]_vars => EarlierLegs'
<1> SUFFICES ASSUME HobbsInv, LossInv, EarlierLegs, [Next]_vars
             PROVE  EarlierLegs'
  OBVIOUS
<1>1. HobbsInv'
  BY StepHobbsInv
<1>2. CASE Second
  BY <1>2, SecondKeepsEarlier
<1>3. CASE Shutdown
  <2>1. CASE dirty
    <3>1. SaveDone \/ saveFailed' = TRUE
      BY <1>3, <2>1 DEF Shutdown, SaveFails
    <3> QED
      BY <1>1, <3>1, SavedKeepsEarlier
  <2>2. CASE ~ dirty
    BY <1>3, <2>2 DEF Shutdown, EarlierLegs, SavesWork, disk, leg
  <2> QED
    BY <2>1, <2>2
<1>4. CASE PowerCut \/ BadEdit \/ RepairFile \/ UNCHANGED vars
  <2>1. UNCHANGED <<entries, flying, readOnly, saveFailed, unread, file>>
    BY <1>4 DEF PowerCut, BadEdit, RepairFile, vars, memory, leg, disk
  <2> QED
    BY <2>1 DEF EarlierLegs, SavesWork
<1>5. ASSUME NEW readable \in BOOLEAN, Restart(readable)
      PROVE  EarlierLegs'
  BY <1>5 DEF Restart, EarlierLegs
<1> QED
  BY <1>2, <1>3, <1>4, <1>5 DEF Next

(* Lists that agree have the same sums. *)
LEMMA SumsAgree ==
  ASSUME NEW f, NEW g, NEW h, NEW k, NEW l \in Nat, NEW m \in Nat,
         Sums(f, h, l), Sums(g, k, m),
         NEW n \in Nat, n <= l, n <= m, \A i \in 1 .. n : h[i] = k[i]
  PROVE  f[n] = g[n]
<1> DEFINE S == {i \in Nat : i <= n => f[i] = g[i]}
<1>1. 0 \in S
  BY DEF Sums
<1>2. ASSUME NEW i \in S PROVE i + 1 \in S
  <2> SUFFICES ASSUME i + 1 <= n PROVE f[i + 1] = g[i + 1]
    OBVIOUS
  <2>1. /\ i + 1 \in 1 .. n /\ i + 1 \in 1 .. l /\ i + 1 \in 1 .. m
        /\ (i + 1) - 1 = i /\ f[i] = g[i]
    OBVIOUS
  <2>2. f[i + 1] = f[i] + h[i + 1] /\ g[i + 1] = g[i] + k[i + 1]
    BY <2>1 DEF Sums
  <2> QED
    BY <2>1, <2>2
<1>3. S = Nat
  <2>1. S \in SUBSET Nat
    OBVIOUS
  <2> HIDE DEF S
  <2> QED BY <1>1, <1>2, <2>1, SetInduction
<1> QED
  BY <1>3

(* What the totals of two logs differ by, when all but the last entry of   *)
(* the one are in the other: the minutes of the last.                      *)
LEMMA TotalsDiffer ==
  ASSUME NEW a \in Seq(Entry), NEW b \in Seq(Entry), a # <<>>,
         Len(b) \in {Len(a) - 1, Len(a)},
         \A i \in 1 .. Len(a) - 1 : b[i] = a[i]
  PROVE  TotalOf(a) - TotalOf(b) =
           a[Len(a)].minutes - (IF Len(b) = Len(a) THEN b[Len(b)].minutes ELSE 0)
<1> DEFINE la == Len(a)
           lb == Len(b)
           ha == [n \in 1 .. la |-> a[n].minutes]
           hb == [n \in 1 .. lb |-> b[n].minutes]
<1>1. /\ la \in Nat \ {0} /\ lb \in Nat /\ lb \in {la - 1, la}
      /\ \A n \in 1 .. la : ha[n] = a[n].minutes /\ a[n].minutes \in Nat
      /\ \A n \in 1 .. lb : hb[n] = b[n].minutes /\ b[n].minutes \in Nat
  <2>1. \A n \in 1 .. Len(a) : a[n] \in Entry
    BY ElementOfSeq
  <2>2. \A n \in 1 .. Len(b) : b[n] \in Entry
    BY ElementOfSeq
  <2> QED BY <2>1, <2>2, EmptySeq, LenProperties DEF Entry
<1>2. PICK f : Sums(f, ha, la) /\ TotalOf(a) = f[la]
  BY TotalIsSum
<1>3. PICK g : Sums(g, hb, lb) /\ TotalOf(b) = g[lb]
  BY TotalIsSum
<1>4. \A n \in 1 .. la - 1 : ha[n] = hb[n]
  <2>1. \A n \in 1 .. la - 1 : b[n] = a[n]
    OBVIOUS
  <2> HIDE DEF ha, hb, la, lb
  <2>2. \A n \in 1 .. la - 1 : n \in 1 .. la /\ n \in 1 .. lb
    BY <1>1
  <2>3. \A n \in 1 .. la - 1 : ha[n] = a[n].minutes /\ hb[n] = b[n].minutes
    BY <1>1, <2>2
  <2> QED BY <2>1, <2>3
<1> HIDE DEF ha, hb, la, lb
<1> DEFINE n == la - 1
<1>5. n \in Nat /\ n <= la /\ n <= lb /\ n + 1 = la /\ la \in 1 .. la
  BY <1>1
<1>6. f[n] = g[n]
  <2> HIDE DEF n
  <2>1. \A i \in 1 .. n : ha[i] = hb[i]
    BY <1>4 DEF n
  <2> QED BY <1>1, <1>2, <1>3, <1>5, <2>1, SumsAgree
<1>7. f[la] = f[n] + ha[la] /\ f[n] \in Nat /\ ha[la] \in Nat /\ ha[la] = a[la].minutes
  BY <1>1, <1>2, <1>5 DEF Sums
<1>8. CASE lb = la
  <2>1. g[lb] = g[n] + hb[lb] /\ hb[lb] \in Nat /\ hb[lb] = b[lb].minutes
    BY <1>1, <1>3, <1>5, <1>8 DEF Sums
  <2> HIDE DEF n
  <2>2. f[la] - g[lb] = ha[la] - hb[lb]
    BY <1>6, <1>7, <2>1
  <2> QED
    BY <1>2, <1>3, <1>7, <1>8, <2>1, <2>2 DEF la, lb
<1>9. CASE lb # la
  <2>1. lb = n
    BY <1>1, <1>9
  <2> HIDE DEF n
  <2>2. f[la] - g[lb] = ha[la] - 0
    BY <1>6, <1>7, <2>1
  <2> QED
    BY <1>2, <1>3, <1>7, <1>9, <2>2 DEF la, lb
<1> QED
  BY <1>8, <1>9

LEMMA LossInvBounds ==
  ASSUME WholeIntervals, HobbsInv, LossInv, EarlierLegs
  PROVE  LossBounded
<1> SUFFICES ASSUME SavesWork
             PROVE  TotalOf(entries) - TotalOf(file) <= SaveInterval \div Minute
  BY DEF LossBounded, SavesWork
<1>1. entries \in Seq(Entry) /\ file \in Seq(Entry)
  BY DEF HobbsInv, TypeOK
<1>2. CASE flying
  <2>1. entries # <<>>
    BY <1>2 DEF HobbsInv, OpenLeg
  <2>2. TotalOf(entries) - TotalOf(file) = entries[Len(entries)].minutes - StoredMinutes
    BY <1>1, <1>2, <2>1, TotalsDiffer DEF EarlierLegs, StoredMinutes
  <2> QED
    BY <1>2, <2>2, LegLoss
<1>3. CASE ~ flying
  <2>1. TotalOf(file) = TotalOf(entries)
    BY <1>3, SavedOnGround
  <2>2. TotalOf(entries) \in Nat
    <3>1. PICK g : /\ Sums(g, [n \in 1 .. Len(entries) |-> entries[n].minutes], Len(entries))
                   /\ TotalOf(entries) = g[Len(entries)]
      BY <1>1, TotalIsSum
    <3>2. Len(entries) \in 0 .. Len(entries)
      BY <1>1, LenProperties
    <3> QED
      BY <3>1, <3>2 DEF Sums
  <2>3. SaveInterval \div Minute \in Nat
    BY HobbsAssumption, MinutesAndSeconds
  <2> QED
    BY <2>1, <2>2, <2>3
<1> QED
  BY <1>2, <1>3

(***************************************************************************)
(* However the takeoffs, the seconds without a fix, the landing debounce,  *)
(* dropped legs, saves and restarts interleave, a power cut costs the      *)
(* total of the log at most the minutes of a save interval, as long as     *)
(* saves succeed: every leg but the open one is on the card.               *)
(***************************************************************************)
THEOREM LossBoundedKept == ASSUME WholeIntervals PROVE Spec => []LossBounded
<1>1. Init => LossInv /\ EarlierLegs
  BY DEF Init, LossInv, EarlierLegs
<1>2. HobbsInv /\ LossInv /\ EarlierLegs => LossBounded
  BY LossInvBounds
<1> QED
  BY <1>1, <1>2, InitHobbsInv, StepHobbsInv, StepLossInv, StepEarlierLegs, PTL DEF Spec
=============================================================================
