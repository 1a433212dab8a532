------------------------ MODULE TrafficDisplayProofs ------------------------
(***************************************************************************)
(* For all times, delays and queues: the types of TrafficDisplay, that no  *)
(* target stays on the map after its time, and that a target which is due  *)
(* is on the map in time.                                                  *)
(***************************************************************************)
EXTENDS TrafficDisplay, TLAPS

Second(due) == IF due THEN 1 ELSE 0

(* The Age in the table is at most a second behind, and only until the     *)
(* daemon's timer has run.                                                 *)
TableFresh == present => silence <= Age + Second(updateDue)

(* A message is as old as it says and as long as it is under way, and at   *)
(* most a second older: it may carry the Age of the second before.         *)
MessagesFresh ==
  \A n \in DOMAIN messages :
    messages[n].valid => silence <= messages[n].age + messages[n].lag + 1

(* What the page takes for the age of a target is at most a message and a  *)
(* second behind, and a target whose time is over leaves when the page's timer has run.   *)
MapFresh ==
  \A s \in shown :
    /\ silence <= Received(s) + s.since + MaxLag + 1
    /\ silence <= Cutoff + MaxLag + 1 + Second(pageDue)

(* Why a target that is due and not on the map will be soon: a message     *)
(* brings it; its age is computed this second; or it is not old enough to  *)
(* be repeated, and a report would carry an age that the map takes.        *)
Brings(n) == messages[n].valid /\ messages[n].age <= Cutoff
Waiting ==
  \/ \E n \in DOMAIN messages :
       Brings(n) /\ unseen <= Fresh + 2 + messages[n].lag
  \/ updateDue /\ unseen <= 1
  \/ /\ Age <= Cutoff /\ unseen <= silence + 1
     /\ silence <= Fresh + Second(updateDue)
Prompt == unseen = 0 \/ (Due /\ shown = {} /\ Waiting)

DisplayInv == TypeOK /\ TableFresh /\ MessagesFresh /\ MapFresh /\ Prompt
-----------------------------------------------------------------------------
USE DEF Second, Least, Ages, Never

(* What the queue of messages is made of, and what each operation on it    *)
(* leaves where.                                                           *)
LEMMA MessageTyped ==
  ASSUME TrafficAssumption, TypeOK, NEW n \in DOMAIN messages
  PROVE  messages[n] \in Messages
  BY DEF TypeOK

(* A message e has been appended, as the k-th. *)
Appended(e, k) ==
  /\ messages' \in Seq(Messages) /\ Len(messages') = Len(messages) + 1
  /\ k \in DOMAIN messages' /\ messages'[k] = e
  /\ \A n \in DOMAIN messages : n \in DOMAIN messages' /\ messages'[n] = messages[n]
  /\ \A n \in DOMAIN messages' :
       n = k \/ (n \in DOMAIN messages /\ messages'[n] = messages[n])

LEMMA AppendKeeps ==
  ASSUME TypeOK, NEW e \in Messages, messages' = Append(messages, e)
  PROVE  Appended(e, Len(messages) + 1)
  BY DEF Appended, TypeOK

LEMMA RoomKeeps ==
  ASSUME TrafficAssumption, TypeOK, Room, NEW e, NEW k, Appended(e, k)
  PROVE  messages' \in Seq(Messages) /\ Len(messages') <= MaxQueue
<1>1. Len(messages) \in Nat /\ MaxQueue \in Nat
  BY DEF TypeOK, TrafficAssumption
<1> QED BY <1>1 DEF Appended, Room

LEMMA UnseenTyped ==
  ASSUME TypeOK, Watch
  PROVE  unseen' \in Nat
  BY DEF Watch, TypeOK

LEMMA TailKeeps ==
  ASSUME NEW S, NEW q \in Seq(S), q # <<>>
  PROVE  /\ Tail(q) \in Seq(S) /\ Len(Tail(q)) = Len(q) - 1
         /\ Head(q) = q[1] /\ 1 \in DOMAIN q
         /\ \A n \in DOMAIN Tail(q) : n + 1 \in DOMAIN q /\ Tail(q)[n] = q[n + 1]
         /\ \A n \in DOMAIN q : n # 1 => n - 1 \in DOMAIN Tail(q) /\ Tail(q)[n - 1] = q[n]
  OBVIOUS

LEMMA AgeingKeeps ==
  ASSUME TrafficAssumption, TypeOK, \A n \in DOMAIN messages : messages[n].lag < MaxLag,
         NEW q, q = [n \in DOMAIN messages |-> [messages[n] EXCEPT !.lag = @ + 1]]
  PROVE  /\ q \in Seq(Messages) /\ Len(q) = Len(messages)
         /\ DOMAIN q = DOMAIN messages
         /\ \A n \in DOMAIN messages :
              /\ q[n].age = messages[n].age /\ q[n].valid = messages[n].valid
              /\ q[n].lag = messages[n].lag + 1
<1>1. \A n \in DOMAIN messages :
        [messages[n] EXCEPT !.lag = @ + 1] \in Messages
  BY MessageTyped DEF Messages, TrafficAssumption
<1>2. DOMAIN messages = 1..Len(messages) /\ Len(messages) \in Nat
  BY DEF TypeOK
<1>3. q \in [1..Len(messages) -> Messages]
  BY <1>1, <1>2
<1>4. q \in Seq(Messages) /\ Len(q) = Len(messages)
  BY <1>2, <1>3
<1> QED BY <1>1, <1>2, <1>3, <1>4, MessageTyped DEF Messages

(* An action that is not Tick leaves the waiting time as it is, or ends    *)
(* the waiting: only the reason to wait is left to show.                   *)
LEMMA WaitingGoesOn ==
  ASSUME Prompt, Watch, updateDue' = updateDue \/ updateDue' = FALSE,
         Due /\ Due' /\ shown = {} /\ shown' = {} /\ Waiting /\ unseen' = unseen
           => Waiting'
  PROVE  Prompt'
<1>1. ~ Tick
  BY DEF Tick
<1>2. unseen' = 0 \/ (shown = {} /\ shown' = {} /\ Due' /\ unseen' = unseen)
  BY <1>1 DEF Watch
<1> QED BY <1>2 DEF Prompt

-----------------------------------------------------------------------------
(* The map: what a message that is not too old becomes. *)
LEMMA OnMessageKeeps ==
  ASSUME TrafficAssumption, TypeOK, MapFresh, UNCHANGED <<silence, pageDue>>,
         NEW age \in Ages, NEW valid \in BOOLEAN,
         valid => silence <= age + MaxLag + 1,
         OnMessage(age, valid)
  PROVE  /\ shown' \subseteq Targets /\ MapFresh'
         /\ valid /\ age <= Cutoff => shown' # {}
<1>1. CASE valid /\ age <= Cutoff
  <2>1. shown' = {[Age |-> age, received |-> 0, since |-> 0]}
    BY <1>1 DEF OnMessage, Aged, TrafficAssumption
  <2>2. shown' \subseteq Targets
    BY <2>1, <1>1 DEF Targets, TrafficAssumption
  <2>3. MapFresh'
    BY <2>1, <1>1 DEF MapFresh, Received, TypeOK, TrafficAssumption
  <2> QED BY <2>1, <2>2, <2>3
<1>2. CASE ~ (valid /\ age <= Cutoff)
  <2>1. shown' = shown
    BY <1>2 DEF OnMessage, Aged, TrafficAssumption
  <2> QED BY <1>2, <2>1 DEF MapFresh, Received, TypeOK
<1> QED BY <1>1, <1>2

LEMMA UpdatedAgeKeeps ==
  ASSUME TrafficAssumption, NEW s \in Targets
  PROVE  /\ UpdatedAge(s) \in Targets
         /\ UpdatedAge(s).since = s.since
         /\ Received(UpdatedAge(s)) >= Received(s)
         /\ UpdatedAge(s).Age <= Cutoff => Received(s) + s.since <= Cutoff
<1> DEFINE u == UpdatedAge(s)
<1>1. /\ s.Age \in 0..Cutoff + 1 /\ s.received \in 0..Cutoff + 1
      /\ s.since \in 0..Cutoff + 1
      /\ u.received = Received(s) /\ u.since = s.since
      /\ u.Age = Least(Received(s) + s.since, Cutoff + 1)
  BY DEF Targets, UpdatedAge
<1>2. Received(s) \in 0..Cutoff + 1
  BY <1>1 DEF Received
<1>3. u.Age \in 0..Cutoff + 1 /\ (u.Age <= Cutoff => Received(s) + s.since <= Cutoff)
  BY <1>1, <1>2 DEF TrafficAssumption
<1>4. u \in Targets
  BY <1>1, <1>2, <1>3 DEF Targets, UpdatedAge
<1>5. Received(u) >= Received(s)
  <2>1. CASE Received(s) = 0
    BY <2>1, <1>1, <1>3 DEF Received
  <2>2. CASE Received(s) # 0
    <3>1. Received(u) = Received(s)
      BY <2>2, <1>1 DEF Received
    <3> QED BY <3>1, <1>2 DEF TrafficAssumption
  <2> QED BY <2>1, <2>2
<1> QED BY <1>1, <1>3, <1>4, <1>5
-----------------------------------------------------------------------------
(* Each action keeps the invariant. *)
LEMMA HeardKeeps ==
  ASSUME TrafficAssumption, DisplayInv, Watch,
         NEW age \in Ages, NEW late \in 0..MaxLate, late <= silence, late <= age,
         age <= Cutoff \/ age = Age,
         Heard(age, late)
  PROVE  DisplayInv'
<1> USE DEF DisplayInv, TrafficAssumption
<1>1. /\ present' = TRUE /\ silence' = late /\ Age' = age
      /\ messages' = Append(messages, Message(age, TRUE))
      /\ UNCHANGED <<updateDue, socket, shown, pageDue>>
  BY DEF Heard
<1>2. late \in Nat /\ age \in Nat /\ silence \in Nat /\ late \in 0..Never
  BY DEF TypeOK
<1>3. Message(age, TRUE) \in Messages
  BY DEF Message, Messages
<1>4. PICK k : Appended(Message(age, TRUE), k)
  BY <1>1, <1>3, AppendKeeps
<1>5. TypeOK'
  <2>1. messages' \in Seq(Messages) /\ Len(messages') <= MaxQueue
    BY <1>4, RoomKeeps DEF Heard
  <2> QED BY <2>1, <1>1, <1>2, UnseenTyped DEF TypeOK
<1>6. TableFresh'
  <2>1. late <= age + Second(updateDue)
    BY <1>2
  <2> QED BY <2>1, <1>1 DEF TableFresh
<1>7. MessagesFresh'
  <2> SUFFICES ASSUME NEW n \in DOMAIN messages', messages'[n].valid
               PROVE  late <= messages'[n].age + messages'[n].lag + 1
    BY <1>1 DEF MessagesFresh
  <2>1. CASE n = k
    BY <2>1, <1>2, <1>4 DEF Appended, Message
  <2>2. CASE n # k
    <3>1. n \in DOMAIN messages /\ messages'[n] = messages[n]
      BY <2>2, <1>4 DEF Appended
    <3>2. silence <= messages[n].age + messages[n].lag + 1
      BY <3>1 DEF MessagesFresh
    <3>3. messages[n].age \in Nat /\ messages[n].lag \in Nat
      BY <3>1, MessageTyped DEF Messages
    <3> QED BY <3>1, <3>2, <3>3, <1>2
  <2> QED BY <2>1, <2>2
<1>8. MapFresh'
  <2> SUFFICES ASSUME NEW s \in shown
               PROVE  /\ late <= Received(s) + s.since + MaxLag + 1
                      /\ late <= Cutoff + MaxLag + 1 + Second(pageDue)
    BY <1>1 DEF MapFresh, Received
  <2>1. /\ silence <= Received(s) + s.since + MaxLag + 1
        /\ silence <= Cutoff + MaxLag + 1 + Second(pageDue)
    BY DEF MapFresh
  <2>2. Received(s) \in Nat /\ s.since \in Nat
    BY DEF TypeOK, Targets, Received
  <2> QED BY <2>1, <2>2, <1>2
<1>9. ASSUME Due, Due', Waiting, unseen' = unseen
      PROVE  Waiting'
  <2>1. CASE \E n \in DOMAIN messages :
               Brings(n) /\ unseen <= Fresh + 2 + messages[n].lag
    BY <2>1, <1>4, <1>9 DEF Waiting, Brings, Appended
  <2>2. CASE updateDue /\ unseen <= 1
    BY <2>2, <1>1, <1>9 DEF Waiting
  <2>3. CASE /\ Age <= Cutoff /\ unseen <= silence + 1
             /\ silence <= Fresh + Second(updateDue)
    <3>1. age <= Cutoff /\ unseen <= Fresh + 2
      BY <2>3, <1>2, <1>9 DEF TypeOK
    <3>2. k \in DOMAIN messages' /\ Brings(k)' /\ messages'[k].lag = 0
      BY <3>1, <1>4 DEF Brings, Message, Appended
    <3>3. unseen' <= Fresh + 2 + messages'[k].lag
      BY <3>1, <3>2, <1>9 DEF TypeOK
    <3> QED BY <3>2, <3>3 DEF Waiting, Brings
  <2> QED BY <1>9, <2>1, <2>2, <2>3 DEF Waiting
<1>10. Prompt'
  BY <1>1, <1>9, WaitingGoesOn
<1> QED BY <1>5, <1>6, <1>7, <1>8, <1>10

LEMMA HearKeeps ==
  ASSUME TrafficAssumption, DisplayInv, Hear, Watch
  PROVE  DisplayInv'
<1>1. 0 \in Ages /\ Age \in Ages /\ 0 \in 0..MaxLate /\ 0 <= silence /\ 0 <= Age
      /\ 0 <= Cutoff
  BY DEF DisplayInv, TypeOK, TrafficAssumption
<1>2. CASE present
  BY <1>1, <1>2, HeardKeeps DEF Hear
<1>3. CASE ~ present
  BY <1>1, <1>3, HeardKeeps DEF Hear
<1> QED BY <1>2, <1>3

LEMMA HearOgnKeeps ==
  ASSUME TrafficAssumption, DisplayInv, HearOgn, Watch
  PROVE  DisplayInv'
<1>1. PICK late \in 0..MaxLate : late <= silence /\ Heard(late, late)
  BY DEF HearOgn
<1>2. late \in Ages /\ late <= late /\ late <= Cutoff
  BY DEF TrafficAssumption
<1> QED BY <1>1, <1>2, HeardKeeps

LEMMA HearOtherKeeps ==
  ASSUME TrafficAssumption, DisplayInv, HearOther, Watch
  PROVE  DisplayInv'
<1> USE DEF DisplayInv, TrafficAssumption
<1>1. /\ present /\ messages' = Append(messages, Message(Age, TRUE))
      /\ UNCHANGED <<present, silence, Age, updateDue, socket, shown, pageDue>>
  BY DEF HearOther, target
<1>2. Age \in Nat /\ silence \in Nat /\ Message(Age, TRUE) \in Messages
  BY DEF Message, Messages, TypeOK
<1>3. PICK k : Appended(Message(Age, TRUE), k)
  BY <1>1, <1>2, AppendKeeps
<1>4. TypeOK'
  <2>1. messages' \in Seq(Messages) /\ Len(messages') <= MaxQueue
    BY <1>3, RoomKeeps DEF HearOther
  <2> QED BY <2>1, <1>1, UnseenTyped DEF TypeOK
<1>5. TableFresh' /\ MapFresh'
  BY <1>1 DEF TableFresh, MapFresh, Received
<1>6. MessagesFresh'
  <2> SUFFICES ASSUME NEW n \in DOMAIN messages', messages'[n].valid
               PROVE  silence <= messages'[n].age + messages'[n].lag + 1
    BY <1>1 DEF MessagesFresh
  <2>1. CASE n = k
    <3>1. silence <= Age + 1
      BY <1>1, <1>2 DEF TableFresh
    <3>2. messages'[n].age = Age /\ messages'[n].lag = 0
      BY <2>1, <1>3 DEF Appended, Message
    <3> QED BY <3>1, <3>2, <1>2
  <2>2. CASE n # k
    BY <2>2, <1>3 DEF Appended, MessagesFresh
  <2> QED BY <2>1, <2>2
<1>7. ASSUME Waiting, unseen' = unseen
      PROVE  Waiting'
  BY <1>1, <1>3, <1>7 DEF Waiting, Brings, Appended
<1>8. Prompt'
  BY <1>1, <1>7, WaitingGoesOn
<1> QED BY <1>4, <1>5, <1>6, <1>8

LEMMA RemoveTargetKeeps ==
  ASSUME TrafficAssumption, DisplayInv, RemoveTarget, Watch
  PROVE  DisplayInv'
<1> USE DEF DisplayInv, TrafficAssumption
<1>1. Message(KeepTime, FALSE) \in Messages
  BY DEF Message, Messages
<1>2. PICK k : Appended(Message(KeepTime, FALSE), k)
  BY <1>1, AppendKeeps DEF RemoveTarget
<1>3. present' = FALSE /\ Age' = 0
      /\ UNCHANGED <<silence, updateDue, socket, shown, pageDue>>
  BY DEF RemoveTarget
<1>4. TypeOK'
  <2>1. messages' \in Seq(Messages) /\ Len(messages') <= MaxQueue
    BY <1>2, RoomKeeps DEF RemoveTarget
  <2>2. 0 \in Ages
    OBVIOUS
  <2> QED BY <2>1, <2>2, <1>3, UnseenTyped DEF TypeOK
<1>5. TableFresh'
  BY <1>3 DEF TableFresh
<1>6. MessagesFresh'
  BY <1>2, <1>3 DEF MessagesFresh, Message, Appended
<1>7. MapFresh'
  BY <1>3 DEF MapFresh, Received
<1>8. Prompt'
  BY <1>3 DEF Prompt, Watch, Due
<1> QED BY <1>4, <1>5, <1>6, <1>7, <1>8

LEMMA SendTrafficUpdatesKeeps ==
  ASSUME TrafficAssumption, DisplayInv, SendTrafficUpdates, Watch
  PROVE  DisplayInv'
<1> USE DEF DisplayInv, TrafficAssumption
<1>1. updateDue /\ updateDue' = FALSE /\ UNCHANGED <<silence, socket, shown, pageDue>>
  BY DEF SendTrafficUpdates
<1>2. MapFresh'
  BY <1>1 DEF MapFresh, Received
<1>3. CASE ~ (present /\ silence <= KeepTime)
  <2>1. present' = FALSE /\ Age' = 0 /\ UNCHANGED messages
    BY <1>3 DEF SendTrafficUpdates
  <2>2. TypeOK'
    <3>1. 0 \in Ages
      OBVIOUS
    <3> QED BY <2>1, <3>1, <1>1, UnseenTyped DEF TypeOK
  <2>3. TableFresh' /\ MessagesFresh'
    BY <2>1, <1>1 DEF TableFresh, MessagesFresh
  <2>4. Prompt'
    BY <2>1 DEF Prompt, Watch, Due
  <2> QED BY <2>2, <2>3, <2>4, <1>2
<1>4. CASE present /\ silence <= KeepTime /\ silence > Fresh
  <2>1. /\ present' = TRUE /\ Age' = silence /\ Room
        /\ messages' = Append(messages, Message(silence, TRUE))
    BY <1>4 DEF SendTrafficUpdates, WrittenBack, Repeated, TypeOK
  <2>2. silence \in Ages /\ Message(silence, TRUE) \in Messages
    BY <1>4 DEF TypeOK, Message, Messages
  <2>3. PICK k : Appended(Message(silence, TRUE), k)
    BY <2>1, <2>2, AppendKeeps
  <2>4. TypeOK'
    <3>1. messages' \in Seq(Messages) /\ Len(messages') <= MaxQueue
      BY <2>1, <2>3, RoomKeeps
    <3> QED BY <2>1, <2>2, <3>1, <1>1, UnseenTyped DEF TypeOK
  <2>5. TableFresh'
    BY <2>1, <2>2, <1>1 DEF TableFresh
  <2>6. MessagesFresh'
    BY <2>2, <2>3, <1>1 DEF MessagesFresh, Message, Appended
  <2>7. ASSUME Due, Due', Waiting, unseen' = unseen
        PROVE  Waiting'
    <3>1. CASE \E n \in DOMAIN messages :
                 Brings(n) /\ unseen <= Fresh + 2 + messages[n].lag
      BY <3>1, <2>3, <2>7 DEF Waiting, Brings, Appended
    <3>2. CASE unseen <= Fresh + 2
      <4>1. k \in DOMAIN messages' /\ Brings(k)' /\ messages'[k].lag = 0
        BY <2>3, <2>7, <1>1 DEF Brings, Message, Due, Appended
      <4>2. unseen' <= Fresh + 2 + messages'[k].lag
        BY <3>2, <4>1, <2>7 DEF TypeOK
      <4> QED BY <4>1, <4>2 DEF Waiting, Brings
    <3> QED BY <2>7, <3>1, <3>2 DEF Waiting, TypeOK
  <2>8. Prompt'
    BY <1>1, <2>7, WaitingGoesOn
  <2> QED BY <2>4, <2>5, <2>6, <2>8, <1>2
<1>5. CASE present /\ silence <= KeepTime /\ ~ (silence > Fresh)
  <2>1. present' = TRUE /\ Age' = silence /\ UNCHANGED messages
    BY <1>5 DEF SendTrafficUpdates, WrittenBack, Repeated, TypeOK
  <2>2. TypeOK'
    <3>1. silence \in Ages
      BY <1>5 DEF TypeOK
    <3> QED BY <2>1, <3>1, <1>1, UnseenTyped DEF TypeOK
  <2>3. TableFresh'
    BY <2>1, <1>1 DEF TableFresh, TypeOK
  <2>4. MessagesFresh'
    BY <2>1, <1>1 DEF MessagesFresh
  <2>5. ASSUME Waiting, unseen' = unseen
        PROVE  Waiting'
    <3>1. CASE \E n \in DOMAIN messages :
                 Brings(n) /\ unseen <= Fresh + 2 + messages[n].lag
      BY <3>1, <2>1, <2>5 DEF Waiting, Brings
    <3>2. CASE unseen <= 1 \/ unseen <= silence + 1
      BY <3>2, <2>1, <2>5, <1>1, <1>5 DEF Waiting, TypeOK
    <3> QED BY <2>5, <3>1, <3>2 DEF Waiting
  <2>6. Prompt'
    BY <1>1, <2>5, WaitingGoesOn
  <2> QED BY <2>2, <2>3, <2>4, <2>6, <1>2
<1> QED BY <1>3, <1>4, <1>5

LEMMA PageUpdateKeeps ==
  ASSUME TrafficAssumption, DisplayInv, PageUpdate, Watch
  PROVE  DisplayInv'
<1> USE DEF DisplayInv, TrafficAssumption
<1>1. /\ UNCHANGED <<present, silence, Age, updateDue, messages, socket>>
      /\ pageDue /\ pageDue' = FALSE
  BY DEF PageUpdate, target
<1>2. \A s \in shown' : s.Age <= Cutoff
                       /\ \E t \in shown : s = UpdatedAge(t) /\ t \in Targets
  <2> SUFFICES ASSUME NEW s \in shown'
               PROVE  s.Age <= Cutoff
                      /\ \E t \in shown : s = UpdatedAge(t) /\ t \in Targets
    OBVIOUS
  <2>1. ~ Aged(s.Age) /\ \E t \in shown : s = UpdatedAge(t)
    BY DEF PageUpdate
  <2>2. PICK t \in shown : s = UpdatedAge(t)
    BY <2>1
  <2>3. t \in Targets /\ s \in Targets
    BY <2>2, UpdatedAgeKeeps DEF TypeOK
  <2> QED BY <2>1, <2>2, <2>3 DEF Aged, Targets
<1>3. shown' \subseteq Targets
  BY <1>2, UpdatedAgeKeeps
<1>4. TypeOK'
  BY <1>1, <1>3, UnseenTyped DEF TypeOK
<1>5. TableFresh' /\ MessagesFresh'
  BY <1>1 DEF TableFresh, MessagesFresh
<1>6. MapFresh'
  <2> SUFFICES ASSUME NEW s \in shown'
               PROVE  /\ silence' <= Received(s) + s.since + MaxLag + 1
                      /\ silence' <= Cutoff + MaxLag + 1 + Second(pageDue')
    BY DEF MapFresh, Received
  <2>1. PICK t \in shown : s = UpdatedAge(t) /\ t \in Targets /\ s.Age <= Cutoff
    BY <1>2
  <2>2. silence <= Received(t) + t.since + MaxLag + 1
    BY <2>1 DEF MapFresh
  <2>3. s.since = t.since /\ Received(s) >= Received(t)
        /\ Received(t) + t.since <= Cutoff
    BY <2>1, UpdatedAgeKeeps
  <2>4. Received(s) \in Nat /\ Received(t) \in Nat /\ t.since \in Nat /\ silence \in Nat
    BY <2>1, <1>3 DEF Received, Targets, TypeOK
  <2>5. silence' = silence /\ Second(pageDue') = 0
    BY <1>1
  <2> QED BY <2>2, <2>3, <2>4, <2>5
<1>7. Prompt'
  BY <1>1, WaitingGoesOn DEF Waiting, Brings
<1> QED BY <1>3, <1>4, <1>5, <1>6, <1>7

LEMMA OpenMapKeeps ==
  ASSUME TrafficAssumption, DisplayInv, OpenMap, Watch
  PROVE  DisplayInv'
<1> USE DEF DisplayInv, TrafficAssumption
<1>1. UNCHANGED <<present, silence, Age, updateDue, messages, socket, pageDue>>
      /\ shown # {} /\ shown' = {}
  BY DEF OpenMap, target
<1>2. TypeOK' /\ TableFresh' /\ MessagesFresh' /\ MapFresh' /\ Prompt'
  BY <1>1 DEF TypeOK, TableFresh, MessagesFresh, MapFresh, Prompt, Watch
<1> QED BY <1>2

LEMMA ConnectKeeps ==
  ASSUME TrafficAssumption, DisplayInv, Connect, Watch
  PROVE  DisplayInv'
<1> USE DEF DisplayInv, TrafficAssumption
<1>1. UNCHANGED <<present, silence, Age, updateDue, messages, pageDue>>
      /\ socket = "closed" /\ socket' = "added"
  BY DEF Connect, target
<1>2. shown' \subseteq Targets /\ MapFresh'
  <2>1. CASE present
    <3>1. Age \in Ages /\ silence <= Age + MaxLag + 1
      BY <2>1 DEF TypeOK, TableFresh
    <3> QED BY <3>1, <2>1, <1>1, OnMessageKeeps DEF Connect
  <2>2. CASE ~ present
    BY <2>2, <1>1 DEF Connect, MapFresh, TypeOK, Received
  <2> QED BY <2>1, <2>2
<1>4. TypeOK'
  BY <1>1, <1>2, UnseenTyped DEF TypeOK
<1>5. TableFresh' /\ MessagesFresh'
  BY <1>1 DEF TableFresh, MessagesFresh
<1>6. Prompt'
  BY <1>1, WaitingGoesOn DEF Due
<1> QED BY <1>2, <1>4, <1>5, <1>6

LEMMA DeliverKeeps ==
  ASSUME TrafficAssumption, DisplayInv, Deliver, Watch
  PROVE  DisplayInv'
<1> USE DEF DisplayInv, TrafficAssumption
<1>1. UNCHANGED <<present, silence, Age, updateDue, socket, pageDue>>
      /\ messages # <<>> /\ messages' = Tail(messages)
  BY DEF Deliver, target
<1>2. /\ messages' \in Seq(Messages) /\ Len(messages') = Len(messages) - 1
      /\ Head(messages) = messages[1] /\ 1 \in DOMAIN messages
      /\ \A n \in DOMAIN messages' :
           n + 1 \in DOMAIN messages /\ messages'[n] = messages[n + 1]
      /\ \A n \in DOMAIN messages :
           n # 1 => n - 1 \in DOMAIN messages' /\ messages'[n - 1] = messages[n]
  BY <1>1, TailKeeps DEF TypeOK
<1>3. /\ messages[1].age \in Ages /\ messages[1].valid \in BOOLEAN
      /\ messages[1].lag \in 0..MaxLag
  BY <1>2, MessageTyped DEF Messages
<1>4. messages[1].valid => silence <= messages[1].age + MaxLag + 1
  <2>1. messages[1].valid => silence <= messages[1].age + messages[1].lag + 1
    BY <1>2 DEF MessagesFresh
  <2>2. silence \in Nat
    BY DEF TypeOK
  <2> QED BY <2>1, <2>2, <1>3
<1>5. /\ shown' \subseteq Targets /\ MapFresh'
      /\ socket = "added" /\ Brings(1) => shown' # {}
  <2>1. CASE socket = "added"
    <3>1. OnMessage(messages[1].age, messages[1].valid)
      BY <2>1, <1>2 DEF Deliver
    <3> QED BY <3>1, <1>1, <1>3, <1>4, OnMessageKeeps DEF Brings
  <2>2. CASE socket # "added"
    BY <2>2, <1>1 DEF Deliver, MapFresh, TypeOK, Received
  <2> QED BY <2>1, <2>2
<1>7. TypeOK'
  BY <1>1, <1>2, <1>5, UnseenTyped DEF TypeOK
<1>8. TableFresh' /\ MessagesFresh'
  BY <1>1, <1>2 DEF TableFresh, MessagesFresh
<1>9. ASSUME Due, shown' = {}, Waiting, unseen' = unseen
      PROVE  Waiting'
  <2>1. CASE \E n \in DOMAIN messages :
               Brings(n) /\ unseen <= Fresh + 2 + messages[n].lag
    <3>1. PICK n \in DOMAIN messages :
            Brings(n) /\ unseen <= Fresh + 2 + messages[n].lag
      BY <2>1
    <3>2. n # 1
      BY <3>1, <1>5, <1>9 DEF Due
    <3>3. n - 1 \in DOMAIN messages' /\ messages'[n - 1] = messages[n]
      BY <3>2, <1>2
    <3> QED BY <3>1, <3>3, <1>9 DEF Waiting, Brings
  <2>2. CASE ~ \E n \in DOMAIN messages :
                 Brings(n) /\ unseen <= Fresh + 2 + messages[n].lag
    BY <2>2, <1>1, <1>9 DEF Waiting
  <2> QED BY <2>1, <2>2
<1>10. Prompt'
  BY <1>1, <1>9, WaitingGoesOn
<1> QED BY <1>5, <1>7, <1>8, <1>10

LEMMA WriteFailsKeeps ==
  ASSUME TrafficAssumption, DisplayInv, WriteFails, Watch
  PROVE  DisplayInv'
<1> USE DEF DisplayInv, TrafficAssumption
<1>1. UNCHANGED <<present, silence, Age, updateDue, shown, pageDue>>
      /\ messages # <<>> /\ messages' = Tail(messages) /\ socket' = "dropped"
  BY DEF WriteFails, target
<1>2. /\ messages' \in Seq(Messages) /\ Len(messages') = Len(messages) - 1
      /\ \A n \in DOMAIN messages' :
           n + 1 \in DOMAIN messages /\ messages'[n] = messages[n + 1]
  BY <1>1, TailKeeps DEF TypeOK
<1>3. TypeOK'
  BY <1>1, <1>2, UnseenTyped DEF TypeOK
<1>4. TableFresh' /\ MessagesFresh' /\ MapFresh'
  BY <1>1, <1>2 DEF TableFresh, MessagesFresh, MapFresh, Received
<1>5. Prompt'
  BY <1>1 DEF Prompt, Watch, Due
<1> QED BY <1>3, <1>4, <1>5

LEMMA LoseConnectionKeeps ==
  ASSUME TrafficAssumption, DisplayInv, LoseConnection, Watch
  PROVE  DisplayInv'
<1> USE DEF DisplayInv, TrafficAssumption
<1>1. UNCHANGED <<present, silence, Age, updateDue, messages, shown, pageDue>>
      /\ socket' = "closed"
  BY DEF LoseConnection, target
<1>2. TypeOK' /\ TableFresh' /\ MessagesFresh' /\ MapFresh'
  BY <1>1 DEF TypeOK, TableFresh, MessagesFresh, MapFresh, Watch, Due, Received
<1>3. Prompt'
  BY <1>1 DEF Prompt, Watch, Due
<1> QED BY <1>2, <1>3

LEMMA TickKeeps ==
  ASSUME TrafficAssumption, DisplayInv, Tick, Watch
  PROVE  DisplayInv'
<1> USE DEF DisplayInv, TrafficAssumption
<1>1. /\ ~ updateDue /\ ~ pageDue /\ updateDue' = TRUE /\ pageDue' = TRUE
      /\ UNCHANGED <<present, Age, socket>>
  BY DEF Tick
<1>2. /\ silence' \in 0..Never /\ silence' <= silence + 1 /\ silence' >= silence
      /\ silence < Never => silence' = silence + 1
  BY DEF Tick, TypeOK
<1>3. /\ messages' \in Seq(Messages) /\ Len(messages') = Len(messages)
      /\ DOMAIN messages' = DOMAIN messages
      /\ \A n \in DOMAIN messages :
           /\ messages'[n].age = messages[n].age /\ messages'[n].valid = messages[n].valid
           /\ messages'[n].lag = messages[n].lag + 1
  <2>1. \A n \in DOMAIN messages : messages[n].lag < MaxLag
    BY DEF Tick
  <2>2. messages' = [n \in DOMAIN messages |-> [messages[n] EXCEPT !.lag = @ + 1]]
    BY DEF Tick
  <2> QED BY <2>1, <2>2, AgeingKeeps
<1>4. \A s \in shown' : \E t \in shown :
        /\ t \in Targets /\ s \in Targets /\ Received(s) = Received(t)
        /\ s.since = Least(t.since + 1, Cutoff + 1)
  <2> SUFFICES ASSUME NEW s \in shown'
               PROVE  \E t \in shown :
                        /\ t \in Targets /\ s \in Targets /\ Received(s) = Received(t)
                        /\ s.since = Least(t.since + 1, Cutoff + 1)
    OBVIOUS
  <2>1. PICK t \in shown : s = [t EXCEPT !.since = Least(t.since + 1, Cutoff + 1)]
    BY DEF Tick
  <2>2. t \in Targets
    BY DEF TypeOK
  <2>3. /\ s.Age = t.Age /\ s.received = t.received
        /\ s.since = Least(t.since + 1, Cutoff + 1)
    BY <2>1, <2>2 DEF Targets
  <2>4. Least(t.since + 1, Cutoff + 1) \in 0..Cutoff + 1
    BY <2>2 DEF Targets
  <2>5. s \in Targets
    BY <2>1, <2>2, <2>4 DEF Targets
  <2> QED BY <2>2, <2>3, <2>5 DEF Received
<1>5. TypeOK'
  <2>1. unseen' \in Nat
    BY DEF Watch, TypeOK
  <2>2. shown' \subseteq Targets
    BY <1>4
  <2> QED BY <1>1, <1>2, <1>3, <2>1, <2>2 DEF TypeOK
<1>6. TableFresh'
  BY <1>1, <1>2 DEF TableFresh, TypeOK
<1>7. MessagesFresh'
  <2> SUFFICES ASSUME NEW n \in DOMAIN messages, messages[n].valid
               PROVE  silence' <= messages[n].age + (messages[n].lag + 1) + 1
    BY <1>3 DEF MessagesFresh
  <2>1. messages[n].age \in Nat /\ messages[n].lag \in Nat /\ silence \in Nat
    BY MessageTyped DEF Messages, TypeOK
  <2>2. silence <= messages[n].age + messages[n].lag + 1
    BY DEF MessagesFresh
  <2> QED BY <2>1, <2>2, <1>2
<1>8. MapFresh'
  <2> SUFFICES ASSUME NEW s \in shown'
               PROVE  /\ silence' <= Received(s) + s.since + MaxLag + 1
                      /\ silence' <= Cutoff + MaxLag + 1 + Second(pageDue')
    BY DEF MapFresh, Received
  <2>1. PICK t \in shown : /\ t \in Targets /\ Received(s) = Received(t)
                           /\ s.since = Least(t.since + 1, Cutoff + 1)
    BY <1>4
  <2>2. /\ silence <= Received(t) + t.since + MaxLag + 1
        /\ silence <= Cutoff + MaxLag + 1
    BY <1>1 DEF MapFresh, TypeOK
  <2>3. Received(t) \in Nat /\ t.since \in 0..Cutoff + 1 /\ silence \in Nat
    BY <2>1 DEF Received, Targets, TypeOK
  <2> QED BY <2>1, <2>2, <2>3, <1>1, <1>2
<1>9. ASSUME unseen' # 0
      PROVE  Due' /\ shown' = {} /\ Waiting'
  <2>1. Due' /\ shown = {} /\ shown' = {} /\ unseen' = unseen + 1
    BY <1>9 DEF Watch
  <2>2. CASE unseen = 0
    BY <2>1, <2>2, <1>1 DEF Waiting
  <2>3. CASE Waiting
    <3>1. CASE \E n \in DOMAIN messages :
                 Brings(n) /\ unseen <= Fresh + 2 + messages[n].lag
      <4>1. PICK n \in DOMAIN messages :
              Brings(n) /\ unseen <= Fresh + 2 + messages[n].lag
        BY <3>1
      <4>2. messages[n].lag \in Nat
        BY MessageTyped DEF Messages
      <4>3. Brings(n)' /\ unseen' <= Fresh + 2 + messages'[n].lag
        BY <4>1, <4>2, <2>1, <1>3 DEF Brings, TypeOK
      <4> QED BY <4>3, <1>3, <2>1 DEF Waiting, Brings
    <3>2. CASE /\ Age <= Cutoff /\ unseen <= silence + 1
               /\ silence <= Fresh + Second(updateDue)
      <4>1. silence < Never
        BY <3>2, <1>1 DEF TypeOK
      <4>2. unseen' <= silence' + 1 /\ silence' <= Fresh + Second(updateDue')
        BY <4>1, <3>2, <2>1, <1>1, <1>2 DEF TypeOK
      <4> QED BY <4>2, <3>2, <2>1, <1>1 DEF Waiting
    <3> QED BY <2>3, <3>1, <3>2, <1>1 DEF Waiting
  <2> QED BY <2>2, <2>3, <2>1 DEF Prompt
<1>10. Prompt'
  BY <1>9 DEF Prompt
<1> QED BY <1>5, <1>6, <1>7, <1>8, <1>10
-----------------------------------------------------------------------------
LEMMA Initially == TrafficAssumption /\ Init => DisplayInv
<1> SUFFICES ASSUME TrafficAssumption, Init PROVE DisplayInv
  OBVIOUS
<1>1. TypeOK
  <2>1. Never \in 0..Never /\ 0 \in Ages /\ 0 \in Nat
    BY DEF TrafficAssumption
  <2>2. <<>> \in Seq(Messages) /\ Len(<<>>) <= MaxQueue
    BY DEF TrafficAssumption
  <2> QED BY <2>1, <2>2 DEF Init, TypeOK
<1>2. TableFresh /\ MessagesFresh /\ MapFresh /\ Prompt
  BY DEF Init, TableFresh, MessagesFresh, MapFresh, Prompt
<1> QED BY <1>1, <1>2 DEF DisplayInv

LEMMA StepKeeps == TrafficAssumption /\ DisplayInv /\ [Next]_vars => DisplayInv'
<1> SUFFICES ASSUME TrafficAssumption, DisplayInv, [Next]_vars PROVE DisplayInv'
  OBVIOUS
<1>1. CASE UNCHANGED vars
  BY <1>1 DEF vars, DisplayInv, TypeOK, TableFresh, MessagesFresh, MapFresh, Prompt,
              Waiting, Brings, Due, Received
<1>2. CASE Next
  <2>1. CASE Hear
    BY <1>2, <2>1, HearKeeps DEF Next
  <2>11. CASE HearOgn
    BY <1>2, <2>11, HearOgnKeeps DEF Next
  <2>12. CASE HearOther
    BY <1>2, <2>12, HearOtherKeeps DEF Next
  <2>2. CASE RemoveTarget
    BY <1>2, <2>2, RemoveTargetKeeps DEF Next
  <2>3. CASE SendTrafficUpdates
    BY <1>2, <2>3, SendTrafficUpdatesKeeps DEF Next
  <2>4. CASE PageUpdate
    BY <1>2, <2>4, PageUpdateKeeps DEF Next
  <2>5. CASE OpenMap
    BY <1>2, <2>5, OpenMapKeeps DEF Next
  <2>6. CASE Connect
    BY <1>2, <2>6, ConnectKeeps DEF Next
  <2>7. CASE Deliver
    BY <1>2, <2>7, DeliverKeeps DEF Next
  <2>8. CASE WriteFails
    BY <1>2, <2>8, WriteFailsKeeps DEF Next
  <2>9. CASE LoseConnection
    BY <1>2, <2>9, LoseConnectionKeeps DEF Next
  <2>10. CASE Tick
    BY <1>2, <2>10, TickKeeps DEF Next
  <2> QED BY <1>2, <2>1, <2>2, <2>3, <2>4, <2>5, <2>6, <2>7, <2>8, <2>9, <2>10,
           <2>11, <2>12 DEF Next, Step
<1> QED BY <1>1, <1>2

LEMMA Invariance == Spec => []DisplayInv
  BY Initially, StepKeeps, TrafficAssumption, PTL DEF Spec

(* The variables keep their types, whatever is heard, lost and queued.     *)
THEOREM TypeCorrect == Spec => []TypeOK
<1>1. DisplayInv => TypeOK
  BY DEF DisplayInv
<1> QED BY <1>1, Invariance, PTL

(* No target stays on the map of a page longer than Cutoff, the delay of a *)
(* message and two seconds after it was last heard, also when the page     *)
(* hears nothing any more: it ages the target by itself.                   *)
THEOREM NoGhostsKept == Spec => []NoGhosts
<1>1. DisplayInv => NoGhosts
  BY TrafficAssumption
     DEF DisplayInv, NoGhosts, MapFresh, TypeOK, TrafficAssumption
<1> QED BY <1>1, Invariance, PTL

(* A target the daemon has, and would tell the page about, is on the map   *)
(* within Fresh + MaxLag + 2 seconds of becoming so.                       *)
THEOREM AppearsInTimeKept == Spec => []AppearsInTime
<1>1. DisplayInv => AppearsInTime
  <2> SUFFICES ASSUME DisplayInv, unseen # 0 PROVE AppearsInTime
    BY TrafficAssumption DEF DisplayInv, TypeOK, AppearsInTime, TrafficAssumption
  <2> USE TrafficAssumption DEF DisplayInv, TrafficAssumption
  <2>1. CASE \E n \in DOMAIN messages :
               Brings(n) /\ unseen <= Fresh + 2 + messages[n].lag
    <3>1. PICK n \in DOMAIN messages :
            Brings(n) /\ unseen <= Fresh + 2 + messages[n].lag
      BY <2>1
    <3>2. messages[n].lag \in 0..MaxLag
      BY MessageTyped DEF Messages
    <3> QED BY <3>1, <3>2 DEF AppearsInTime, TypeOK
  <2>2. CASE unseen <= Fresh + 2
    BY <2>2 DEF AppearsInTime, TypeOK
  <2>3. unseen <= Fresh + 2 \/ \E n \in DOMAIN messages :
               Brings(n) /\ unseen <= Fresh + 2 + messages[n].lag
    BY DEF Prompt, Waiting, TypeOK
  <2> QED BY <2>1, <2>2, <2>3
<1> QED BY <1>1, Invariance, PTL
=============================================================================
