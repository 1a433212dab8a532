------------------------ MODULE AlertsDisplayProofs ------------------------
(***************************************************************************)
(* For any number of alerts, delays and faults: the types of AlertsDisplay,*)
(* that a balloon is not taken by the timer of an earlier one, and that no *)
(* alert is replayed more often than its condition came back.              *)
(***************************************************************************)
EXTENDS AlertsDisplay, FiniteSetTheorems, SequenceTheorems, TLAPS

Alerts == [severity : Severities, active : BOOLEAN, condition : BOOLEAN]
States == [active : BOOLEAN, age : 0..ClearTime, known : BOOLEAN]
Lists == UNION {[1..n -> BOOLEAN] : n \in 0..MaxAlerts}

(* The parts of the state, each with what the others need of it. *)
DaemonOK ==
  /\ alertsData \in Seq(Alerts) /\ Len(alertsData) <= MaxAlerts
  /\ flips \in 0..MaxFlips
  /\ comebacks \in [Ids -> Nat] /\ \A id \in Ids : comebacks[id] <= flips

StreamOK ==
  /\ messages \in Seq(Nat) /\ \A i \in DOMAIN messages : messages[i] \in DOMAIN alertsData
  /\ socket \in {"closed", "connecting", "added", "dropped"}
  /\ missed \subseteq DOMAIN alertsData

(* One answer of each age is on its way at most, and one of age 0 only     *)
(* after the poll that was due.                                            *)
AnswersOK ==
  /\ poll \in BOOLEAN /\ faults \in 0..MaxFaults
  /\ answers \subseteq [list : Lists, age : 0..MaxDelay]
  /\ \A a \in answers : DOMAIN a.list \subseteq DOMAIN alertsData
  /\ \A a, b \in answers : a.age = b.age => a = b
  /\ poll => \A a \in answers : a.age # 0

StatesOK ==
  /\ alertStates \in [Ids -> States]
  /\ \A id \in Ids : alertStates[id].known => id \in DOMAIN alertsData
  /\ answered \in BOOLEAN /\ replays \in [Ids -> Nat]

(* The balloon on screen and the one timer are as old as one another. *)
ScreenOK ==
  \/ balloon = {} /\ timers = {}
  \/ \E s \in Severities, t \in 0..BalloonTime :
       balloon = {[severity |-> s, age |-> t]} /\ timers = {t}

DisplayInv == DaemonOK /\ StreamOK /\ AnswersOK /\ StatesOK /\ ScreenOK
-----------------------------------------------------------------------------
(* A finite set of numbers has a largest one: of the sets of its elements  *)
(* from some element on, take a smallest.                                  *)
LEMMA MostIsOne ==
  ASSUME NEW S \in SUBSET Nat, IsFiniteSet(S), S # {}
  PROVE  Most(S) \in S /\ \A t \in S : t <= Most(S)
<1> DEFINE From(s) == {t \in S : s <= t}
<1> DEFINE T == {From(s) : s \in S}
<1>1. T \subseteq FiniteSubsetsOf(S) /\ T # {}
  <2>1. \A s \in S : From(s) \subseteq S /\ IsFiniteSet(From(s))
    BY FS_Subset
  <2> QED BY <2>1 DEF FiniteSubsetsOf
<1>2. IsWellFoundedOn(StrictSubsetOrdering(S), FiniteSubsetsOf(S))
  BY FS_StrictSubsetOrderingWellFounded
<1>3. PICK U \in T : \A V \in T : ~ (<<V, U>> \in StrictSubsetOrdering(S))
  <2> HIDE DEF T
  <2> QED BY <1>1, <1>2, WFMin
<1>4. PICK s \in S : U = From(s)
  BY <1>3
<1>5. ASSUME NEW t \in S, ~ (t <= s) PROVE FALSE
  <2>0. s \in Nat /\ t \in Nat /\ s < t
    BY <1>5
  <2>1. From(t) \subseteq From(s) /\ From(t) # From(s)
    <3>1. \A u \in S : t <= u => s <= u
      BY <2>0
    <3>2. s \in From(s) /\ s \notin From(t)
      BY <2>0
    <3> QED BY <3>1, <3>2
  <2>2. <<From(t), From(s)>> \in StrictSubsetOrdering(S)
    BY <2>1 DEF StrictSubsetOrdering
  <2> QED BY <2>2, <1>3, <1>4
<1>6. \E m \in S : \A t \in S : t <= m
  BY <1>5
<1> QED BY <1>6 DEF Most

(* The ages of the answers are a set of numbers up to MaxDelay. *)
LEMMA AnswersFinite ==
  ASSUME DisplayAssumption, AnswersOK
  PROVE  IsFiniteSet(answers) /\ Cardinality(answers) <= MaxDelay + 1
<1> DEFINE f == [a \in answers |-> a.age]
<1>1. f \in Injection(answers, 0..MaxDelay)
  <2>1. f \in [answers -> 0..MaxDelay]
    BY DEF AnswersOK
  <2>2. \A a, b \in answers : f[a] = f[b] => a = b
    BY DEF AnswersOK
  <2> QED BY <2>1, <2>2 DEF Injection, IsInjective
<1>2. MaxDelay \in Nat
  BY DEF DisplayAssumption
<1>3. IsFiniteSet(0..MaxDelay) /\ Cardinality(0..MaxDelay) = MaxDelay + 1
  BY <1>2, FS_Interval
<1> HIDE DEF f
<1> QED BY <1>1, <1>3, FS_Injection

LEMMA ScreenTyped ==
  ASSUME DisplayAssumption, ScreenOK
  PROVE  /\ balloon \subseteq [severity : Severities, age : 0..BalloonTime]
         /\ Cardinality(balloon) <= 1 /\ timers \subseteq 0..BalloonTime
<1>1. CASE balloon = {} /\ timers = {}
  BY <1>1, FS_EmptySet
<1>2. CASE \E s \in Severities, t \in 0..BalloonTime :
             balloon = {[severity |-> s, age |-> t]} /\ timers = {t}
  <2>1. Cardinality(balloon) = 1
    BY <1>2, FS_Singleton
  <2> QED BY <1>2, <2>1
<1> QED BY <1>1, <1>2 DEF ScreenOK

LEMMA InvTyped ==
  ASSUME DisplayAssumption, DisplayInv
  PROVE  TypeOK
<1>1. comebacks \in [Ids -> 0..MaxFlips]
  BY DEF DisplayInv, DaemonOK, DisplayAssumption
<1>2. \A a \in answers : DOMAIN a.list \subseteq DOMAIN alertsData /\ a.age \in 0..MaxDelay
  BY DEF DisplayInv, AnswersOK
<1>3. Cardinality(answers) <= MaxDelay + 1
  BY AnswersFinite DEF DisplayInv
<1>4. /\ balloon \subseteq [severity : Severities, age : 0..BalloonTime]
      /\ Cardinality(balloon) <= 1 /\ timers \subseteq 0..BalloonTime
  BY ScreenTyped DEF DisplayInv
<1> QED
  BY <1>1, <1>2, <1>3, <1>4
  DEF DisplayInv, DaemonOK, StreamOK, AnswersOK, StatesOK, TypeOK, Alerts, States
-----------------------------------------------------------------------------
(* The balloon.  PushAlerts shows one, or leaves a more severe one alone. *)
LEMMA SameStays ==
  ASSUME DisplayAssumption, ScreenOK, UNCHANGED balloon
  PROVE  \A b \in balloon : Stays(b)
<1>1. \A b \in balloon : b.age \in 0..BalloonTime
  BY ScreenTyped
<1>2. \A b \in balloon : b.age >= b.age
  BY <1>1 DEF DisplayAssumption
<1> QED BY <1>2 DEF Stays

LEMMA PushAlertsKeeps ==
  ASSUME DisplayAssumption, ScreenOK, NEW S \in SUBSET Severities, IsFiniteSet(S),
         PushAlerts(S)
  PROVE  /\ ScreenOK'
         /\ \A b \in balloon : Stays(b) \/ Replaced(b)
<1>0. Severities \subseteq Nat /\ 0 \in 0..BalloonTime
  BY DEF DisplayAssumption
<1>1. CASE S = {} \/ Covered(Most(S))
  <2>1. UNCHANGED <<balloon, timers>>
    BY <1>1 DEF PushAlerts
  <2> QED BY <2>1, SameStays DEF ScreenOK
<1>2. CASE ~ (S = {} \/ Covered(Most(S)))
  <2>1. balloon' = {[severity |-> Most(S), age |-> 0]} /\ timers' = {0}
    BY <1>2 DEF PushAlerts, TimersLeft
  <2>2. Most(S) \in Severities
    BY <1>0, <1>2, MostIsOne
  <2>3. ASSUME NEW b \in balloon PROVE Replaced(b)
    <3>1. b.severity \in Nat /\ Most(S) \in Nat
      BY ScreenTyped, <1>0, <2>2
    <3>2. ~ (b.severity > Most(S))
      BY <1>2 DEF Covered
    <3>3. Most(S) >= b.severity
      BY <3>1, <3>2
    <3> DEFINE c == [severity |-> Most(S), age |-> 0]
    <3>4. c \in balloon' /\ c.age = 0 /\ c.severity = Most(S)
      BY <2>1
    <3> QED BY <3>3, <3>4 DEF Replaced
  <2> QED BY <1>0, <2>1, <2>2, <2>3 DEF ScreenOK
<1> QED BY <1>1, <1>2

LEMMA TickKeepsScreen ==
  ASSUME DisplayAssumption, ScreenOK, Tick
  PROVE  ScreenOK' /\ \A b \in balloon : Stays(b)
<1> USE DEF Tick
<1>1. CASE balloon = {} /\ timers = {}
  BY <1>1 DEF ScreenOK
<1>2. ASSUME NEW s \in Severities, NEW t \in 0..BalloonTime,
             balloon = {[severity |-> s, age |-> t]}, timers = {t}
      PROVE  ScreenOK' /\ \A b \in balloon : Stays(b)
  <2>1. t # BalloonTime /\ BalloonTime \in Nat
    BY <1>2 DEF DisplayAssumption
  <2>2. Least(t + 1, BalloonTime) = t + 1 /\ t + 1 \in 0..BalloonTime /\ t + 1 >= t
    BY <2>1 DEF Least
  <2>3. timers' = {t + 1}
    BY <1>2
  <2>4. balloon' = {[severity |-> s, age |-> t + 1]}
    BY <1>2, <2>2
  <2>5. ScreenOK'
    BY <2>2, <2>3, <2>4 DEF ScreenOK
  <2>6. \A b \in balloon : Stays(b)
    <3> DEFINE c == [severity |-> s, age |-> t + 1]
    <3>1. c \in balloon' /\ c.severity = s /\ c.age = t + 1
      BY <2>4
    <3>2. \A b \in balloon : b.severity = s /\ b.age = t
      BY <1>2
    <3> QED BY <2>2, <3>1, <3>2 DEF Stays
  <2> QED BY <2>5, <2>6
<1> QED BY <1>1, <1>2 DEF ScreenOK

LEMMA HideKeeps ==
  ASSUME NEW T, Hide(T)
  PROVE  ScreenOK'
  BY DEF Hide, TimersLeft, ScreenOK
-----------------------------------------------------------------------------
(* Every action keeps the parts. *)
LEMMA InitOK ==
  ASSUME DisplayAssumption, Init
  PROVE  DisplayInv
<1> USE DEF Init, DisplayAssumption
<1>1. DaemonOK
  BY DEF DaemonOK
<1>2. StreamOK
  BY DEF StreamOK
<1>3. AnswersOK
  BY DEF AnswersOK
<1>4. StatesOK
  <2>1. NoState \in States /\ ~ NoState.known
    BY DEF NoState, States
  <2> QED BY <2>1 DEF StatesOK
<1>5. ScreenOK
  BY DEF ScreenOK
<1> QED BY <1>1, <1>2, <1>3, <1>4, <1>5 DEF DisplayInv

LEMMA DaemonStays ==
  ASSUME DaemonOK, UNCHANGED daemon
  PROVE  DaemonOK'
  BY DEF DaemonOK, daemon

LEMMA StreamStays ==
  ASSUME StreamOK, UNCHANGED <<alertsData, messages, socket, missed>>
  PROVE  StreamOK'
  BY DEF StreamOK

LEMMA AnswersStay ==
  ASSUME AnswersOK, UNCHANGED <<alertsData, poll, answers, faults>>
  PROVE  AnswersOK'
  BY DEF AnswersOK

LEMMA StatesStay ==
  ASSUME StatesOK, UNCHANGED <<alertsData, states>>
  PROVE  StatesOK'
  BY DEF StatesOK, states

LEMMA ScreenStays ==
  ASSUME ScreenOK, UNCHANGED screen
  PROVE  ScreenOK'
  BY DEF ScreenOK, screen

USE DEF daemon, stream, states, screen, page

LEMMA TimerFiresKeeps ==
  ASSUME DisplayAssumption, DisplayInv, TimerFires \/ Click
  PROVE  DisplayInv'
<1>1. ScreenOK'
  BY HideKeeps DEF TimerFires, Click
<1>2. UNCHANGED <<daemon, stream, poll, answers, states, faults>>
  BY DEF TimerFires, Click
<1> QED
  BY <1>1, <1>2, DaemonStays, StreamStays, AnswersStay, StatesStay DEF DisplayInv

(* pushEvent adds to the list and to the channel. *)
LEMMA RaiseKeeps ==
  ASSUME DisplayAssumption, DisplayInv, Raise
  PROVE  DisplayInv'
<1> USE DEF DisplayInv
<1>1. PICK e \in Alerts : alertsData' = Append(alertsData, e)
  <2>1. PICK s \in Severities, c \in BOOLEAN :
          alertsData' = Append(alertsData, [severity |-> s, active |-> c, condition |-> c])
    BY DEF Raise
  <2> DEFINE e == [severity |-> s, active |-> c, condition |-> c]
  <2>2. e \in Alerts
    BY DEF Alerts
  <2> QED BY <2>1, <2>2
<1>2. /\ alertsData' \in Seq(Alerts) /\ Len(alertsData') = Len(alertsData) + 1
      /\ DOMAIN alertsData' = 1..(Len(alertsData) + 1)
      /\ DOMAIN alertsData = 1..Len(alertsData) /\ Len(alertsData) \in Nat
  BY <1>1 DEF DaemonOK
<1>3. /\ messages' = Append(messages, Len(alertsData) + 1) /\ Len(alertsData) < MaxAlerts
      /\ UNCHANGED <<socket, missed, poll, answers, page, faults, comebacks, flips>>
  BY DEF Raise
<1>4. DaemonOK'
  BY <1>2, <1>3 DEF DaemonOK, DisplayAssumption
<1>5. StreamOK'
  <2>1. /\ messages' \in Seq(Nat) /\ DOMAIN messages' = 1..(Len(messages) + 1)
        /\ \A i \in DOMAIN messages : messages'[i] = messages[i]
        /\ messages'[Len(messages) + 1] = Len(alertsData) + 1
        /\ DOMAIN messages = 1..Len(messages) /\ Len(messages) \in Nat
    <3>1. messages \in Seq(Nat) /\ Len(alertsData) + 1 \in Nat
      BY <1>2 DEF StreamOK
    <3> QED BY <1>3, <3>1
  <2>2. \A i \in DOMAIN messages : messages[i] \in DOMAIN alertsData'
    BY <1>2 DEF StreamOK
  <2>3. Len(alertsData) + 1 \in DOMAIN alertsData'
    BY <1>2
  <2>4. ASSUME NEW i \in DOMAIN messages' PROVE messages'[i] \in DOMAIN alertsData'
    <3>1. i \in DOMAIN messages \/ i = Len(messages) + 1
      BY <2>1
    <3> QED BY <2>1, <2>2, <2>3, <3>1
  <2> QED BY <1>2, <1>3, <2>1, <2>4 DEF StreamOK
<1>6. AnswersOK'
  BY <1>2, <1>3 DEF AnswersOK
<1>7. StatesOK'
  BY <1>2, <1>3 DEF StatesOK
<1> QED BY <1>3, <1>4, <1>5, <1>6, <1>7, ScreenStays

(* What updateEvent changes: Active of one alert of the list. *)
LEMMA UpdateDoes ==
  ASSUME DaemonOK, NEW id \in DOMAIN alertsData,
         alertsData' = [alertsData EXCEPT ![id].active = ~ @]
  PROVE  /\ alertsData' \in Seq(Alerts) /\ Len(alertsData') = Len(alertsData)
         /\ DOMAIN alertsData' = DOMAIN alertsData
         /\ \A i \in DOMAIN alertsData :
              alertsData'[i].active = IF i = id THEN ~ alertsData[i].active
                                      ELSE alertsData[i].active
<1>1. /\ alertsData \in Seq(Alerts) /\ DOMAIN alertsData = 1..Len(alertsData)
      /\ \A i \in DOMAIN alertsData : alertsData[i] \in Alerts
  BY DEF DaemonOK
<1> DEFINE e == [alertsData[id] EXCEPT !.active = ~ alertsData[id].active]
<1>2. e \in Alerts /\ e.active = ~ alertsData[id].active
  BY <1>1 DEF Alerts
<1>3. alertsData' = [alertsData EXCEPT ![id] = e]
  OBVIOUS
<1> HIDE DEF e
<1> QED BY <1>1, <1>2, <1>3

LEMMA UpdateKeeps ==
  ASSUME DisplayAssumption, DisplayInv, Update
  PROVE  DisplayInv'
<1> USE DEF DisplayInv
<1>1. PICK id \in DOMAIN alertsData :
        /\ alertsData' = [alertsData EXCEPT ![id].active = ~ @]
        /\ comebacks' = IF alertsData[id].active
                        THEN comebacks ELSE [comebacks EXCEPT ![id] = @ + 1]
  BY DEF Update
<1>2. /\ alertsData' \in Seq(Alerts) /\ Len(alertsData') = Len(alertsData)
      /\ DOMAIN alertsData' = DOMAIN alertsData
  BY <1>1, UpdateDoes
<1>3. flips < MaxFlips /\ flips' = flips + 1
      /\ UNCHANGED <<stream, poll, answers, page, faults>>
  BY DEF Update
<1>4. DaemonOK'
  <2>1. flips' \in 0..MaxFlips /\ flips \in Nat
    BY <1>3 DEF DaemonOK, DisplayAssumption
  <2>2. comebacks' \in [Ids -> Nat]
    <3>1. comebacks \in [Ids -> Nat] /\ id \in Ids
      BY DEF DaemonOK, Ids, DisplayAssumption
    <3>2. comebacks[id] + 1 \in Nat
      BY <3>1
    <3>3. [comebacks EXCEPT ![id] = @ + 1] \in [Ids -> Nat]
      BY <3>1, <3>2
    <3> QED BY <1>1, <3>1, <3>3
  <2>3. ASSUME NEW i \in Ids PROVE comebacks'[i] <= flips'
    <3>1. comebacks[i] \in Nat /\ comebacks[i] <= flips
      BY DEF DaemonOK
    <3>2. comebacks'[i] = comebacks[i] \/ comebacks'[i] = comebacks[i] + 1
      BY <1>1 DEF DaemonOK
    <3> QED BY <1>3, <2>1, <3>1, <3>2
  <2> QED BY <1>2, <2>1, <2>2, <2>3 DEF DaemonOK
<1>5. StreamOK'
  BY <1>2, <1>3 DEF StreamOK
<1>6. AnswersOK'
  BY <1>2, <1>3 DEF AnswersOK
<1>7. StatesOK'
  BY <1>2, <1>3 DEF StatesOK
<1> QED BY <1>3, <1>4, <1>5, <1>6, <1>7, ScreenStays

(* A message leaves the channel. *)
LEMMA TailOK ==
  ASSUME StreamOK, messages # <<>>, messages' = Tail(messages)
  PROVE  /\ messages' \in Seq(Nat) /\ Head(messages) \in DOMAIN alertsData
         /\ \A i \in DOMAIN messages' : messages'[i] \in DOMAIN alertsData
<1>1. messages \in Seq(Nat)
  BY DEF StreamOK
<1>2. /\ Tail(messages) \in Seq(Nat) /\ Len(messages) \in Nat \ {0}
      /\ Len(Tail(messages)) = Len(messages) - 1
      /\ \A i \in 1..Len(Tail(messages)) : Tail(messages)[i] = messages[i + 1]
      /\ Head(messages) = messages[1]
      /\ DOMAIN messages = 1..Len(messages)
  BY <1>1, HeadTailProperties, EmptySeq
<1>3. ASSUME NEW i \in DOMAIN messages' PROVE messages'[i] \in DOMAIN alertsData
  <2>1. i \in 1..Len(Tail(messages)) /\ i + 1 \in DOMAIN messages
    BY <1>2, <1>3
  <2> QED BY <1>2, <2>1 DEF StreamOK
<1> QED BY <1>2, <1>3 DEF StreamOK

LEMMA WriteKeeps ==
  ASSUME DisplayAssumption, DisplayInv, Write
  PROVE  DisplayInv'
<1> USE DEF DisplayInv
<1>1. StreamOK'
  BY TailOK DEF Write, StreamOK
<1> DEFINE S == {alertsData[Head(messages)].severity}
<1>2. S \in SUBSET Severities /\ IsFiniteSet(S)
  <2>1. Head(messages) \in DOMAIN alertsData
    BY TailOK DEF Write
  <2>2. alertsData[Head(messages)] \in Alerts
    BY <2>1 DEF DaemonOK
  <2>3. IsFiniteSet(S)
    BY FS_Singleton
  <2> QED BY <2>2, <2>3 DEF Alerts
<1>3. PushAlerts(S) /\ UNCHANGED <<daemon, socket, missed, poll, answers, states, faults>>
  BY DEF Write
<1> HIDE DEF S
<1>4. ScreenOK'
  BY <1>2, <1>3, PushAlertsKeeps
<1> QED BY <1>1, <1>3, <1>4, DaemonStays, AnswersStay, StatesStay

(* The socket and the messages that pass it by. *)
LEMMA SocketKeeps ==
  ASSUME DisplayAssumption, DisplayInv,
         AddSocket \/ WriteToOthers \/ WriteFails \/ LoseConnection \/ Connect
  PROVE  DisplayInv'
<1> USE DEF DisplayInv
<1>1. StreamOK'
  <2>1. CASE AddSocket \/ LoseConnection \/ Connect
    BY <2>1 DEF AddSocket, LoseConnection, Connect, StreamOK
  <2>2. CASE WriteToOthers \/ WriteFails
    BY <2>2, TailOK DEF WriteToOthers, WriteFails, Miss, StreamOK
  <2> QED BY <2>1, <2>2
<1>2. UNCHANGED <<daemon, poll, answers, page>>
  BY DEF AddSocket, WriteToOthers, WriteFails, LoseConnection, Connect
<1>3. faults' \in 0..MaxFaults
  BY DEF AddSocket, WriteToOthers, WriteFails, LoseConnection, Connect, Fault, AnswersOK,
         DisplayAssumption
<1>4. AnswersOK'
  BY <1>2, <1>3 DEF AnswersOK
<1> QED BY <1>1, <1>2, <1>4, DaemonStays, StatesStay, ScreenStays

(* A poll: the newest answer carries the list as it is. *)
LEMMA PollKeeps ==
  ASSUME DisplayAssumption, DisplayInv, Poll
  PROVE  DisplayInv'
<1> USE DEF DisplayInv
<1> DEFINE list == [i \in DOMAIN alertsData |-> alertsData[i].active]
<1> DEFINE new == [list |-> list, age |-> 0]
<1>1. /\ poll /\ poll' = FALSE /\ answers' = answers \cup {new}
      /\ UNCHANGED <<daemon, stream, page, faults>>
  BY DEF Poll
<1>2. list \in Lists /\ DOMAIN list = DOMAIN alertsData
  <2>1. /\ DOMAIN alertsData = 1..Len(alertsData) /\ Len(alertsData) \in 0..MaxAlerts
        /\ \A i \in DOMAIN alertsData : alertsData[i] \in Alerts
    BY DEF DaemonOK, DisplayAssumption
  <2>2. list \in [1..Len(alertsData) -> BOOLEAN]
    BY <2>1 DEF Alerts
  <2> QED BY <2>1, <2>2 DEF Lists
<1> HIDE DEF list
<1>3. new \in [list : Lists, age : 0..MaxDelay] /\ new.age = 0 /\ new.list = list
  BY <1>2 DEF DisplayAssumption
<1> HIDE DEF new
<1>4. AnswersOK'
  BY <1>1, <1>2, <1>3 DEF AnswersOK
<1> QED BY <1>1, <1>4, DaemonStays, StreamStays, StatesStay, ScreenStays

(* What followAlerts leaves in the page. *)
LEMMA FollowAlertsKeeps ==
  ASSUME DisplayAssumption, DisplayInv, UNCHANGED alertsData,
         NEW a \in answers, FollowAlerts(a.list)
  PROVE  /\ StatesOK' /\ ScreenOK'
         /\ \A b \in balloon : Stays(b) \/ Replaced(b)
<1> USE DEF DisplayInv
<1> DEFINE list == a.list
<1> DEFINE back == {id \in DOMAIN list : CameBack(id, list[id])}
<1>1. /\ alertStates' = [id \in Ids |-> IF id \in DOMAIN list
                                       THEN NextState(id, list[id]) ELSE NoState]
      /\ answered' = TRUE
      /\ PushAlerts({alertsData[id].severity : id \in back})
      /\ replays' = [id \in Ids |-> replays[id] + IF id \in back THEN 1 ELSE 0]
  BY DEF FollowAlerts
<1>2. list \in Lists /\ DOMAIN list \subseteq DOMAIN alertsData
  BY DEF AnswersOK
<1>3. PICK n \in 0..MaxAlerts : list \in [1..n -> BOOLEAN]
  BY <1>2 DEF Lists
<1> HIDE DEF list
<1>4. NoState \in States /\ ~ NoState.known
  BY DEF NoState, States, DisplayAssumption
<1>5. StatesOK'
  <2>1. ASSUME NEW id \in Ids, id \in DOMAIN list
        PROVE  NextState(id, list[id]) \in States
    BY <1>3, <2>1 DEF NextState, States, StatesOK, DisplayAssumption
  <2>2. alertStates' \in [Ids -> States]
    BY <1>1, <1>4, <2>1
  <2>3. \A id \in Ids : alertStates'[id].known => id \in DOMAIN alertsData'
    BY <1>1, <1>2, <1>4
  <2>4. replays' \in [Ids -> Nat]
    <3>1. \A id \in Ids : replays[id] + (IF id \in back THEN 1 ELSE 0) \in Nat
      BY DEF StatesOK
    <3> HIDE DEF back
    <3> QED BY <1>1, <3>1
  <2> QED BY <1>1, <2>2, <2>3, <2>4 DEF StatesOK
<1> DEFINE S == {alertsData[id].severity : id \in back}
<1>6. IsFiniteSet(S) /\ S \in SUBSET Severities
  <2>1. back \subseteq 1..n /\ n \in Nat
    BY <1>3 DEF DisplayAssumption
  <2>2. IsFiniteSet(back)
    <3>1. IsFiniteSet(1..n)
      BY <2>1, FS_Interval
    <3> HIDE DEF back
    <3> QED BY <2>1, <3>1, FS_Subset
  <2>3. \A id \in back : alertsData[id] \in Alerts
    BY <1>2 DEF DaemonOK
  <2> HIDE DEF back
  <2> DEFINE f == [id \in back |-> alertsData[id].severity]
  <2>4. f \in Surjection(back, S)
    BY DEF Surjection
  <2>5. IsFiniteSet(S)
    <3> HIDE DEF f, S
    <3> QED BY <2>2, <2>4, FS_Surjection
  <2> QED BY <2>3, <2>5 DEF Alerts
<1> HIDE DEF back
<1>7. PushAlerts(S)
  BY <1>1
<1> HIDE DEF S
<1>8. ScreenOK' /\ \A b \in balloon : Stays(b) \/ Replaced(b)
  BY <1>6, <1>7, PushAlertsKeeps
<1> QED BY <1>5, <1>8

LEMMA AnswerKeeps ==
  ASSUME DisplayAssumption, DisplayInv, Answer \/ LoseAnswer
  PROVE  DisplayInv'
<1> USE DEF DisplayInv
<1>1. PICK a \in answers : answers' = answers \ {a}
  BY DEF Answer, LoseAnswer
<1>2. UNCHANGED <<daemon, stream, poll>>
  BY DEF Answer, LoseAnswer
<1>3. faults' \in 0..MaxFaults
  BY DEF Answer, LoseAnswer, Fault, AnswersOK, DisplayAssumption
<1>4. AnswersOK'
  BY <1>1, <1>2, <1>3 DEF AnswersOK
<1>5. StatesOK' /\ ScreenOK'
  <2>1. CASE Answer
    BY <1>2, <2>1, FollowAlertsKeeps DEF Answer
  <2>2. CASE LoseAnswer
    BY <1>2, <2>2, StatesStay, ScreenStays DEF LoseAnswer
  <2> QED BY <2>1, <2>2
<1> QED BY <1>2, <1>4, <1>5, DaemonStays, StreamStays

(* An interval passes: every answer is one older, and so is every state of *)
(* an inactive alert up to ClearTime.                                      *)
LEMMA AgedTyped ==
  ASSUME DisplayAssumption, NEW s \in States
  PROVE  /\ Aged(s) \in States /\ Aged(s).known = s.known /\ Aged(s).active = s.active
         /\ s.known /\ ~ s.active => Aged(s).age = Least(s.age + 1, ClearTime)
<1>1. ClearTime \in Nat /\ s.age \in 0..ClearTime
  BY DEF DisplayAssumption, States
<1>2. Least(s.age + 1, ClearTime) \in 0..ClearTime
  BY <1>1 DEF Least
<1> QED BY <1>2 DEF Aged, States

LEMMA OlderTyped ==
  ASSUME NEW D, NEW a \in [list : Lists, age : D]
  PROVE  /\ [a EXCEPT !.age = @ + 1] = [list |-> a.list, age |-> a.age + 1]
  OBVIOUS

LEMMA TickKeeps ==
  ASSUME DisplayAssumption, DisplayInv, Tick
  PROVE  DisplayInv'
<1> USE DEF DisplayInv
<1>1. /\ ~ poll /\ poll' = TRUE /\ \A a \in answers : a.age < MaxDelay
      /\ answers' = {[a EXCEPT !.age = @ + 1] : a \in answers}
      /\ alertStates' = [id \in Ids |-> Aged(alertStates[id])]
      /\ UNCHANGED <<daemon, stream, answered, replays, faults>>
  BY DEF Tick
<1>2. answers' = {[list |-> a.list, age |-> a.age + 1] : a \in answers}
  BY <1>1, OlderTyped DEF AnswersOK
<1>3. AnswersOK'
  <2>1. \A b \in answers' : \E a \in answers :
          b = [list |-> a.list, age |-> a.age + 1] /\ b.age = a.age + 1 /\ b.list = a.list
    BY <1>2
  <2>2. \A a \in answers : a.list \in Lists /\ a.age \in 0..MaxDelay /\ a.age < MaxDelay
    BY <1>1 DEF AnswersOK
  <2>3. \A a \in answers : a.age + 1 \in 0..MaxDelay /\ a.age + 1 # 0
    BY <2>2 DEF DisplayAssumption
  <2>4. answers' \subseteq [list : Lists, age : 0..MaxDelay]
    BY <2>1, <2>2, <2>3
  <2>5. \A b \in answers' : DOMAIN b.list \subseteq DOMAIN alertsData' /\ b.age # 0
    BY <1>1, <2>1, <2>3 DEF AnswersOK
  <2>6. ASSUME NEW b \in answers', NEW c \in answers', b.age = c.age PROVE b = c
    <3>1. PICK x \in answers : b = [list |-> x.list, age |-> x.age + 1] /\ b.age = x.age + 1
      BY <2>1
    <3>2. PICK y \in answers : c = [list |-> y.list, age |-> y.age + 1] /\ c.age = y.age + 1
      BY <2>1
    <3>3. x.age = y.age
      BY <2>2, <2>6, <3>1, <3>2
    <3> QED BY <3>1, <3>2, <3>3 DEF AnswersOK
  <2> QED BY <1>1, <2>4, <2>5, <2>6 DEF AnswersOK
<1>4. StatesOK'
  <2>1. \A id \in Ids : alertStates[id] \in States
    BY DEF StatesOK
  <2>2. \A id \in Ids : Aged(alertStates[id]) \in States
                        /\ Aged(alertStates[id]).known = alertStates[id].known
    BY <2>1, AgedTyped
  <2> QED BY <1>1, <2>2 DEF StatesOK
<1> QED BY <1>1, <1>3, <1>4, TickKeepsScreen, DaemonStays, StreamStays

LEMMA Inductive ==
  ASSUME DisplayAssumption, DisplayInv, [Next]_vars
  PROVE  DisplayInv'
<1>1. CASE UNCHANGED vars
  BY <1>1, DaemonStays, StreamStays, AnswersStay, StatesStay, ScreenStays
  DEF vars, DisplayInv
<1> QED
  BY <1>1, TimerFiresKeeps, RaiseKeeps, UpdateKeeps, WriteKeeps, SocketKeeps, PollKeeps,
     AnswerKeeps, TickKeeps
  DEF Next, Running

LEMMA AlwaysInv ==
  ASSUME DisplayAssumption
  PROVE  Spec => []DisplayInv
<1>1. Init => DisplayInv
  BY InitOK
<1>2. DisplayInv /\ [Next]_vars => DisplayInv'
  BY Inductive
<1> QED BY <1>1, <1>2, PTL DEF Spec

(* For any number of alerts and any delays: the variables keep their       *)
(* types.  Of the answers of pollAlerts at most one of each age is on its  *)
(* way, and the balloon and its timer come and go together.                *)
THEOREM TypeCorrect == Spec => []TypeOK
<1>1. DisplayInv => TypeOK
  BY InvTyped, DisplayAssumption
<1> QED BY <1>1, AlwaysInv, DisplayAssumption, PTL

LEMMA BalloonStep ==
  ASSUME DisplayAssumption, DisplayInv, [Next]_vars, NEW b \in balloon
  PROVE  Stays(b) \/ Replaced(b) \/ b.age = BalloonTime \/ Click
<1> USE DEF DisplayInv
<1>1. CASE UNCHANGED balloon
  BY <1>1, SameStays
<1>2. CASE Write
  <2> DEFINE S == {alertsData[Head(messages)].severity}
  <2>1. alertsData[Head(messages)] \in Alerts
    BY <1>2, TailOK DEF Write, DaemonOK
  <2>2. S \in SUBSET Severities /\ IsFiniteSet(S)
    BY <2>1, FS_Singleton DEF Alerts
  <2>3. PushAlerts(S)
    BY <1>2 DEF Write
  <2> HIDE DEF S
  <2> QED BY <2>2, <2>3, PushAlertsKeeps
<1>3. CASE Answer
  BY <1>3, FollowAlertsKeeps DEF Answer
<1>4. CASE Tick
  BY <1>4, TickKeepsScreen
<1>5. CASE TimerFires
  BY <1>5 DEF TimerFires, ScreenOK
<1> QED
  BY <1>1, <1>2, <1>3, <1>4, <1>5
  DEF Next, Running, Raise, Update, AddSocket, WriteToOthers, WriteFails, LoseConnection,
      Connect, Poll, LoseAnswer, vars

(* For any severities and times: hideAlertBalloon stops the timer of the   *)
(* balloon it takes away, so that no balloon is taken away early by the    *)
(* timer of one before it.                                                 *)
THEOREM BalloonLastsKept == Spec => BalloonLasts
<1>1. DisplayInv /\ [Next]_vars =>
        [\A b \in balloon :
           Stays(b) \/ Replaced(b) \/ b.age = BalloonTime \/ Click]_vars
  BY BalloonStep, DisplayAssumption
<1> QED BY <1>1, AlwaysInv, DisplayAssumption, PTL DEF Spec, BalloonLasts
-----------------------------------------------------------------------------
(* Replays and comebacks.  Every answer on its way is dated by the number  *)
(* of comebacks there were when its list was taken: cb, by the answer's    *)
(* age.                                                                    *)
On(a, id) == id \in DOMAIN a.list /\ a.list[id]
Off(a, id) == id \in DOMAIN a.list /\ ~ a.list[id]
Active(id) == id \in DOMAIN alertsData /\ alertsData[id].active
Quiet(id) == alertStates[id].known /\ ~ alertStates[id].active
Age(id) == alertStates[id].age
Flying == {a.age : a \in answers}

(* Of the polls between the ages v and g, all those that did not arrive    *)
(* are on their way or among the f lost: if that does not account for all  *)
(* of them, one was heard.                                                 *)
Between(A, v, g) == {b \in A : v < b /\ b < g}
Heard(f, A, v, g) == f + Cardinality(Between(A, v, g)) < g - 1 - v

(* A list that has the alert inactive is older than the comeback that a    *)
(* later list, or the alert as it is, shows.                               *)
Dated(id, cb) ==
  \A a \in answers :
    /\ cb[a.age] <= comebacks[id]
    /\ Off(a, id) /\ Active(id) => cb[a.age] < comebacks[id]
Ordered(id, cb) ==
  \A a, b \in answers : b.age < a.age =>
    /\ cb[a.age] <= cb[b.age]
    /\ Off(a, id) /\ On(b, id) => cb[a.age] < cb[b.age]

(* A list taken since the page has the alert inactive counts the replays   *)
(* before; if it has the alert active and a poll between was heard, which  *)
(* then said inactive, it is after one comeback more.                      *)
Paid(id, cb) ==
  Quiet(id) => \A a \in answers : a.age < Age(id) =>
    /\ replays[id] <= cb[a.age]
    /\ On(a, id) /\ Heard(faults, Flying, a.age, Age(id)) => replays[id] < cb[a.age]

(* So is the list as it is, which the next poll will take. *)
Newest == IF poll THEN 0 ELSE -1
PaidNow(id) ==
  Quiet(id) /\ Active(id) /\ Heard(faults, Flying, Newest, Age(id))
    => replays[id] < comebacks[id]

Counted(id, cb) ==
  /\ Dated(id, cb) /\ Ordered(id, cb) /\ Paid(id, cb)
  /\ PaidNow(id) /\ replays[id] <= comebacks[id]

Dates == [0..MaxDelay -> Nat]
CountsInv == \A id \in Ids : \E cb \in Dates : Counted(id, cb)
-----------------------------------------------------------------------------
(* Of the ages between two ages: what an operation does to their number. *)
LEMMA BetweenFinite ==
  ASSUME DisplayAssumption, NEW A \in SUBSET (0..MaxDelay), NEW v, NEW g
  PROVE  /\ IsFiniteSet(Between(A, v, g)) /\ Cardinality(Between(A, v, g)) \in Nat
         /\ Between(A, v, g) \subseteq A
<1>1. IsFiniteSet(0..MaxDelay)
  BY FS_Interval DEF DisplayAssumption
<1>2. Between(A, v, g) \subseteq A
  BY DEF Between
<1>3. IsFiniteSet(Between(A, v, g))
  BY <1>1, <1>2, FS_Subset
<1> QED BY <1>2, <1>3, FS_CardinalityType

(* More faults leave fewer polls heard. *)
LEMMA HeardByFewerFaults ==
  ASSUME DisplayAssumption, NEW A \in SUBSET (0..MaxDelay), NEW v \in Int, NEW g \in Nat,
         NEW f \in Nat, NEW h \in Nat, f <= h, Heard(h, A, v, g)
  PROVE  Heard(f, A, v, g)
  BY BetweenFinite DEF Heard

(* A lost answer is no longer on its way and is one fault more. *)
LEMMA HeardUnlessLost ==
  ASSUME DisplayAssumption, NEW A \in SUBSET (0..MaxDelay), NEW v \in Int, NEW g \in Nat,
         NEW f \in Nat, NEW x, Heard(f + 1, A \ {x}, v, g)
  PROVE  Heard(f, A, v, g)
<1>1. Between(A \ {x}, v, g) = Between(A, v, g) \ {x}
  BY DEF Between
<1> DEFINE c == Cardinality(Between(A, v, g))
<1> DEFINE d == Cardinality(Between(A \ {x}, v, g))
<1>2. IsFiniteSet(Between(A, v, g)) /\ c \in Nat /\ d \in Nat
  BY BetweenFinite
<1>3. d = c \/ d = c - 1
  BY <1>1, <1>2, FS_RemoveElement
<1>4. f + 1 + d < g - 1 - v
  BY DEF Heard
<1>5. f + c < g - 1 - v
  <2> HIDE DEF c, d
  <2> QED BY <1>2, <1>3, <1>4
<1> QED BY <1>5 DEF Heard

(* An answer that is not between leaves them as they are. *)
LEMMA HeardBesides ==
  ASSUME NEW A, NEW v, NEW g, NEW f, NEW x, ~ (v < x /\ x < g)
  PROVE  /\ Heard(f, A \ {x}, v, g) <=> Heard(f, A, v, g)
         /\ Heard(f, A \cup {x}, v, g) <=> Heard(f, A, v, g)
<1>1. /\ Between(A \ {x}, v, g) = Between(A, v, g)
      /\ Between(A \cup {x}, v, g) = Between(A, v, g)
  BY DEF Between
<1> QED BY <1>1 DEF Heard

(* A poll adds the age 0: that of the next is before it. *)
LEMMA HeardBeforePoll ==
  ASSUME DisplayAssumption, NEW A \in SUBSET (0..MaxDelay), 0 \notin A, NEW g \in Nat,
         NEW f \in Nat, Heard(f, A \cup {0}, -1, g)
  PROVE  Heard(f, A, 0, g)
<1> DEFINE c == Cardinality(Between(A, 0, g))
<1> DEFINE d == Cardinality(Between(A \cup {0}, -1, g))
<1>0. A \cup {0} \in SUBSET (0..MaxDelay)
  BY DEF DisplayAssumption
<1>1. c \in Nat /\ d \in Nat /\ IsFiniteSet(Between(A, 0, g))
  BY <1>0, BetweenFinite
<1>2. f + d < g
  BY <1>1 DEF Heard
<1>3. g > 0
  BY <1>1, <1>2
<1>4. Between(A \cup {0}, -1, g) = Between(A, 0, g) \cup {0} /\ 0 \notin Between(A, 0, g)
  <2>1. \A b \in A : b \in Nat /\ b # 0
    BY DEF DisplayAssumption
  <2>2. \A b \in A \cup {0} : -1 < b /\ (0 < b \/ b = 0)
    BY <2>1
  <2> QED BY <1>3, <2>1, <2>2 DEF Between
<1>5. d = c + 1
  BY <1>1, <1>4, FS_AddElement
<1>6. f + c < g - 1
  <2> HIDE DEF c, d
  <2> QED BY <1>1, <1>2, <1>5
<1> QED BY <1>6 DEF Heard

(* A tick moves all ages on alike. *)
LEMMA HeardLater ==
  ASSUME DisplayAssumption, NEW A \in SUBSET (0..MaxDelay), NEW B \in SUBSET (0..MaxDelay),
         B = {b + 1 : b \in A}, NEW v \in Int, NEW g \in Nat, NEW f \in Nat,
         Heard(f, B, v + 1, g + 1)
  PROVE  Heard(f, A, v, g)
<1> DEFINE S == Between(A, v, g)
<1> DEFINE T == Between(B, v + 1, g + 1)
<1>1. S \subseteq Nat /\ A \subseteq Nat
  <2>1. \A b \in A : b \in Nat
    BY DEF DisplayAssumption
  <2> QED BY <2>1 DEF Between
<1>2. T = {b + 1 : b \in S}
  <2>1. \A b \in A : (v < b /\ b < g) <=> (v + 1 < b + 1 /\ b + 1 < g + 1)
    BY <1>1
  <2> QED BY <2>1 DEF Between
<1>3. IsFiniteSet(S) /\ Cardinality(S) \in Nat /\ Cardinality(T) \in Nat
  BY BetweenFinite
<1> DEFINE F == [b \in S |-> b + 1]
<1>4. F \in Bijection(S, T)
  <2> HIDE DEF S, T
  <2> QED BY <1>1, <1>2 DEF Bijection, Injection, IsInjective, Surjection
<1>5. Cardinality(T) = Cardinality(S)
  <2> HIDE DEF F, S, T
  <2> QED BY <1>3, <1>4, FS_Bijection DEF ExistsBijection
<1>6. f + Cardinality(T) < g + 1 - 1 - (v + 1)
  BY DEF Heard
<1>7. f + Cardinality(S) < g - 1 - v
  <2> HIDE DEF S, T
  <2> QED BY <1>3, <1>5, <1>6
<1> QED BY <1>7 DEF Heard

(* In ClearTime polls one was heard: this is what the page waits for. *)
LEMMA HeardInTime ==
  ASSUME DisplayAssumption, NEW A \in SUBSET (0..MaxDelay), NEW v \in Int,
         v >= -1, v <= MaxDelay, NEW f \in 0..MaxFaults
  PROVE  Heard(f, A, v, ClearTime)
<1> DEFINE S == Between(A, v, ClearTime)
<1>0. MaxDelay \in Nat /\ MaxFaults \in Nat /\ ClearTime \in Nat
      /\ MaxDelay + MaxFaults + 1 < ClearTime
  BY DEF DisplayAssumption
<1>1. S \subseteq (v + 1)..MaxDelay
  <2>1. \A b \in A : b \in 0..MaxDelay
    OBVIOUS
  <2>2. \A b \in A : v < b => b \in (v + 1)..MaxDelay
    BY <1>0, <2>1
  <2> QED BY <2>2 DEF Between
<1>2. /\ IsFiniteSet((v + 1)..MaxDelay)
      /\ Cardinality((v + 1)..MaxDelay) = IF v + 1 > MaxDelay THEN 0 ELSE MaxDelay - (v + 1) + 1
  BY <1>0, FS_Interval
<1>3. Cardinality(S) <= Cardinality((v + 1)..MaxDelay)
  BY <1>1, <1>2, FS_Subset
<1>4. Cardinality(S) \in Nat
  BY BetweenFinite
<1> HIDE DEF S
<1>5. Cardinality(S) <= MaxDelay - v
  BY <1>0, <1>2, <1>3, <1>4
<1>6. f + Cardinality(S) < ClearTime - 1 - v
  BY <1>0, <1>4, <1>5
<1> QED BY <1>6 DEF Heard, S

LEMMA CountTypes ==
  ASSUME DisplayAssumption, DisplayInv, NEW id \in Ids, NEW cb \in Dates
  PROVE  /\ Flying \in SUBSET (0..MaxDelay) /\ faults \in Nat /\ faults \in 0..MaxFaults
         /\ \A a \in answers : /\ a.age \in Nat /\ a.age \in 0..MaxDelay /\ a.age \in Flying
                               /\ cb[a.age] \in Nat
         /\ Newest \in Int /\ Newest >= -1 /\ Newest <= MaxDelay
         /\ replays[id] \in Nat /\ comebacks[id] \in Nat
         /\ Age(id) \in Nat /\ Age(id) <= ClearTime /\ ClearTime \in Nat
<1> USE DEF DisplayInv
<1>1. \A a \in answers : a.age \in 0..MaxDelay
  BY DEF AnswersOK
<1>2. alertStates[id] \in States /\ ClearTime \in Nat /\ MaxFaults \in Nat /\ MaxDelay \in Nat
  BY DEF StatesOK, DisplayAssumption
<1>3. Age(id) \in Nat /\ Age(id) <= ClearTime
  BY <1>2 DEF Age, States
<1>4. Flying \in SUBSET (0..MaxDelay) /\ \A a \in answers : a.age \in Flying
  BY <1>1 DEF Flying
<1>5. faults \in 0..MaxFaults /\ faults \in Nat
  BY <1>2 DEF AnswersOK
<1>6. Newest \in Int /\ Newest >= -1 /\ Newest <= MaxDelay
  BY <1>2 DEF Newest
<1>7. \A a \in answers : a.age \in Nat /\ cb[a.age] \in Nat
  BY <1>1, <1>2 DEF Dates
<1>8. replays[id] \in Nat /\ comebacks[id] \in Nat
  BY DEF StatesOK, DaemonOK
<1> QED BY <1>1, <1>2, <1>3, <1>4, <1>5, <1>6, <1>7, <1>8

(* Faults alone, and all that does not touch lists and states. *)
LEMMA CountedStays ==
  ASSUME DisplayAssumption, DisplayInv, DisplayInv', NEW id \in Ids, NEW cb \in Dates,
         Counted(id, cb), faults' \in Nat, faults <= faults',
         UNCHANGED <<alertsData, comebacks, poll, answers, alertStates, replays>>
  PROVE  Counted(id, cb)'
<1>1. Dated(id, cb)' /\ Ordered(id, cb)' /\ replays'[id] <= comebacks'[id]
  BY DEF Counted, Dated, Ordered, On, Off, Active
<1>2. Flying' = Flying /\ Newest' = Newest /\ Age(id)' = Age(id) /\ Quiet(id)' = Quiet(id)
      /\ Active(id)' = Active(id)
  BY DEF Flying, Newest, Age, Quiet, Active
<1>3. ASSUME NEW v \in Int, Heard(faults', Flying', v, Age(id)')
      PROVE  Heard(faults, Flying, v, Age(id))
  BY <1>2, <1>3, CountTypes, HeardByFewerFaults
<1>4. Paid(id, cb)'
  <2>1. ASSUME NEW a \in answers, Quiet(id), a.age < Age(id)
        PROVE  /\ replays[id] <= cb[a.age]
               /\ On(a, id) /\ Heard(faults', Flying', a.age, Age(id)') => replays[id] < cb[a.age]
    BY <2>1, <1>3, CountTypes DEF Counted, Paid
  <2> QED BY <1>2, <2>1 DEF Paid, On
<1>5. PaidNow(id)'
  BY <1>2, <1>3, CountTypes DEF Counted, PaidNow
<1> QED BY <1>1, <1>4, <1>5 DEF Counted

(* A new alert is not known to anyone yet. *)
LEMMA RaiseCounted ==
  ASSUME DisplayAssumption, DisplayInv, Raise, NEW id \in Ids, NEW cb \in Dates,
         Counted(id, cb)
  PROVE  Counted(id, cb)'
<1>1. /\ UNCHANGED <<poll, answers, alertStates, replays, faults, comebacks>>
      /\ \E e \in Alerts : alertsData' = Append(alertsData, e)
  <2>1. PICK s \in Severities, c \in BOOLEAN :
          alertsData' = Append(alertsData, [severity |-> s, active |-> c, condition |-> c])
    BY DEF Raise
  <2>2. [severity |-> s, active |-> c, condition |-> c] \in Alerts
    BY DEF Alerts
  <2> QED BY <2>1, <2>2 DEF Raise
<1>2. id \in DOMAIN alertsData => Active(id)' = Active(id)
  BY <1>1 DEF Active, DisplayInv, DaemonOK
<1>3. \A a \in answers : Off(a, id) => id \in DOMAIN alertsData
  BY DEF Off, DisplayInv, AnswersOK
<1>4. Quiet(id) => id \in DOMAIN alertsData
  BY DEF Quiet, DisplayInv, StatesOK
<1>5. Dated(id, cb)'
  BY <1>1, <1>2, <1>3 DEF Counted, Dated, Off
<1>6. Ordered(id, cb)' /\ Paid(id, cb)' /\ replays'[id] <= comebacks'[id]
  BY <1>1 DEF Counted, Ordered, Paid, On, Off, Quiet, Age, Flying
<1>7. PaidNow(id)'
  BY <1>1, <1>2, <1>4 DEF Counted, PaidNow, Quiet, Age, Flying, Newest
<1> QED BY <1>5, <1>6, <1>7 DEF Counted

(* A comeback is one more than all that were before. *)
LEMMA UpdateCounted ==
  ASSUME DisplayAssumption, DisplayInv, Update, NEW id \in Ids, NEW cb \in Dates,
         Counted(id, cb)
  PROVE  Counted(id, cb)'
<1>1. UNCHANGED <<poll, answers, alertStates, replays, faults>>
  BY DEF Update, page, states, stream
<1>2. \/ comebacks'[id] = comebacks[id] /\ (Active(id)' => Active(id))
      \/ comebacks'[id] = comebacks[id] + 1
  <2>1. PICK i \in DOMAIN alertsData :
          /\ alertsData' = [alertsData EXCEPT ![i].active = ~ @]
          /\ comebacks' = IF alertsData[i].active
                          THEN comebacks ELSE [comebacks EXCEPT ![i] = @ + 1]
    BY DEF Update
  <2>2. /\ DOMAIN alertsData' = DOMAIN alertsData
        /\ \A j \in DOMAIN alertsData :
              alertsData'[j].active = IF j = i THEN ~ alertsData[j].active
                                      ELSE alertsData[j].active
    BY <2>1, UpdateDoes DEF DisplayInv
  <2>3. comebacks \in [Ids -> Nat]
    BY DEF DisplayInv, DaemonOK
  <2>4. CASE i # id
    BY <2>1, <2>2, <2>3, <2>4 DEF Active
  <2>5. CASE i = id /\ alertsData[i].active
    BY <2>1, <2>2, <2>5 DEF Active
  <2>6. CASE i = id /\ ~ alertsData[i].active
    BY <2>1, <2>3, <2>6
  <2> QED BY <2>4, <2>5, <2>6
<1>3. Ordered(id, cb)' /\ Paid(id, cb)'
  BY <1>1 DEF Counted, Ordered, Paid, On, Off, Quiet, Age, Flying
<1>4. Dated(id, cb)'
  <2>1. ASSUME NEW a \in answers
        PROVE  /\ cb[a.age] <= comebacks'[id]
               /\ Off(a, id) /\ Active(id)' => cb[a.age] < comebacks'[id]
    <3>1. cb[a.age] \in Nat /\ comebacks[id] \in Nat /\ cb[a.age] <= comebacks[id]
          /\ (Off(a, id) /\ Active(id) => cb[a.age] < comebacks[id])
      BY CountTypes DEF Counted, Dated
    <3> QED BY <1>2, <3>1
  <2> QED BY <1>1, <2>1 DEF Dated, Off
<1>5. replays[id] \in Nat /\ comebacks[id] \in Nat /\ replays[id] <= comebacks[id]
  BY CountTypes DEF Counted
<1>6. replays'[id] <= comebacks'[id]
  BY <1>1, <1>2, <1>5
<1>7. PaidNow(id)'
  BY <1>1, <1>2, <1>5 DEF Counted, PaidNow, Quiet, Age, Flying, Newest
<1> QED BY <1>3, <1>4, <1>6, <1>7 DEF Counted

(* A poll is dated by the comebacks there are. *)
LEMMA PollCounted ==
  ASSUME DisplayAssumption, DisplayInv, DisplayInv', Poll, NEW id \in Ids, NEW cb \in Dates,
         Counted(id, cb)
  PROVE  \E cc \in Dates : Counted(id, cc)'
<1> DEFINE new == [list |-> [i \in DOMAIN alertsData |-> alertsData[i].active], age |-> 0]
<1>1. /\ poll /\ poll' = FALSE /\ answers' = answers \cup {new}
      /\ UNCHANGED <<alertsData, comebacks, alertStates, replays, faults>>
  BY DEF Poll
<1>2. new.age = 0 /\ (On(new, id) <=> Active(id)) /\ (Off(new, id) => ~ Active(id))
  BY DEF On, Off, Active
<1> HIDE DEF new
<1>3. PICK k \in Nat : k = comebacks[id]
  BY CountTypes
<1>4. PICK cc \in Dates : cc = [cb EXCEPT ![0] = k]
  BY DEF Dates
<1>5. 0 \in 0..MaxDelay /\ 0 \notin Flying /\ Flying \in SUBSET (0..MaxDelay)
  BY <1>1, CountTypes DEF DisplayInv, AnswersOK, DisplayAssumption, Flying
<1>6. cc[0] = comebacks[id]
  BY <1>3, <1>4, <1>5 DEF Dates
<1>7. \A a \in answers : /\ a.age # 0 /\ a.age > 0 /\ a.age \in Nat /\ cb[a.age] \in Nat
                         /\ cc[a.age] = cb[a.age]
  <2>1. \A a \in answers : a.age \in 0..MaxDelay /\ a.age \in Nat /\ cb[a.age] \in Nat
    BY CountTypes
  <2>2. \A a \in answers : a.age # 0
    BY <1>1 DEF DisplayInv, AnswersOK
  <2> QED BY <1>4, <2>1, <2>2 DEF Dates
<1>8. /\ Flying' = Flying \cup {0} /\ Newest = 0 /\ Newest' = -1
      /\ Age(id)' = Age(id) /\ (Quiet(id)' <=> Quiet(id)) /\ (Active(id)' <=> Active(id))
  BY <1>1, <1>2 DEF Flying, Newest, Age, Quiet, Active
<1>9. comebacks[id] \in Nat /\ replays[id] \in Nat /\ replays[id] <= comebacks[id]
  BY CountTypes DEF Counted
<1>10. \A a \in answers : /\ cb[a.age] <= comebacks[id]
                          /\ Off(a, id) /\ Active(id) => cb[a.age] < comebacks[id]
  BY DEF Counted, Dated
<1>11. Dated(id, cc)'
  <2>1. ASSUME NEW a \in answers'
        PROVE  /\ cc[a.age] <= comebacks[id]
               /\ Off(a, id) /\ Active(id) => cc[a.age] < comebacks[id]
    <3>1. CASE a = new
      BY <3>1, <1>2, <1>6, <1>9
    <3>2. CASE a \in answers
      BY <3>2, <1>7, <1>10
    <3> QED BY <1>1, <3>1, <3>2
  <2> QED BY <1>1, <1>8, <2>1 DEF Dated, Off
<1>12. Ordered(id, cc)'
  <2>1. ASSUME NEW a \in answers', NEW b \in answers', b.age < a.age
        PROVE  /\ cc[a.age] <= cc[b.age]
               /\ Off(a, id) /\ On(b, id) => cc[a.age] < cc[b.age]
    <3>1. CASE a = new
      BY <3>1, <2>1, <1>1, <1>2, <1>7
    <3>2. CASE a \in answers /\ b = new
      BY <3>2, <1>2, <1>6, <1>7, <1>10
    <3>3. CASE a \in answers /\ b \in answers
      BY <3>3, <2>1, <1>7 DEF Counted, Ordered
    <3> QED BY <1>1, <3>1, <3>2, <3>3
  <2> QED BY <2>1 DEF Ordered, On, Off
<1>13. Paid(id, cc)'
  <2>1. ASSUME NEW a \in answers', Quiet(id), a.age < Age(id)
        PROVE  /\ replays[id] <= cc[a.age]
               /\ On(a, id) /\ Heard(faults, Flying', a.age, Age(id)) => replays[id] < cc[a.age]
    <3>1. CASE a = new
      <4>1. ~ (0 < 0 /\ 0 < Age(id))
        OBVIOUS
      <4>2. Heard(faults, Flying', 0, Age(id)) => Heard(faults, Flying, 0, Age(id))
        BY <1>8, <4>1, HeardBesides
      <4> QED BY <3>1, <4>2, <2>1, <1>2, <1>6, <1>8, <1>9 DEF Counted, PaidNow
    <3>2. CASE a \in answers
      <4>1. ~ (a.age < 0 /\ 0 < Age(id))
        BY <3>2, <1>7
      <4>2. Heard(faults, Flying', a.age, Age(id)) => Heard(faults, Flying, a.age, Age(id))
        BY <1>8, <4>1, HeardBesides
      <4> QED BY <3>2, <4>2, <2>1, <1>7 DEF Counted, Paid
    <3> QED BY <1>1, <3>1, <3>2
  <2> QED BY <1>1, <1>8, <2>1 DEF Paid, On
<1>14. PaidNow(id)'
  <2>1. Heard(faults, Flying', -1, Age(id)) => Heard(faults, Flying, 0, Age(id))
    BY <1>5, <1>8, CountTypes, HeardBeforePoll
  <2> QED BY <1>1, <1>8, <2>1 DEF Counted, PaidNow
<1>15. replays'[id] <= comebacks'[id]
  BY <1>1, <1>9
<1> QED BY <1>11, <1>12, <1>13, <1>14, <1>15 DEF Counted

(* An answer that leaves takes its date with it. *)
LEMMA FewerAnswers ==
  ASSUME DisplayAssumption, DisplayInv, NEW id \in Ids, NEW cb \in Dates, Counted(id, cb),
         NEW x \in answers, answers' = answers \ {x}, UNCHANGED <<alertsData, comebacks>>
  PROVE  /\ Dated(id, cb)' /\ Ordered(id, cb)'
         /\ Flying' = Flying \ {x.age}
<1>1. Dated(id, cb)'
  BY DEF Counted, Dated, Active, Off
<1>2. Ordered(id, cb)'
  BY DEF Counted, Ordered, On, Off
<1>3. Flying' = Flying \ {x.age}
  BY DEF Flying, DisplayInv, AnswersOK
<1> QED BY <1>1, <1>2, <1>3

LEMMA LoseAnswerCounted ==
  ASSUME DisplayAssumption, DisplayInv, LoseAnswer, NEW id \in Ids, NEW cb \in Dates,
         Counted(id, cb)
  PROVE  Counted(id, cb)'
<1>1. PICK x \in answers : answers' = answers \ {x}
  BY DEF LoseAnswer
<1>2. faults' = faults + 1
      /\ UNCHANGED <<alertsData, comebacks, poll, alertStates, replays>>
  BY DEF LoseAnswer, Fault
<1>3. Dated(id, cb)' /\ Ordered(id, cb)' /\ Flying' = Flying \ {x.age}
  BY <1>1, <1>2, FewerAnswers
<1>4. Newest' = Newest /\ Age(id)' = Age(id) /\ (Quiet(id)' <=> Quiet(id))
      /\ (Active(id)' <=> Active(id))
  BY <1>2 DEF Newest, Age, Quiet, Active
<1>5. ASSUME NEW v \in Int, Heard(faults', Flying', v, Age(id))
      PROVE  Heard(faults, Flying, v, Age(id))
  BY <1>2, <1>3, <1>5, CountTypes, HeardUnlessLost
<1>6. Paid(id, cb)'
  <2>1. ASSUME NEW a \in answers', Quiet(id), a.age < Age(id)
        PROVE  /\ replays[id] <= cb[a.age]
               /\ On(a, id) /\ Heard(faults', Flying', a.age, Age(id)) => replays[id] < cb[a.age]
    <3>1. a \in answers /\ a.age \in Int
      BY <1>1, CountTypes
    <3> QED BY <3>1, <2>1, <1>5 DEF Counted, Paid
  <2> QED BY <1>2, <1>4, <2>1 DEF Paid, On
<1>7. PaidNow(id)'
  BY <1>2, <1>4, <1>5, CountTypes DEF Counted, PaidNow
<1>8. replays'[id] <= comebacks'[id]
  BY <1>2 DEF Counted
<1> QED BY <1>3, <1>6, <1>7, <1>8 DEF Counted

(* What an answer tells the page of one alert: nothing, that it is active, *)
(* perhaps for a replay, or that it is inactive.                           *)
LEMMA AnswerTells ==
  ASSUME DisplayInv, NEW id \in Ids, NEW x \in answers, FollowAlerts(x.list)
  PROVE  \/ ~ Quiet(id)' /\ replays'[id] = replays[id]
         \/ /\ ~ Quiet(id)' /\ replays'[id] = replays[id] + 1
            /\ On(x, id) /\ Quiet(id) /\ Age(id) >= ClearTime
         \/ /\ replays'[id] = replays[id] /\ Off(x, id)
            /\ Age(id)' = 0 \/ (Quiet(id) /\ Age(id)' = Age(id))
<1> DEFINE list == x.list
<1>0. replays[id] \in Nat
  BY DEF DisplayInv, StatesOK
<1>1. /\ alertStates'[id] = IF id \in DOMAIN list THEN NextState(id, list[id]) ELSE NoState
      /\ replays'[id] = replays[id] +
           IF id \in DOMAIN list /\ CameBack(id, list[id]) THEN 1 ELSE 0
  BY DEF FollowAlerts
<1>2. CASE id \notin DOMAIN list
  BY <1>0, <1>1, <1>2 DEF Quiet, NoState
<1>3. CASE On(x, id)
  <2>0. list[id] = TRUE
    BY <1>3 DEF On, DisplayInv, AnswersOK, Lists
  <2>1. alertStates'[id].active
    <3>1. alertStates'[id] = NextState(id, TRUE)
      BY <1>1, <1>3, <2>0 DEF On
    <3> QED BY <3>1 DEF NextState
  <2>2. CASE CameBack(id, list[id])
    BY <1>1, <1>3, <2>1, <2>2 DEF CameBack, Known, Quiet, Age, On
  <2>3. CASE ~ CameBack(id, list[id])
    BY <1>0, <1>1, <2>1, <2>3 DEF Quiet
  <2> QED BY <2>2, <2>3
<1>4. CASE Off(x, id)
  <2>1. ~ CameBack(id, list[id])
    BY <1>4 DEF CameBack, Off
  <2>2. replays'[id] = replays[id]
    BY <1>0, <1>1, <2>1
  <2>3. CASE Known(id) /\ alertStates[id].active = list[id]
    BY <1>1, <1>4, <2>2, <2>3 DEF NextState, Off, Known, Quiet, Age
  <2>4. CASE ~ (Known(id) /\ alertStates[id].active = list[id])
    BY <1>1, <1>4, <2>2, <2>4 DEF NextState, Off, Age
  <2> QED BY <2>3, <2>4
<1> QED BY <1>2, <1>3, <1>4 DEF On, Off

LEMMA AnswerCounted ==
  ASSUME DisplayAssumption, DisplayInv, Answer, NEW id \in Ids, NEW cb \in Dates,
         Counted(id, cb)
  PROVE  Counted(id, cb)'
<1>1. PICK x \in answers : answers' = answers \ {x} /\ FollowAlerts(x.list)
  BY DEF Answer
<1>2. UNCHANGED <<alertsData, comebacks, poll, faults>>
  BY DEF Answer
<1>3. Dated(id, cb)' /\ Ordered(id, cb)' /\ Flying' = Flying \ {x.age}
  BY <1>1, <1>2, FewerAnswers
<1>4. Newest' = Newest /\ (Active(id)' <=> Active(id))
  BY <1>2 DEF Newest, Active
<1>5. /\ replays[id] \in Nat /\ comebacks[id] \in Nat /\ cb[x.age] \in Nat
      /\ replays[id] <= comebacks[id] /\ cb[x.age] <= comebacks[id]
      /\ x.age \in Nat /\ x.age \in 0..MaxDelay
      /\ Age(id) \in Nat /\ Age(id) <= ClearTime /\ ClearTime \in Nat
  BY CountTypes DEF Counted, Dated
<1>6. CASE ~ Quiet(id)' /\ replays'[id] = replays[id]
  BY <1>2, <1>3, <1>5, <1>6 DEF Counted, Paid, PaidNow
<1>7. CASE /\ ~ Quiet(id)' /\ replays'[id] = replays[id] + 1
           /\ On(x, id) /\ Quiet(id) /\ Age(id) >= ClearTime
  <2>1. Age(id) = ClearTime /\ x.age < Age(id)
    BY <1>5, <1>7 DEF DisplayAssumption
  <2>2. Heard(faults, Flying, x.age, Age(id))
    <3>1. x.age \in Int /\ x.age >= -1 /\ x.age <= MaxDelay
      BY <1>5 DEF DisplayAssumption
    <3>2. Flying \in SUBSET (0..MaxDelay) /\ faults \in 0..MaxFaults
      BY CountTypes
    <3> QED BY <2>1, <3>1, <3>2, HeardInTime
  <2>3. replays[id] < cb[x.age]
    BY <1>7, <2>1, <2>2 DEF Counted, Paid
  <2>4. replays'[id] <= comebacks'[id]
    BY <1>2, <1>5, <1>7, <2>3
  <2> QED BY <1>3, <1>7, <2>4 DEF Counted, Paid, PaidNow
<1>8. CASE replays'[id] = replays[id] /\ Age(id)' = 0
  <2>1. Paid(id, cb)'
    <3>1. \A a \in answers : ~ (a.age < 0)
      BY CountTypes
    <3> QED BY <1>1, <1>8, <3>1 DEF Paid
  <2>2. ~ Heard(faults, Flying', Newest, 0)
    <3>1. /\ Flying' \in SUBSET (0..MaxDelay) /\ faults \in Nat
          /\ Newest \in Int /\ Newest >= -1
      BY <1>3, CountTypes
    <3>2. Cardinality(Between(Flying', Newest, 0)) \in Nat
      BY <3>1, BetweenFinite
    <3> DEFINE c == Cardinality(Between(Flying', Newest, 0))
    <3>3. ~ (faults + c < 0 - 1 - Newest)
      <4> HIDE DEF c
      <4>1. c \in Nat
        BY <3>2 DEF c
      <4> QED BY <3>1, <4>1
    <3> QED BY <3>3 DEF Heard
  <2>3. PaidNow(id)'
    BY <1>2, <1>4, <1>8, <2>2 DEF PaidNow
  <2> QED BY <1>2, <1>3, <1>5, <1>8, <2>1, <2>3 DEF Counted
<1>9. CASE /\ replays'[id] = replays[id] /\ Off(x, id)
           /\ Quiet(id) /\ Age(id)' = Age(id)
  <2>1. x.age < Age(id) => replays[id] <= cb[x.age]
    BY <1>9 DEF Counted, Paid
  <2>2. ASSUME NEW v, Heard(faults, Flying', v, Age(id)), ~ (v < x.age /\ x.age < Age(id))
        PROVE  Heard(faults, Flying, v, Age(id))
    BY <1>3, <2>2, HeardBesides
  <2>3. Paid(id, cb)'
    <3>1. ASSUME NEW a \in answers', a.age < Age(id)
          PROVE  /\ replays[id] <= cb[a.age]
                 /\ On(a, id) /\ Heard(faults, Flying', a.age, Age(id))
                      => replays[id] < cb[a.age]
      <4>1. a \in answers /\ cb[a.age] \in Nat
        BY <1>1, CountTypes
      <4>2. CASE a.age < x.age /\ x.age < Age(id)
        <5>1. On(a, id) => cb[x.age] < cb[a.age]
          BY <1>9, <4>1, <4>2 DEF Counted, Ordered
        <5>2. replays[id] <= cb[a.age]
          BY <1>9, <3>1, <4>1 DEF Counted, Paid
        <5> QED BY <1>5, <2>1, <4>1, <4>2, <5>1, <5>2
      <4>3. CASE ~ (a.age < x.age /\ x.age < Age(id))
        BY <1>9, <2>2, <3>1, <4>1, <4>3 DEF Counted, Paid
      <4> QED BY <4>2, <4>3
    <3> QED BY <1>2, <1>9, <3>1 DEF Paid, On
  <2>4. PaidNow(id)'
    <3>1. ASSUME Active(id), Heard(faults, Flying', Newest, Age(id))
          PROVE  replays[id] < comebacks[id]
      <4>1. CASE Newest < x.age /\ x.age < Age(id)
        <5>1. cb[x.age] < comebacks[id]
          BY <1>9, <3>1 DEF Counted, Dated
        <5> QED BY <1>5, <2>1, <4>1, <5>1
      <4>2. CASE ~ (Newest < x.age /\ x.age < Age(id))
        BY <1>9, <2>2, <3>1, <4>2 DEF Counted, PaidNow
      <4> QED BY <4>1, <4>2
    <3> QED BY <1>2, <1>4, <1>9, <3>1 DEF PaidNow
  <2> QED BY <1>2, <1>3, <1>5, <1>9, <2>3, <2>4 DEF Counted
<1> QED BY <1>1, <1>6, <1>7, <1>8, <1>9, AnswerTells

(* All ages move on, and so do the dates. *)
LEMMA TickCounted ==
  ASSUME DisplayAssumption, DisplayInv, DisplayInv', Tick, NEW id \in Ids, NEW cb \in Dates,
         Counted(id, cb)
  PROVE  \E cc \in Dates : Counted(id, cc)'
<1>1. /\ ~ poll /\ poll' = TRUE /\ \A a \in answers : a.age < MaxDelay
      /\ answers' = {[a EXCEPT !.age = @ + 1] : a \in answers}
      /\ alertStates' = [i \in Ids |-> Aged(alertStates[i])]
      /\ UNCHANGED <<alertsData, comebacks, replays, faults>>
  BY DEF Tick
<1> DEFINE cc == [n \in 0..MaxDelay |-> IF n = 0 THEN 0 ELSE cb[n - 1]]
<1>2. cc \in Dates
  <2>1. \A n \in 0..MaxDelay : n # 0 => n - 1 \in 0..MaxDelay
    BY DEF DisplayAssumption
  <2> QED BY <2>1 DEF Dates
<1>0. answers' = {[list |-> a.list, age |-> a.age + 1] : a \in answers}
  BY <1>1, OlderTyped DEF DisplayInv, AnswersOK
<1>3. \A b \in answers' : \E a \in answers :
        /\ b.age = a.age + 1 /\ cc[b.age] = cb[a.age]
        /\ (On(b, id) <=> On(a, id)) /\ (Off(b, id) <=> Off(a, id))
  <2>1. ASSUME NEW b \in answers'
        PROVE  \E a \in answers :
                 /\ b.age = a.age + 1 /\ cc[b.age] = cb[a.age]
                 /\ (On(b, id) <=> On(a, id)) /\ (Off(b, id) <=> Off(a, id))
    <3>1. PICK a \in answers : b = [list |-> a.list, age |-> a.age + 1]
      BY <1>0
    <3>2. b.age = a.age + 1 /\ b.list = a.list
      BY <3>1
    <3>3. a.age + 1 \in 0..MaxDelay /\ a.age + 1 # 0 /\ (a.age + 1) - 1 = a.age
      BY <1>1 DEF DisplayInv, AnswersOK, DisplayAssumption
    <3>4. cc[a.age + 1] = cb[a.age]
      BY <3>3
    <3>5. (On(b, id) <=> On(a, id)) /\ (Off(b, id) <=> Off(a, id))
      BY <3>2 DEF On, Off
    <3> HIDE DEF cc
    <3> QED BY <3>2, <3>4, <3>5
  <2> QED BY <2>1
<1> HIDE DEF cc
<1>4. Flying' = {n + 1 : n \in Flying} /\ Flying' \in SUBSET (0..MaxDelay)
  <2>1. Flying' = {[list |-> a.list, age |-> a.age + 1].age : a \in answers}
    BY <1>0 DEF Flying
  <2>2. Flying' = {n + 1 : n \in Flying}
    BY <2>1 DEF Flying
  <2>3. \A b \in answers' : b.age \in 0..MaxDelay
    BY DEF DisplayInv, AnswersOK
  <2> QED BY <2>2, <2>3 DEF Flying
<1>5. Newest = -1 /\ Newest' = 0 /\ (Active(id)' <=> Active(id))
  BY <1>1 DEF Newest, Active
<1>6. /\ Quiet(id)' <=> Quiet(id)
      /\ Quiet(id) => Age(id)' = Least(Age(id) + 1, ClearTime)
  <2>1. alertStates[id] \in States
    BY DEF DisplayInv, StatesOK
  <2> QED BY <1>1, <2>1, AgedTyped DEF Quiet, Age
<1>7. /\ Age(id) \in Nat /\ Age(id) <= ClearTime /\ ClearTime \in Nat
      /\ Flying \in SUBSET (0..MaxDelay) /\ faults \in Nat /\ faults \in 0..MaxFaults
      /\ MaxDelay \in Nat
  BY CountTypes DEF DisplayAssumption
<1>8. ASSUME NEW v \in Int, v >= -1, v <= MaxDelay, Quiet(id),
             Heard(faults, Flying', v + 1, Age(id)')
      PROVE  Heard(faults, Flying, v, Age(id))
  <2>1. CASE Age(id) = ClearTime
    BY <1>7, <1>8, <2>1, HeardInTime
  <2>2. CASE Age(id) # ClearTime
    <3>1. Age(id)' = Age(id) + 1
      BY <1>6, <1>7, <1>8, <2>2 DEF Least
    <3> QED BY <1>4, <1>7, <1>8, <3>1, HeardLater
  <2> QED BY <2>1, <2>2
<1>9. \A a \in answers : a.age \in Nat /\ a.age \in 0..MaxDelay /\ cb[a.age] \in Nat
  BY CountTypes
<1>10. Dated(id, cc)'
  <2>1. ASSUME NEW b \in answers'
        PROVE  /\ cc[b.age] <= comebacks[id]
               /\ Off(b, id) /\ Active(id) => cc[b.age] < comebacks[id]
    <3>1. PICK a \in answers : cc[b.age] = cb[a.age] /\ (Off(b, id) <=> Off(a, id))
      BY <1>3
    <3> QED BY <3>1 DEF Counted, Dated
  <2> QED BY <1>1, <1>5, <2>1 DEF Dated, Off
<1>11. Ordered(id, cc)'
  <2>1. ASSUME NEW a \in answers', NEW b \in answers', b.age < a.age
        PROVE  /\ cc[a.age] <= cc[b.age]
               /\ Off(a, id) /\ On(b, id) => cc[a.age] < cc[b.age]
    <3>1. PICK x \in answers : /\ a.age = x.age + 1 /\ cc[a.age] = cb[x.age]
                              /\ (Off(a, id) <=> Off(x, id))
      BY <1>3
    <3>2. PICK y \in answers : /\ b.age = y.age + 1 /\ cc[b.age] = cb[y.age]
                              /\ (On(b, id) <=> On(y, id))
      BY <1>3
    <3>3. y.age < x.age
      BY <1>9, <2>1, <3>1, <3>2
    <3> QED BY <3>1, <3>2, <3>3 DEF Counted, Ordered
  <2> QED BY <2>1 DEF Ordered, On, Off
<1>12. Paid(id, cc)'
  <2>1. ASSUME NEW b \in answers', Quiet(id), b.age < Age(id)'
        PROVE  /\ replays[id] <= cc[b.age]
               /\ On(b, id) /\ Heard(faults, Flying', b.age, Age(id)') => replays[id] < cc[b.age]
    <3>1. PICK a \in answers : /\ b.age = a.age + 1 /\ cc[b.age] = cb[a.age]
                              /\ (On(b, id) <=> On(a, id))
      BY <1>3
    <3>2. a.age \in Nat /\ a.age <= MaxDelay /\ a.age >= -1
      BY <1>7, <1>9
    <3>3. a.age < Age(id)
      BY <1>6, <1>7, <2>1, <3>1, <3>2 DEF Least
    <3>4. Heard(faults, Flying', b.age, Age(id)') => Heard(faults, Flying, a.age, Age(id))
      BY <1>8, <2>1, <3>1, <3>2
    <3> QED BY <2>1, <3>1, <3>3, <3>4 DEF Counted, Paid
  <2> QED BY <1>1, <1>6, <2>1 DEF Paid, On
<1>13. PaidNow(id)'
  <2>1. Quiet(id) /\ Heard(faults, Flying', 0, Age(id)') => Heard(faults, Flying, -1, Age(id))
    <3>1. -1 \in Int /\ -1 >= -1 /\ -1 <= MaxDelay /\ -1 + 1 = 0
      BY <1>7
    <3> QED BY <1>8, <3>1
  <2> QED BY <1>1, <1>5, <1>6, <2>1 DEF Counted, PaidNow
<1>14. replays'[id] <= comebacks'[id]
  BY <1>1 DEF Counted
<1> QED BY <1>2, <1>10, <1>11, <1>12, <1>13, <1>14 DEF Counted

LEMMA CountsInductive ==
  ASSUME DisplayAssumption, DisplayInv, DisplayInv', CountsInv, [Next]_vars
  PROVE  CountsInv'
<1> SUFFICES ASSUME NEW id \in Ids PROVE \E cc \in Dates : Counted(id, cc)'
  BY DEF CountsInv
<1>1. PICK cb \in Dates : Counted(id, cb)
  BY DEF CountsInv
<1>2. CASE \/ AddSocket \/ Write \/ WriteToOthers \/ Connect \/ TimerFires
           \/ WriteFails \/ LoseConnection \/ Click \/ UNCHANGED vars
  <2>1. UNCHANGED <<alertsData, comebacks, poll, answers, alertStates, replays>>
    BY <1>2 DEF AddSocket, Write, WriteToOthers, Connect, TimerFires, WriteFails,
                LoseConnection, Click, vars
  <2>2. faults' \in Nat /\ faults \in Nat
    BY DEF DisplayInv, AnswersOK
  <2>3. faults' = faults \/ faults' = faults + 1
    BY <1>2 DEF AddSocket, Write, WriteToOthers, Connect, TimerFires, WriteFails,
                LoseConnection, Click, Fault, vars
  <2>4. faults <= faults'
    BY <2>2, <2>3
  <2> QED BY <1>1, <2>1, <2>2, <2>4, CountedStays
<1>3. CASE Poll
  BY <1>1, <1>3, PollCounted
<1>4. CASE Tick
  BY <1>1, <1>4, TickCounted
<1>5. CASE Answer
  BY <1>1, <1>5, AnswerCounted
<1>6. CASE LoseAnswer
  BY <1>1, <1>6, LoseAnswerCounted
<1>7. CASE Raise
  BY <1>1, <1>7, RaiseCounted
<1>8. CASE Update
  BY <1>1, <1>8, UpdateCounted
<1> QED BY <1>2, <1>3, <1>4, <1>5, <1>6, <1>7, <1>8 DEF Next, Running

LEMMA CountsInit ==
  ASSUME DisplayAssumption, Init
  PROVE  CountsInv
<1> SUFFICES ASSUME NEW id \in Ids PROVE \E cb \in Dates : Counted(id, cb)
  BY DEF CountsInv
<1> DEFINE cb == [n \in 0..MaxDelay |-> 0]
<1>1. cb \in Dates
  BY DEF Dates
<1> HIDE DEF cb
<1>2. answers = {} /\ ~ Quiet(id) /\ replays[id] = 0 /\ comebacks[id] = 0
  BY DEF Init, Quiet, NoState
<1>3. Counted(id, cb)
  BY <1>2 DEF Counted, Dated, Ordered, Paid, PaidNow
<1> QED BY <1>1, <1>3

(* For any number of alerts, delays and faults, as long as ClearTime is    *)
(* more than the delays and faults can fill: followAlerts replays the      *)
(* alarm of an alert at most as often as its condition came back, although *)
(* it takes the lists as they arrive and cannot tell an older from a newer.*)
THEOREM ReplaysAreRealKept == Spec => []ReplaysAreReal
<1>1. Init => CountsInv
  BY CountsInit, DisplayAssumption
<1>2. DisplayInv /\ DisplayInv' /\ CountsInv /\ [Next]_vars => CountsInv'
  BY CountsInductive, DisplayAssumption
<1>3. CountsInv => ReplaysAreReal
  BY DEF CountsInv, Counted, ReplaysAreReal
<1> QED BY <1>1, <1>2, <1>3, AlwaysInv, DisplayAssumption, PTL DEF Spec
=============================================================================
