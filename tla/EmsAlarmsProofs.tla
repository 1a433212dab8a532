------------------------- MODULE EmsAlarmsProofs -------------------------
(* The engine alarms, for any rules, handlers, interval and bound.  The          *)
(* inductive invariant says of every alert of the list whether it is to be       *)
(* active, in terms of the colours and identifiers that validateRules keeps:     *)
(* the alert is found by its identifier alone, so identifiers must differ and    *)
(* the kept ones must name the right alerts.                                     *)
EXTENDS EmsAlarms, FiniteSetTheorems, SequenceTheorems, WellFoundedInduction, TLAPS

Differ(list) == \A i, j \in DOMAIN list : list[i].id = list[j].id => i = j

(* Whether an alert is to be active.                                             *)
Wanted(a) ==
    \/ /\ a.rule \in Names /\ a.color \in AlarmColors
       /\ ruleColors[a.rule] = a.color /\ ~Entering(a.rule)
       /\ ruleAlertIds[a.rule][a.color] = a.id
    \/ a.rule = Feed /\ feedLost /\ feedAlertId = a.id

(* The kept identifier of a rule and colour names an alert raised for them.      *)
Known(r, c) ==
    \E i \in DOMAIN alertsData :
        /\ alertsData[i].rule = r /\ alertsData[i].color = c
        /\ alertsData[i].id = ruleAlertIds[r][c]

OneFrame ==
    /\ \A g, h \in Handlers : at[g] # "idle" /\ at[h] # "idle" => g = h
    /\ \A h \in Handlers : at[h] \in {"stays", "enters"} =>
           next[h] <= Len(RuleList) /\ ruleColors[Rule(h)] \in AlarmColors

Room ==
    /\ \A h \in Handlers : at[h] # "idle" =>
           Len(alertsData) + (Len(RuleList) + 2 - next[h]) <= MaxAlerts
    /\ Len(alertsData) < MaxAlerts \/ (feedLost /\ Silent)

(* An alert of a rule that is younger than the interval is the one that was      *)
(* raised last for its rule and colour.                                          *)
YoungIsLatest ==
    \A i \in DOMAIN alertsData :
        alertsData[i].rule \in Names =>
            /\ alertsData[i].color \in AlarmColors
            /\ alertsData[i].age < Interval =>
                 /\ alertsData[i].id = ruleAlertIds[alertsData[i].rule][alertsData[i].color]
                 /\ alertsData[i].age = ruleAlertTimes[alertsData[i].rule][alertsData[i].color]

IdsKnown ==
    /\ \A r \in Names, c \in AlarmColors :
           ruleAlertTimes[r][c] < Interval \/ (ruleColors[r] = c /\ ~Entering(r)) => Known(r, c)
    /\ feedLost => \E i \in DOMAIN alertsData :
           alertsData[i].rule = Feed /\ alertsData[i].id = feedAlertId

ActiveAsWanted == \A i \in DOMAIN alertsData : alertsData[i].active <=> Wanted(alertsData[i])

EmsInv ==
    /\ TypeOK
    /\ Differ(alertsData)
    /\ OneFrame
    /\ Room
    /\ YoungIsLatest
    /\ IdsKnown
    /\ ActiveAsWanted
---------------------------------------------------------------------------
(* A list shorter than the day leaves an identifier free, and newEventId finds   *)
(* one.                                                                          *)
LEMMA NewEventIdIsFree ==
    ASSUME NEW list \in Seq(Alerts), Len(list) < Day, NEW t \in Times
    PROVE  /\ NewEventId(list, t) \in Times
           /\ \A i \in DOMAIN list : list[i].id # NewEventId(list, t)
<1> DEFINE free == Times \ TakenIds(list)
           ahead == {Ahead(t, id) : id \in free}
<1>1. free # {}
  <2>1. SUFFICES ASSUME free = {} PROVE FALSE
    OBVIOUS
  <2>2. Day \in Nat /\ Len(list) \in Nat /\ DOMAIN list = 1 .. Len(list)
    BY DayAssumption, LenProperties
  <2>3. IsFiniteSet(1 .. Len(list)) /\ Cardinality(1 .. Len(list)) = Len(list)
    <3>1. 1 \in Int /\ Len(list) \in Int
      BY <2>2
    <3>2. /\ IsFiniteSet(1 .. Len(list))
          /\ Cardinality(1 .. Len(list)) = IF 1 > Len(list) THEN 0 ELSE Len(list) - 1 + 1
      BY <3>1, FS_Interval, Zenon
    <3> QED
      BY <2>2, <3>2
  <2>4. TakenIds(list) = {list[i].id : i \in 1 .. Len(list)}
    BY <2>2 DEF TakenIds
  <2>5. [i \in 1 .. Len(list) |-> list[i].id] \in Surjection(1 .. Len(list), TakenIds(list))
    BY <2>4 DEF Surjection
  <2>6. IsFiniteSet(TakenIds(list)) /\ Cardinality(TakenIds(list)) <= Len(list)
    BY <2>3, <2>5, FS_Surjection
  <2>7. Times \in SUBSET TakenIds(list)
    BY <2>1
  <2>8. Cardinality(Times) <= Cardinality(TakenIds(list))
    BY <2>6, <2>7, FS_Subset
  <2>9. Cardinality(Times) = Day
    <3>1. 0 \in Int /\ Day - 1 \in Int
      BY DayAssumption
    <3>2. Cardinality(0 .. Day - 1) = IF 0 > Day - 1 THEN 0 ELSE (Day - 1) - 0 + 1
      BY <3>1, FS_Interval, Zenon
    <3> QED
      BY <3>2, DayAssumption DEF Times
  <2>10. Cardinality(TakenIds(list)) \in Nat
    BY <2>6, FS_CardinalityType
  <2> QED
    BY <2>2, <2>6, <2>8, <2>9, <2>10
<1>2. \A id \in Times : Ahead(t, id) \in Nat
  BY DayAssumption DEF Times, Ahead
<1>3. \E id \in free : \A other \in free : Ahead(t, id) <= Ahead(t, other)
  <2>1. ahead # {} /\ ahead \subseteq Nat
    BY <1>1, <1>2
  <2>2. PICK x \in ahead : \A y \in ahead : ~(<<y, x>> \in OpToRel(<, Nat))
    BY <2>1, NatLessThanWellFounded, WFMin
  <2>3. \A y \in ahead : ~(y < x)
    BY <2>1, <2>2 DEF OpToRel
  <2>4. PICK id \in free : x = Ahead(t, id)
    BY <2>2
  <2>5. ASSUME NEW other \in free PROVE Ahead(t, id) <= Ahead(t, other)
    <3>1. Ahead(t, other) \in ahead /\ Ahead(t, other) \in Nat /\ Ahead(t, id) \in Nat
      BY <1>2
    <3>2. ~(Ahead(t, other) < Ahead(t, id))
      BY <2>3, <2>4, <3>1
    <3> HIDE DEF free, ahead
    <3> QED
      BY <3>1, <3>2
  <2> QED
    BY <2>5
<1>4. NewEventId(list, t) \in free
  BY <1>3 DEF NewEventId
<1> QED
  BY <1>4 DEF TakenIds

(* An alert of the list has the fields of one.                                   *)
LEMMA AlertFields ==
    ASSUME NEW list \in Seq(Alerts), NEW i \in DOMAIN list
    PROVE  /\ list[i] \in Alerts
           /\ list[i].id \in Times /\ list[i].active \in BOOLEAN
           /\ list[i].rule \in Names \cup {Feed, Other}
           /\ list[i].color \in Colors /\ list[i].age \in 0 .. Interval
<1>1. list[i] \in Alerts
  BY ElementOfSeq
<1> QED
  BY <1>1 DEF Alerts

(* `new' is the list with one more alert at its end, of the given identifier,    *)
(* origin and activity.                                                          *)
Extends(new, list, id, rule, color, active) ==
    LET n == Len(list) + 1
    IN  /\ new \in Seq(Alerts) /\ Differ(new) /\ Len(new) = n
        /\ DOMAIN new = DOMAIN list \cup {n} /\ n \notin DOMAIN list
        /\ \A i \in DOMAIN list : new[i] = list[i] /\ list[i].id # id
        /\ new[n].id = id /\ new[n].rule = rule /\ new[n].color = color
        /\ new[n].active = active /\ new[n].age = 0

(* Raising appends an alert with an identifier of its own.                       *)
LEMMA RaisedAppends ==
    ASSUME NEW list \in Seq(Alerts), Differ(list), Len(list) < Day, NEW t \in Times,
           NEW rule \in Names \cup {Feed, Other}, NEW color \in Colors,
           NEW active \in BOOLEAN
    PROVE  /\ Extends(Raised(list, t, rule, color, active), list,
                      NewEventId(list, t), rule, color, active)
           /\ NewEventId(list, t) \in Times
<1> DEFINE new == Raised(list, t, rule, color, active)
           n == Len(list) + 1
           a == [id |-> NewEventId(list, t), rule |-> rule, color |-> color,
                 active |-> active, age |-> 0]
<1>1. NewEventId(list, t) \in Times /\ \A i \in DOMAIN list : list[i].id # NewEventId(list, t)
  BY NewEventIdIsFree
<1>2. a \in Alerts
  <2>1. 0 \in 0 .. Interval
    BY EmsAssumption
  <2> QED
    BY <1>1, <2>1 DEF Alerts
<1>3. new = Append(list, a)
  BY DEF Raised
<1>4. /\ a.id = NewEventId(list, t) /\ a.rule = rule /\ a.color = color
      /\ a.active = active /\ a.age = 0
  OBVIOUS
<1> HIDE DEF a, new
<1>5. /\ new \in Seq(Alerts) /\ Len(new) = n
      /\ \A i \in 1 .. Len(list) : new[i] = list[i]
      /\ new[n] = a
  BY <1>2, <1>3, AppendProperties
<1>6. /\ Len(list) \in Nat /\ DOMAIN list = 1 .. Len(list) /\ DOMAIN new = 1 .. n
  BY <1>5, LenProperties
<1>7. DOMAIN new = DOMAIN list \cup {n} /\ n \notin DOMAIN list
  BY <1>6
<1>8. Differ(new)
  BY <1>1, <1>4, <1>5, <1>6, <1>7 DEF Differ
<1> QED
  BY <1>1, <1>4, <1>5, <1>6, <1>7, <1>8 DEF Extends, new

(* `new' is the list with the alert at k active or not, and nothing else changed. *)
Switches(new, list, k, active) ==
    /\ new \in Seq(Alerts) /\ Differ(new)
    /\ Len(new) = Len(list) /\ DOMAIN new = DOMAIN list
    /\ \A i \in DOMAIN list :
         /\ new[i].id = list[i].id /\ new[i].rule = list[i].rule
         /\ new[i].color = list[i].color /\ new[i].age = list[i].age
         /\ new[i].active = IF i = k THEN active ELSE list[i].active

(* Updating changes the activity of the one alert with the identifier.           *)
LEMMA UpdatedChangesOne ==
    ASSUME NEW list \in Seq(Alerts), Differ(list), NEW k \in DOMAIN list,
           NEW active \in BOOLEAN, NEW id, id = list[k].id
    PROVE  Switches(Updated(list, id, active), list, k, active)
<1> DEFINE new == Updated(list, id, active)
<1>1. Len(list) \in Nat /\ DOMAIN list = 1 .. Len(list)
  BY LenProperties
<1>2. \A i \in DOMAIN list : list[i].id = list[k].id <=> i = k
  BY DEF Differ
<1>3. \A j \in k + 1 .. Len(list) : list[j].id # list[k].id
  BY <1>1, <1>2
<1>4. new = [i \in DOMAIN list |->
               IF i = k THEN [list[i] EXCEPT !.active = active] ELSE list[i]]
  BY <1>2, <1>3 DEF Updated
<1>5. ASSUME NEW i \in DOMAIN list
      PROVE  (IF i = k THEN [list[i] EXCEPT !.active = active] ELSE list[i]) \in Alerts
  <2>1. list[i] \in Alerts
    BY AlertFields
  <2>2. [list[i] EXCEPT !.active = active] \in Alerts
    BY <2>1 DEF Alerts
  <2> QED
    BY <2>1, <2>2
<1> HIDE DEF new
<1>6. new \in [1 .. Len(list) -> Alerts]
  BY <1>1, <1>4, <1>5
<1>7. new \in Seq(Alerts) /\ Len(new) = Len(list) /\ DOMAIN new = DOMAIN list
  BY <1>1, <1>6, SeqDef, LenProperties
<1>8. ASSUME NEW i \in DOMAIN list
      PROVE  /\ new[i].id = list[i].id /\ new[i].rule = list[i].rule
             /\ new[i].color = list[i].color /\ new[i].age = list[i].age
             /\ new[i].active = IF i = k THEN active ELSE list[i].active
  <2>1. list[i] \in Alerts
    BY AlertFields
  <2> QED
    BY <1>4, <2>1 DEF Alerts
<1>9. Differ(new)
  BY <1>7, <1>8 DEF Differ
<1> QED
  BY <1>7, <1>8, <1>9 DEF Switches, new
---------------------------------------------------------------------------
LEMMA InitInv == Init => EmsInv
<1> SUFFICES ASSUME Init PROVE EmsInv
  OBVIOUS
<1>1. PICK t \in ClockReadings : alertsData = Raised(<<>>, t, Other, "none", FALSE)
  BY DEF Init
<1>2. <<>> \in Seq(Alerts) /\ Differ(<<>>) /\ Len(<<>>) = 0 /\ DOMAIN <<>> = {}
  BY DEF Differ
<1>3. Len(<<>>) < Day /\ t \in Times /\ Other \in Names \cup {Feed, Other} /\ "none" \in Colors
  BY <1>2, DayAssumption, EmsAssumption DEF Colors
<1>4. /\ alertsData \in Seq(Alerts) /\ Differ(alertsData)
      /\ Len(alertsData) = 1 /\ DOMAIN alertsData = {1}
      /\ alertsData[1].rule = Other /\ alertsData[1].active = FALSE
  <2>1. PICK list \in Seq(Alerts) : list = <<>>
    BY <1>2
  <2>2. list \in Seq(Alerts) /\ Differ(list) /\ Len(list) = 0 /\ DOMAIN list = {}
    BY <1>2, <2>1
  <2>3. Extends(Raised(list, t, Other, "none", FALSE), list, NewEventId(list, t),
                Other, "none", FALSE)
    BY <1>2, <1>3, <2>1, <2>2, RaisedAppends
  <2>4. Extends(alertsData, list, NewEventId(list, t), Other, "none", FALSE)
    BY <1>1, <2>1, <2>3
  <2> QED
    BY <2>2, <2>4 DEF Extends
<1>5. TypeOK
  <2>1. Len(RuleList) \in Nat /\ 1 \in 1 .. Len(RuleList) + 1
    BY EmsAssumption, LenProperties
  <2>2. 0 \in Times /\ Interval \in 0 .. Interval
    BY EmsAssumption, DayAssumption DEF Times
  <2> QED
    BY <1>4, <2>1, <2>2 DEF Init, TypeOK, Colors
<1>6. OneFrame
  BY DEF Init, OneFrame
<1>7. Room
  <2>1. 1 < MaxAlerts
    BY EmsAssumption, DayAssumption
  <2> QED
    BY <1>4, <2>1 DEF Init, Room
<1>8. YoungIsLatest
  BY <1>4, EmsAssumption DEF YoungIsLatest
<1>9. IdsKnown
  <2>1. \A r \in Names, c \in AlarmColors :
          ruleAlertTimes[r][c] = Interval /\ ruleColors[r] # c
    BY DEF Init, AlarmColors
  <2>2. ~(Interval < Interval) /\ feedLost = FALSE
    BY EmsAssumption DEF Init
  <2> QED
    BY <2>1, <2>2 DEF IdsKnown
<1>10. ActiveAsWanted
  BY <1>4, EmsAssumption DEF ActiveAsWanted, Wanted
<1> QED
  BY <1>4, <1>5, <1>6, <1>7, <1>8, <1>9, <1>10 DEF EmsInv

LEMMA FrameInv ==
    ASSUME EmsInv, NEW h \in Handlers, Frame(h)
    PROVE  EmsInv'
<1> USE DEF EmsInv
<1>1. TypeOK'
  BY EmsAssumption DEF Frame, TypeOK, ruleVars
<1>2. Len(alertsData) \in Nat /\ Len(RuleList) \in Nat /\ MaxAlerts \in Nat
  BY EmsAssumption, DayAssumption, LenProperties DEF TypeOK
<1>3. /\ \A g \in Handlers : at'[g] = IF g = h THEN "evaluate" ELSE "idle"
      /\ \A g \in Handlers : at[g] = "idle"
      /\ \A g \in Handlers : next'[g] = next[g] /\ next[g] \in 1 .. Len(RuleList) + 1
  BY DEF Frame, MutexFree, TypeOK
<1>4. \A r \in Names : ~Entering(r) /\ ~Entering(r)'
  BY <1>3 DEF Entering
<1>5. UNCHANGED <<alertsData, ruleVars, feedLost, feedAlertId>>
  BY DEF Frame
<1>6. Differ(alertsData)'
  BY <1>5 DEF Differ
<1>7. OneFrame'
  BY <1>3 DEF OneFrame
<1>8. Room'
  BY <1>2, <1>3 DEF Frame, Room, Reserve
<1>9. YoungIsLatest'
  BY <1>5 DEF YoungIsLatest, ruleVars
<1>10. IdsKnown'
  BY <1>4, <1>5 DEF IdsKnown, Known, ruleVars
<1>11. ActiveAsWanted'
  BY <1>4, <1>5 DEF ActiveAsWanted, Wanted, ruleVars
<1> QED
  BY <1>1, <1>6, <1>7, <1>8, <1>9, <1>10, <1>11

LEMMA EndFrameInv ==
    ASSUME EmsInv, NEW h \in Handlers, EndFrame(h)
    PROVE  EmsInv'
<1> USE DEF EmsInv
<1>1. TypeOK'
  BY EmsAssumption, LenProperties DEF EndFrame, TypeOK, ruleVars, feedVars
<1>2. /\ \A g \in Handlers : at'[g] = IF g = h THEN "idle" ELSE at[g]
      /\ \A g \in Handlers : next'[g] = IF g = h THEN 1 ELSE next[g]
      /\ at[h] = "evaluate"
  BY DEF EndFrame, TypeOK
<1>3. \A r \in Names : Entering(r)' <=> Entering(r)
  BY <1>2 DEF Entering, Rule
<1>4. UNCHANGED <<alertsData, ruleVars, feedVars>>
  BY DEF EndFrame
<1>5. Differ(alertsData)'
  BY <1>4 DEF Differ
<1>6. OneFrame'
  BY <1>2, <1>4 DEF OneFrame, Rule, ruleVars
<1>7. Room'
  BY <1>2, <1>4 DEF Room, feedVars, Silent
<1>8. YoungIsLatest'
  BY <1>4 DEF YoungIsLatest, ruleVars
<1>9. IdsKnown'
  BY <1>3, <1>4 DEF IdsKnown, Known, ruleVars, feedVars
<1>10. ActiveAsWanted'
  BY <1>3, <1>4 DEF ActiveAsWanted, Wanted, ruleVars, feedVars
<1> QED
  BY <1>1, <1>5, <1>6, <1>7, <1>8, <1>9, <1>10

LEMMA TickInv ==
    ASSUME EmsInv, Tick
    PROVE  EmsInv'
<1> USE DEF EmsInv
<1>1. \A age \in 0 .. Interval : Older(age, Interval) \in 0 .. Interval
  BY EmsAssumption DEF Older
<1>2. \A age \in 0 .. FeedTimeout : Older(age, FeedTimeout) \in 0 .. FeedTimeout
  BY EmsAssumption DEF Older
<1>3. /\ alertsData' \in Seq(Alerts) /\ Len(alertsData') = Len(alertsData)
      /\ DOMAIN alertsData' = DOMAIN alertsData
      /\ \A i \in DOMAIN alertsData :
           /\ alertsData'[i].id = alertsData[i].id
           /\ alertsData'[i].rule = alertsData[i].rule
           /\ alertsData'[i].color = alertsData[i].color
           /\ alertsData'[i].active = alertsData[i].active
           /\ alertsData'[i].age = Older(alertsData[i].age, Interval)
  <2>1. alertsData \in Seq(Alerts)
    BY DEF TypeOK
  <2>2. DOMAIN alertsData = 1 .. Len(alertsData) /\ Len(alertsData) \in Nat
    BY <2>1, LenProperties
  <2>3. ASSUME NEW i \in DOMAIN alertsData
        PROVE  /\ alertsData[i] \in Alerts
               /\ [alertsData[i] EXCEPT !.age = Older(@, Interval)] \in Alerts
    <3>1. alertsData[i] \in Alerts
      BY <2>1, AlertFields
    <3> QED
      BY <1>1, <3>1 DEF Alerts
  <2>4. alertsData' = [i \in DOMAIN alertsData |->
                         [alertsData[i] EXCEPT !.age = Older(@, Interval)]]
    BY DEF Tick
  <2>5. alertsData' \in [1 .. Len(alertsData) -> Alerts]
    BY <2>2, <2>3, <2>4
  <2>6. alertsData' \in Seq(Alerts) /\ Len(alertsData') = Len(alertsData)
    BY <2>2, <2>5, SeqDef, LenProperties
  <2> QED
    BY <2>3, <2>4, <2>6 DEF Alerts
<1>4. \A r \in Names, c \in AlarmColors :
        ruleAlertTimes'[r][c] = Older(ruleAlertTimes[r][c], Interval)
  BY DEF Tick
<1>5. UNCHANGED <<ruleColors, ruleAlertIds, feedLost, feedAlertId, at, next>>
  BY DEF Tick
<1>6. TypeOK'
  BY <1>1, <1>2, <1>3, <1>5 DEF Tick, TypeOK
<1>7. Differ(alertsData)'
  BY <1>3 DEF Differ
<1>8. \A r \in Names : Entering(r)' <=> Entering(r)
  BY <1>5 DEF Entering, Rule
<1>9. OneFrame'
  BY <1>5 DEF OneFrame, Rule
<1>10. Room'
  BY <1>3, <1>5, EmsAssumption DEF Room, Tick, Silent, Never, Older
<1>11. YoungIsLatest'
  <2> SUFFICES ASSUME NEW i \in DOMAIN alertsData, alertsData[i].rule \in Names
               PROVE  /\ alertsData[i].color \in AlarmColors
                      /\ Older(alertsData[i].age, Interval) < Interval =>
                           /\ alertsData[i].id = ruleAlertIds[alertsData[i].rule][alertsData[i].color]
                           /\ Older(alertsData[i].age, Interval) =
                                ruleAlertTimes'[alertsData[i].rule][alertsData[i].color]
    BY <1>3, <1>5 DEF YoungIsLatest
  <2>1. alertsData[i].age \in 0 .. Interval
    BY AlertFields DEF TypeOK
  <2>2. Older(alertsData[i].age, Interval) < Interval => alertsData[i].age < Interval
    BY <2>1, EmsAssumption DEF Older
  <2> QED
    BY <1>4, <2>2 DEF YoungIsLatest
<1>12. IdsKnown'
  <2>1. \A r \in Names, c \in AlarmColors : Known(r, c)' <=> Known(r, c)
    BY <1>3, <1>5 DEF Known
  <2>2. \A r \in Names, c \in AlarmColors :
          ruleAlertTimes'[r][c] < Interval => ruleAlertTimes[r][c] < Interval
    BY <1>4, EmsAssumption DEF TypeOK, Older
  <2> QED
    BY <1>3, <1>5, <1>8, <2>1, <2>2 DEF IdsKnown
<1>13. ActiveAsWanted'
  BY <1>3, <1>5, <1>8 DEF ActiveAsWanted, Wanted
<1> QED
  BY <1>6, <1>7, <1>9, <1>10, <1>11, <1>12, <1>13

(* The list has room whenever something is raised.                               *)
LEMMA ListFacts ==
    ASSUME EmsInv
    PROVE  /\ alertsData \in Seq(Alerts) /\ Differ(alertsData)
           /\ Len(alertsData) \in Nat /\ DOMAIN alertsData = 1 .. Len(alertsData)
           /\ Len(RuleList) \in Nat /\ MaxAlerts \in Nat /\ MaxAlerts <= Day /\ Day \in Nat
           /\ \A i \in DOMAIN RuleList : RuleList[i] \in Names
           /\ DOMAIN RuleList = 1 .. Len(RuleList)
<1>1. alertsData \in Seq(Alerts) /\ Differ(alertsData) /\ RuleList \in Seq(Names)
  BY EmsAssumption DEF EmsInv, TypeOK
<1>2. MaxAlerts \in Nat /\ MaxAlerts <= Day /\ Day \in Nat
  BY EmsAssumption, DayAssumption
<1> QED
  BY <1>1, <1>2, LenProperties, ElementOfSeq

(* One raise more and one rule less leave the same room.                         *)
LEMMA RoomAfterRaise ==
    ASSUME NEW a \in Nat, NEW l \in Nat, NEW x \in Nat, NEW m \in Nat,
           a + (l + 2 - x) <= m
    PROVE  (a + 1) + (l + 2 - (x + 1)) <= m
OBVIOUS

(* A rule that raises nothing leaves room to spare.                              *)
LEMMA RoomAfterRule ==
    ASSUME NEW a \in Nat, NEW l \in Nat, NEW x \in Nat, NEW m \in Nat,
           a + (l + 2 - x) <= m
    PROVE  a + (l + 2 - (x + 1)) <= m
OBVIOUS

(* There is room for the rule at hand and for the feed.                          *)
LEMMA RoomForRaise ==
    ASSUME NEW a \in Nat, NEW l \in Nat, NEW x \in Nat, NEW m \in Nat,
           a + (l + 2 - x) <= m, x <= l
    PROVE  a + 1 < m
OBVIOUS

(* The step changes no more of the list than which alerts are active.            *)
SameButActive ==
    /\ DOMAIN alertsData' = DOMAIN alertsData
    /\ \A i \in DOMAIN alertsData :
         /\ alertsData'[i].id = alertsData[i].id
         /\ alertsData'[i].rule = alertsData[i].rule
         /\ alertsData'[i].color = alertsData[i].color
         /\ alertsData'[i].age = alertsData[i].age

LEMMA YoungStays ==
    ASSUME YoungIsLatest, SameButActive, UNCHANGED <<ruleAlertTimes, ruleAlertIds>>
    PROVE  YoungIsLatest'
<1>1. ruleAlertTimes' = ruleAlertTimes /\ ruleAlertIds' = ruleAlertIds
  OBVIOUS
<1> SUFFICES ASSUME NEW i \in DOMAIN alertsData', alertsData'[i].rule \in Names
             PROVE  /\ alertsData'[i].color \in AlarmColors
                    /\ alertsData'[i].age < Interval =>
                         /\ alertsData'[i].id = ruleAlertIds'[alertsData'[i].rule][alertsData'[i].color]
                         /\ alertsData'[i].age = ruleAlertTimes'[alertsData'[i].rule][alertsData'[i].color]
  BY DEF YoungIsLatest
<1>2. i \in DOMAIN alertsData
  BY DEF SameButActive
<1>3. /\ alertsData'[i].id = alertsData[i].id /\ alertsData'[i].rule = alertsData[i].rule
      /\ alertsData'[i].color = alertsData[i].color /\ alertsData'[i].age = alertsData[i].age
  BY <1>2 DEF SameButActive
<1>4. /\ alertsData[i].color \in AlarmColors
      /\ alertsData[i].age < Interval =>
           /\ alertsData[i].id = ruleAlertIds[alertsData[i].rule][alertsData[i].color]
           /\ alertsData[i].age = ruleAlertTimes[alertsData[i].rule][alertsData[i].color]
  BY <1>2, <1>3 DEF YoungIsLatest
<1> QED
  BY <1>1, <1>3, <1>4

LEMMA OtherAlertInv ==
    ASSUME EmsInv, NEW t \in ClockReadings, OtherAlert(t)
    PROVE  EmsInv'
<1> USE DEF EmsInv
<1>1. t \in Times /\ Other \in Names \cup {Feed, Other} /\ "none" \in Colors
  BY EmsAssumption DEF Colors
<1>2. Len(alertsData) + Len(RuleList) + 1 < MaxAlerts /\ Len(alertsData) < Day
  BY ListFacts DEF OtherAlert, Reserve
<1>3. UNCHANGED <<ruleVars, feedVars, at, next>>
  BY DEF OtherAlert
<1>4. Extends(alertsData', alertsData, NewEventId(alertsData, t), Other, "none", FALSE)
  <2>1. Extends(Raised(alertsData, t, Other, "none", FALSE), alertsData,
                NewEventId(alertsData, t), Other, "none", FALSE)
    BY <1>1, <1>2, ListFacts, RaisedAppends
  <2> QED
    BY <2>1 DEF OtherAlert
<1> DEFINE n == Len(alertsData) + 1
<1>5. /\ DOMAIN alertsData' = DOMAIN alertsData \cup {n}
      /\ \A i \in DOMAIN alertsData : alertsData'[i] = alertsData[i]
      /\ alertsData'[n].rule = Other /\ alertsData'[n].active = FALSE
      /\ Len(alertsData') = n
  BY <1>4 DEF Extends
<1>6. TypeOK'
  BY <1>3, <1>4 DEF TypeOK, Extends, ruleVars, feedVars
<1>7. Differ(alertsData)'
  BY <1>4 DEF Extends, Differ
<1>8. \A r \in Names : Entering(r)' <=> Entering(r)
  BY <1>3 DEF Entering, Rule
<1>9. OneFrame'
  BY <1>3 DEF OneFrame, Rule, ruleVars
<1>10. Room'
  <2>1. \A h \in Handlers : next[h] \in 1 .. Len(RuleList) + 1
    BY DEF TypeOK
  <2> QED
    BY <1>2, <1>3, <1>5, <2>1, ListFacts DEF Room
<1>11. YoungIsLatest'
  BY <1>3, <1>5, EmsAssumption DEF YoungIsLatest, ruleVars
<1>12. IdsKnown'
  <2>1. \A r \in Names, c \in AlarmColors : Known(r, c) => Known(r, c)'
    BY <1>3, <1>5 DEF Known, ruleVars
  <2> QED
    BY <1>3, <1>5, <1>8, <2>1 DEF IdsKnown, ruleVars, feedVars
<1>13. ActiveAsWanted'
  BY <1>3, <1>5, <1>8, EmsAssumption DEF ActiveAsWanted, Wanted, ruleVars, feedVars
<1> QED
  BY <1>6, <1>7, <1>9, <1>10, <1>11, <1>12, <1>13

LEMMA LoseFeedInv ==
    ASSUME EmsInv, NEW t \in ClockReadings, LoseFeed(t)
    PROVE  EmsInv'
<1> USE DEF EmsInv
<1>1. t \in Times /\ Feed \in Names \cup {Feed, Other} /\ "none" \in Colors
  BY EmsAssumption DEF Colors
<1>2. Len(alertsData) < MaxAlerts /\ Len(alertsData) < Day
  BY ListFacts DEF LoseFeed, Room
<1>3. /\ UNCHANGED <<ruleVars, lastFrame, at, next>>
      /\ ~feedLost /\ feedLost' = TRUE /\ Silent /\ MutexFree
      /\ feedAlertId' = NewEventId(alertsData, t)
  BY DEF LoseFeed
<1>4. /\ Extends(alertsData', alertsData, feedAlertId', Feed, "none", TRUE)
      /\ feedAlertId' \in Times
  <2>1. /\ Extends(Raised(alertsData, t, Feed, "none", TRUE), alertsData,
                   NewEventId(alertsData, t), Feed, "none", TRUE)
        /\ NewEventId(alertsData, t) \in Times
    BY <1>1, <1>2, ListFacts, RaisedAppends
  <2> QED
    BY <2>1 DEF LoseFeed
<1> DEFINE n == Len(alertsData) + 1
<1>5. /\ DOMAIN alertsData' = DOMAIN alertsData \cup {n}
      /\ \A i \in DOMAIN alertsData :
           alertsData'[i] = alertsData[i] /\ alertsData[i].id # feedAlertId'
      /\ alertsData'[n].rule = Feed /\ alertsData'[n].active = TRUE
      /\ alertsData'[n].id = feedAlertId'
      /\ Len(alertsData') = n
  BY <1>4 DEF Extends
<1>6. TypeOK'
  BY <1>3, <1>4 DEF TypeOK, Extends, ruleVars
<1>7. Differ(alertsData)'
  BY <1>4 DEF Extends, Differ
<1>8. \A r \in Names : Entering(r)' <=> Entering(r)
  BY <1>3 DEF Entering, Rule
<1>9. OneFrame'
  BY <1>3 DEF OneFrame, Rule, ruleVars
<1>10. Room'
  BY <1>3 DEF Room, MutexFree, Silent
<1>11. YoungIsLatest'
  BY <1>3, <1>5, EmsAssumption DEF YoungIsLatest, ruleVars
<1>12. IdsKnown'
  <2>1. \A r \in Names, c \in AlarmColors : Known(r, c) => Known(r, c)'
    BY <1>3, <1>5 DEF Known, ruleVars
  <2> QED
    BY <1>3, <1>5, <1>8, <2>1 DEF IdsKnown, ruleVars
<1>13. ActiveAsWanted'
  BY <1>3, <1>5, <1>8, EmsAssumption DEF ActiveAsWanted, Wanted, ruleVars
<1> QED
  BY <1>6, <1>7, <1>9, <1>10, <1>11, <1>12, <1>13

LEMMA RaiseRuleInv ==
    ASSUME EmsInv, NEW h \in Handlers, NEW t \in ClockReadings, RaiseRule(h, t)
    PROVE  EmsInv'
<1> USE DEF EmsInv
<1> DEFINE r == Rule(h)
           c == ruleColors[r]
           id == NewEventId(alertsData, t)
           n == Len(alertsData) + 1
<1>1. /\ at[h] = "enters" /\ next[h] \in 1 .. Len(RuleList)
      /\ r \in Names /\ c \in AlarmColors /\ c \in Colors
  <2>1. at[h] = "enters" /\ next[h] \in 1 .. Len(RuleList) /\ c \in AlarmColors
    BY ListFacts DEF RaiseRule, OneFrame, TypeOK
  <2>2. r \in Names
    BY <2>1, ListFacts DEF Rule
  <2> QED
    BY <2>1, <2>2 DEF Colors
<1>2. t \in Times /\ r \in Names \cup {Feed, Other} /\ r # Feed
  BY <1>1, EmsAssumption
<1>3. Len(alertsData) + (Len(RuleList) + 2 - next[h]) <= MaxAlerts /\ Len(alertsData) < Day
  BY <1>1, ListFacts DEF Room
<1>4. /\ ruleAlertTimes[r][c] >= Interval
      /\ ruleAlertTimes' = [ruleAlertTimes EXCEPT ![r][c] = 0]
      /\ ruleAlertIds' = [ruleAlertIds EXCEPT ![r][c] = id]
      /\ next' = [next EXCEPT ![h] = @ + 1]
      /\ at' = [at EXCEPT ![h] = "evaluate"]
      /\ UNCHANGED <<ruleColors, feedVars>>
  BY DEF RaiseRule, NextRule
<1>5. Extends(alertsData', alertsData, id, r, c, TRUE) /\ id \in Times
  <2>1. alertsData' = Raised(alertsData, t, r, c, TRUE)
    BY DEF RaiseRule
  <2> HIDE DEF r, c
  <2>2. /\ Extends(Raised(alertsData, t, r, c, TRUE), alertsData,
                   NewEventId(alertsData, t), r, c, TRUE)
        /\ NewEventId(alertsData, t) \in Times
    BY <1>1, <1>2, <1>3, ListFacts, RaisedAppends
  <2> QED
    BY <2>1, <2>2
<1> HIDE DEF r, c, id
<1>6. /\ DOMAIN alertsData' = DOMAIN alertsData \cup {n}
      /\ \A i \in DOMAIN alertsData :
           alertsData'[i] = alertsData[i] /\ alertsData[i].id # id
      /\ alertsData'[n].rule = r /\ alertsData'[n].color = c
      /\ alertsData'[n].active = TRUE /\ alertsData'[n].age = 0
      /\ alertsData'[n].id = id
      /\ Len(alertsData') = n
  BY <1>5 DEF Extends
<1>7. /\ \A s \in Names, d \in AlarmColors :
           /\ ruleAlertTimes'[s][d] = IF s = r /\ d = c THEN 0 ELSE ruleAlertTimes[s][d]
           /\ ruleAlertIds'[s][d] = IF s = r /\ d = c THEN id ELSE ruleAlertIds[s][d]
      /\ ruleAlertTimes' \in [Names -> [AlarmColors -> 0 .. Interval]]
      /\ ruleAlertIds' \in [Names -> [AlarmColors -> Times]]
  <2>1. /\ ruleAlertTimes \in [Names -> [AlarmColors -> 0 .. Interval]]
        /\ ruleAlertIds \in [Names -> [AlarmColors -> Times]]
        /\ 0 \in 0 .. Interval
    BY EmsAssumption DEF TypeOK
  <2>2. /\ \A s \in Names, d \in AlarmColors :
             ruleAlertTimes'[s][d] = IF s = r /\ d = c THEN 0 ELSE ruleAlertTimes[s][d]
        /\ ruleAlertTimes' \in [Names -> [AlarmColors -> 0 .. Interval]]
    BY <1>1, <1>4, <2>1
  <2>3. /\ \A s \in Names, d \in AlarmColors :
             ruleAlertIds'[s][d] = IF s = r /\ d = c THEN id ELSE ruleAlertIds[s][d]
        /\ ruleAlertIds' \in [Names -> [AlarmColors -> Times]]
    BY <1>1, <1>4, <1>5, <2>1
  <2> QED
    BY <2>2, <2>3
<1>8. /\ next' \in [Handlers -> 1 .. Len(RuleList) + 1]
      /\ at' \in [Handlers -> {"idle", "evaluate", "stays", "enters"}]
      /\ \A g \in Handlers : at'[g] = (IF g = h THEN "evaluate" ELSE at[g])
      /\ \A g \in Handlers : next'[g] = (IF g = h THEN next[g] + 1 ELSE next[g])
  BY <1>1, <1>4, ListFacts DEF TypeOK
<1>9. \A g \in Handlers : g # h => at[g] = "idle"
  BY <1>1 DEF OneFrame
<1>10. \A s \in Names : (Entering(s) <=> s = r) /\ ~Entering(s)'
  BY <1>1, <1>8, <1>9 DEF Entering, r
<1>11. TypeOK'
  BY <1>4, <1>5, <1>7, <1>8 DEF TypeOK, Extends, feedVars
<1>12. Differ(alertsData)'
  BY <1>5 DEF Extends, Differ
<1>13. OneFrame'
  BY <1>8, <1>9 DEF OneFrame
<1>14. Room'
  <2>1. next[h] + 1 = next'[h] /\ next'[h] <= Len(RuleList) + 1
    BY <1>1, <1>8, ListFacts
  <2>2. Len(alertsData') + (Len(RuleList) + 2 - next'[h]) <= MaxAlerts
    <3>1. /\ Len(alertsData) \in Nat /\ Len(RuleList) \in Nat
          /\ next[h] \in Nat /\ MaxAlerts \in Nat
      BY <1>1, ListFacts
    <3>2. Len(alertsData') = Len(alertsData) + 1
      BY <1>6
    <3>3. (Len(alertsData) + 1) + (Len(RuleList) + 2 - (next[h] + 1)) <= MaxAlerts
      BY <1>3, <3>1, RoomAfterRaise
    <3> QED
      BY <2>1, <3>2, <3>3, Zenon
  <2>3. Len(alertsData') < MaxAlerts
    <3>1. Len(alertsData) \in Nat /\ Len(RuleList) \in Nat /\ MaxAlerts \in Nat
      BY ListFacts
    <3>2. next[h] \in Nat /\ next[h] <= Len(RuleList)
      BY <1>1, <3>1
    <3>3. Len(alertsData) + 1 < MaxAlerts
      BY <1>3, <3>1, <3>2, RoomForRaise
    <3>4. Len(alertsData') = Len(alertsData) + 1
      BY <1>6
    <3> QED
      BY <3>3, <3>4, Zenon
  <2> QED
    BY <1>8, <1>9, <2>2, <2>3 DEF Room
<1>15. YoungIsLatest'
  <2> SUFFICES ASSUME NEW i \in DOMAIN alertsData', alertsData'[i].rule \in Names
               PROVE  /\ alertsData'[i].color \in AlarmColors
                      /\ alertsData'[i].age < Interval =>
                           /\ alertsData'[i].id = ruleAlertIds'[alertsData'[i].rule][alertsData'[i].color]
                           /\ alertsData'[i].age = ruleAlertTimes'[alertsData'[i].rule][alertsData'[i].color]
    BY DEF YoungIsLatest
  <2>1. CASE i = n
    BY <2>1, <1>1, <1>6, <1>7
  <2>2. CASE i \in DOMAIN alertsData
    <3>1. alertsData'[i] = alertsData[i] /\ alertsData[i].color \in AlarmColors
      BY <2>2, <1>6 DEF YoungIsLatest
    <3>2. CASE alertsData[i].rule = r /\ alertsData[i].color = c
      <4>1. ~(alertsData[i].age < Interval)
        <5>1. alertsData[i].age < Interval => alertsData[i].age = ruleAlertTimes[r][c]
          BY <2>2, <3>1, <3>2, <1>1 DEF YoungIsLatest
        <5>2. alertsData[i].age \in 0 .. Interval
          BY <2>2, ListFacts, AlertFields
        <5> QED
          BY <1>4, <5>1, <5>2, EmsAssumption
      <4> QED
        BY <3>1, <4>1
    <3>3. CASE ~(alertsData[i].rule = r /\ alertsData[i].color = c)
      BY <2>2, <3>1, <3>3, <1>7 DEF YoungIsLatest
    <3> QED
      BY <3>2, <3>3
  <2> QED
    BY <2>1, <2>2, <1>6
<1>16. IdsKnown'
  <2>1. \E i \in DOMAIN alertsData' :
          /\ alertsData'[i].rule = r /\ alertsData'[i].color = c
          /\ alertsData'[i].id = ruleAlertIds'[r][c]
    BY <1>1, <1>6, <1>7
  <2>2. ASSUME NEW s \in Names, NEW d \in AlarmColors, s # r \/ d # c, Known(s, d)
        PROVE  Known(s, d)'
    BY <2>2, <1>6, <1>7 DEF Known
  <2>3. ASSUME NEW s \in Names, NEW d \in AlarmColors,
               ruleAlertTimes'[s][d] < Interval \/ (ruleColors'[s] = d /\ ~Entering(s)')
        PROVE  Known(s, d)'
    <3>1. CASE s = r /\ d = c
      BY <2>1, <3>1 DEF Known
    <3>2. CASE s # r \/ d # c
      <4>1. ruleAlertTimes[s][d] < Interval \/ (ruleColors[s] = d /\ s # r)
        BY <2>3, <3>2, <1>4, <1>7 DEF c
      <4>2. Known(s, d)
        BY <4>1, <1>10 DEF IdsKnown
      <4> QED
        BY <3>2, <4>2, <2>2
    <3> QED
      BY <3>1, <3>2
  <2> QED
    BY <2>3, <1>4, <1>6 DEF IdsKnown, feedVars
<1>17. ActiveAsWanted'
  <2> SUFFICES ASSUME NEW i \in DOMAIN alertsData'
               PROVE  alertsData'[i].active <=> Wanted(alertsData[i])'
    BY DEF ActiveAsWanted
  <2>1. ruleColors[r] = c
    BY DEF c
  <2>2. CASE i = n
    BY <2>1, <2>2, <1>1, <1>4, <1>6, <1>7, <1>10 DEF Wanted
  <2>3. CASE i \in DOMAIN alertsData
    BY <2>1, <2>3, <1>2, <1>4, <1>6, <1>7, <1>10 DEF Wanted, ActiveAsWanted, feedVars
  <2> QED
    BY <2>2, <2>3, <1>6
<1> QED
  BY <1>11, <1>12, <1>13, <1>14, <1>15, <1>16, <1>17

(* ConfirmRule finds the alert it is to activate, and that one only.             *)
LEMMA ConfirmRuleInv ==
    ASSUME EmsInv, NEW h \in Handlers, ConfirmRule(h)
    PROVE  EmsInv'
<1> USE DEF EmsInv
<1> DEFINE r == Rule(h)
           c == ruleColors[r]
<1>1. /\ at[h] \in {"stays", "enters"} /\ next[h] \in 1 .. Len(RuleList)
      /\ r \in Names /\ c \in AlarmColors
  <2>1. at[h] \in {"stays", "enters"} /\ next[h] \in 1 .. Len(RuleList) /\ c \in AlarmColors
    BY ListFacts DEF ConfirmRule, OneFrame, TypeOK
  <2> QED
    BY <2>1, ListFacts DEF Rule
<1>2. /\ next' = [next EXCEPT ![h] = @ + 1]
      /\ at' = [at EXCEPT ![h] = "evaluate"]
      /\ UNCHANGED <<ruleVars, feedVars>>
      /\ alertsData' = Updated(alertsData, ruleAlertIds[r][c], TRUE)
      /\ at[h] = "enters" => ruleAlertTimes[r][c] < Interval
  BY DEF ConfirmRule, NextRule
<1>3. \A g \in Handlers : g # h => at[g] = "idle"
  BY <1>1 DEF OneFrame
<1> HIDE DEF r, c
<1>4. \A s \in Names : Entering(s) <=> at[h] = "enters" /\ s = r
  BY <1>1, <1>3 DEF Entering, r
<1>5. PICK k \in DOMAIN alertsData :
        /\ alertsData[k].rule = r /\ alertsData[k].color = c
        /\ alertsData[k].id = ruleAlertIds[r][c]
  <2>1. ruleAlertTimes[r][c] < Interval \/ (ruleColors[r] = c /\ ~Entering(r))
    BY <1>1, <1>2, <1>4 DEF c
  <2>2. Known(r, c)
    BY <1>1, <2>1 DEF IdsKnown
  <2> QED
    BY <2>2 DEF Known
<1>6. Switches(alertsData', alertsData, k, TRUE)
  <2>1. Switches(Updated(alertsData, ruleAlertIds[r][c], TRUE), alertsData, k, TRUE)
    BY <1>5, ListFacts, UpdatedChangesOne
  <2> QED
    BY <1>2, <2>1
<1>7. /\ DOMAIN alertsData' = DOMAIN alertsData /\ Len(alertsData') = Len(alertsData)
      /\ \A i \in DOMAIN alertsData :
           /\ alertsData'[i].id = alertsData[i].id
           /\ alertsData'[i].rule = alertsData[i].rule
           /\ alertsData'[i].color = alertsData[i].color
           /\ alertsData'[i].age = alertsData[i].age
           /\ alertsData'[i].active = IF i = k THEN TRUE ELSE alertsData[i].active
  BY <1>6 DEF Switches
<1>8. /\ next' \in [Handlers -> 1 .. Len(RuleList) + 1]
      /\ at' \in [Handlers -> {"idle", "evaluate", "stays", "enters"}]
      /\ \A g \in Handlers : at'[g] = (IF g = h THEN "evaluate" ELSE at[g])
      /\ \A g \in Handlers : next'[g] = (IF g = h THEN next[g] + 1 ELSE next[g])
  <2>1. /\ at \in [Handlers -> {"idle", "evaluate", "stays", "enters"}]
        /\ next \in [Handlers -> 1 .. Len(RuleList) + 1]
        /\ next[h] + 1 \in 1 .. Len(RuleList) + 1
    BY <1>1, ListFacts DEF TypeOK
  <2> QED
    BY <1>2, <2>1
<1>9. \A s \in Names : ~Entering(s)'
  BY <1>3, <1>8 DEF Entering
<1>10. TypeOK'
  BY <1>2, <1>6, <1>8 DEF TypeOK, Switches, ruleVars, feedVars
<1>11. Differ(alertsData)'
  BY <1>6 DEF Switches, Differ
<1>12. OneFrame'
  BY <1>3, <1>8 DEF OneFrame
<1>13. Room'
  <2>1. Len(alertsData) + (Len(RuleList) + 2 - next[h]) <= MaxAlerts
    BY <1>1 DEF Room
  <2>2. Len(alertsData) + (Len(RuleList) + 2 - (next[h] + 1)) <= MaxAlerts
    <3>1. Len(alertsData) \in Nat /\ Len(RuleList) \in Nat /\ MaxAlerts \in Nat
      BY ListFacts
    <3>2. next[h] \in Nat
      BY <1>1, <3>1
    <3> QED
      BY <2>1, <3>1, <3>2, RoomAfterRule
  <2>3. \A g \in Handlers : at'[g] # "idle" =>
          Len(alertsData') + (Len(RuleList) + 2 - next'[g]) <= MaxAlerts
    <3>1. next'[h] = next[h] + 1 /\ Len(alertsData') = Len(alertsData)
      BY <1>7, <1>8
    <3>2. Len(alertsData') + (Len(RuleList) + 2 - next'[h]) <= MaxAlerts
      BY <2>2, <3>1, Zenon
    <3>3. \A g \in Handlers : at'[g] # "idle" => g = h
      BY <1>3, <1>8
    <3> QED
      BY <3>2, <3>3, Zenon
  <2>4. (Len(alertsData) < MaxAlerts \/ (feedLost /\ Silent))'
    <3>1. Len(alertsData) < MaxAlerts \/ (feedLost /\ Silent)
      BY DEF Room
    <3>2. Len(alertsData') = Len(alertsData)
      BY <1>7
    <3>3. feedLost' = feedLost /\ Silent' = Silent
      BY <1>2 DEF feedVars, Silent
    <3> QED
      BY <3>1, <3>2, <3>3, Zenon
  <2> QED
    BY <2>3, <2>4 DEF Room
<1>14. YoungIsLatest'
  <2>1. UNCHANGED <<ruleAlertTimes, ruleAlertIds>>
    BY <1>2 DEF ruleVars
  <2> QED
    BY <1>7, <2>1, YoungStays DEF SameButActive
<1>15. IdsKnown'
  <2>1. \A s \in Names, d \in AlarmColors : Known(s, d) => Known(s, d)'
    BY <1>2, <1>7 DEF Known, ruleVars
  <2>2. ASSUME NEW s \in Names, NEW d \in AlarmColors,
               ruleAlertTimes[s][d] < Interval \/ ruleColors[s] = d
        PROVE  Known(s, d)
    <3>1. CASE s = r /\ d = c
      BY <1>5, <3>1 DEF Known
    <3>2. CASE ~(s = r /\ d = c)
      <4>1. ruleAlertTimes[s][d] < Interval \/ (ruleColors[s] = d /\ s # r)
        BY <2>2, <3>2 DEF c
      <4> QED
        BY <1>4, <4>1 DEF IdsKnown
    <3> QED
      BY <3>1, <3>2
  <2> QED
    BY <1>2, <1>7, <2>1, <2>2 DEF IdsKnown, ruleVars, feedVars
<1>16. ActiveAsWanted'
  <2> SUFFICES ASSUME NEW i \in DOMAIN alertsData
               PROVE  alertsData'[i].active <=> Wanted(alertsData[i])'
    BY <1>7 DEF ActiveAsWanted
  <2>1. ruleColors[r] = c /\ r # Feed
    BY <1>1, EmsAssumption DEF c
  <2>2. CASE i = k
    <3>1. alertsData'[i].active = TRUE
      BY <2>2, <1>7
    <3>2. ruleColors' = ruleColors /\ ruleAlertIds' = ruleAlertIds
      BY <1>2 DEF ruleVars
    <3>3. /\ alertsData'[i].rule = r /\ alertsData'[i].color = c
          /\ alertsData'[i].id = ruleAlertIds'[r][c]
      BY <2>2, <3>2, <1>5, <1>7
    <3>4. alertsData'[i].rule \in Names /\ alertsData'[i].color \in AlarmColors
      BY <1>1, <3>3
    <3> HIDE DEF EmsInv
    <3>5. Wanted(alertsData[i])'
      BY <2>1, <3>2, <3>3, <3>4, <1>9 DEF Wanted
    <3> QED
      BY <3>1, <3>5
  <2>3. CASE i # k
    <3>1. alertsData[i].id # ruleAlertIds[r][c]
      BY <2>3, <1>5 DEF Differ
    <3>2. Wanted(alertsData[i])' <=> Wanted(alertsData[i])
      BY <2>1, <3>1, <1>2, <1>4, <1>7, <1>9 DEF Wanted, ruleVars, feedVars
    <3> QED
      BY <2>3, <3>2, <1>7 DEF ActiveAsWanted
  <2> QED
    BY <2>2, <2>3
<1> QED
  BY <1>10, <1>11, <1>12, <1>13, <1>14, <1>15, <1>16

LEMMA FollowFeedInv ==
    ASSUME EmsInv, FollowFeed
    PROVE  EmsInv'
<1> USE DEF EmsInv
<1>1. /\ MutexFree /\ feedLost /\ feedLost' = Silent /\ Silent \in BOOLEAN
      /\ UNCHANGED <<ruleVars, lastFrame, feedAlertId, at, next>>
      /\ alertsData' = Updated(alertsData, feedAlertId, Silent)
  BY DEF FollowFeed, Silent
<1>2. PICK k \in DOMAIN alertsData :
        alertsData[k].rule = Feed /\ alertsData[k].id = feedAlertId
  BY <1>1 DEF IdsKnown
<1>3. PICK active \in BOOLEAN : active = Silent
  BY <1>1
<1>4. Switches(alertsData', alertsData, k, active)
  <2>1. Switches(Updated(alertsData, feedAlertId, active), alertsData, k, active)
    BY <1>2, ListFacts, UpdatedChangesOne
  <2> QED
    BY <1>1, <1>3, <2>1
<1>5. /\ DOMAIN alertsData' = DOMAIN alertsData /\ Len(alertsData') = Len(alertsData)
      /\ \A i \in DOMAIN alertsData :
           /\ alertsData'[i].id = alertsData[i].id
           /\ alertsData'[i].rule = alertsData[i].rule
           /\ alertsData'[i].color = alertsData[i].color
           /\ alertsData'[i].age = alertsData[i].age
           /\ alertsData'[i].active = IF i = k THEN active ELSE alertsData[i].active
  BY <1>4 DEF Switches
<1>6. TypeOK'
  BY <1>1, <1>4 DEF TypeOK, Switches, ruleVars
<1>7. Differ(alertsData)'
  BY <1>4 DEF Switches, Differ
<1>8. \A s \in Names : Entering(s)' <=> Entering(s)
  BY <1>1 DEF Entering, Rule
<1>9. OneFrame'
  BY <1>1 DEF OneFrame, Rule, ruleVars
<1>10. Room'
  BY <1>1, <1>5 DEF Room, MutexFree, Silent
<1>11. YoungIsLatest'
  BY <1>1, <1>5 DEF YoungIsLatest, ruleVars
<1>12. IdsKnown'
  <2>1. \A s \in Names, d \in AlarmColors : Known(s, d) => Known(s, d)'
    BY <1>1, <1>5 DEF Known, ruleVars
  <2> QED
    BY <1>1, <1>2, <1>5, <1>8, <2>1 DEF IdsKnown, ruleVars
<1>13. ActiveAsWanted'
  <2> SUFFICES ASSUME NEW i \in DOMAIN alertsData
               PROVE  alertsData'[i].active <=> Wanted(alertsData[i])'
    BY <1>5 DEF ActiveAsWanted
  <2>1. CASE i = k
    BY <2>1, <1>1, <1>2, <1>3, <1>5, EmsAssumption DEF Wanted
  <2>2. CASE i # k
    <3>1. alertsData[i].id # feedAlertId
      BY <2>2, <1>2 DEF Differ
    <3>2. Wanted(alertsData[i])' <=> Wanted(alertsData[i])
      BY <3>1, <1>1, <1>5, <1>8 DEF Wanted, ruleVars
    <3> QED
      BY <2>2, <3>2, <1>5 DEF ActiveAsWanted
  <2> QED
    BY <2>1, <2>2
<1> QED
  BY <1>6, <1>7, <1>9, <1>10, <1>11, <1>12, <1>13

(* One turn of the loop, when the colour that the rule leaves has an alert to    *)
(* close, and when it has not.                                                   *)
LEMMA EvaluateInv ==
    ASSUME EmsInv, NEW h \in Handlers, NEW c \in Colors, Evaluate(h, c)
    PROVE  EmsInv'
<1> USE DEF EmsInv
<1> DEFINE r == Rule(h)
           old == ruleColors[r]
           closes == c \notin {"none", old} /\ old \in AlarmColors
<1>1. /\ at[h] = "evaluate" /\ next[h] \in 1 .. Len(RuleList) /\ r \in Names
      /\ old \in Colors
  BY ListFacts DEF Evaluate, Rule, TypeOK
<1>2. /\ UNCHANGED <<ruleAlertTimes, ruleAlertIds, feedVars>>
      /\ ruleColors' = IF c = "none" THEN ruleColors ELSE [ruleColors EXCEPT ![r] = c]
      /\ closes => alertsData' = Updated(alertsData, ruleAlertIds[r][old], FALSE)
      /\ ~closes => alertsData' = alertsData
      /\ c \in AlarmColors =>
           /\ at' = [at EXCEPT ![h] = IF c = old THEN "stays" ELSE "enters"]
           /\ next' = next
      /\ c \notin AlarmColors => at' = at /\ next' = [next EXCEPT ![h] = @ + 1]
  BY DEF Evaluate
<1>3. \A g \in Handlers : g # h => at[g] = "idle"
  BY <1>1 DEF OneFrame
<1> HIDE DEF r, old, closes
<1>4. \A s \in Names : ~Entering(s)
  BY <1>1, <1>3 DEF Entering
<1>5. /\ ruleColors' \in [Names -> Colors]
      /\ \A s \in Names :
           ruleColors'[s] = IF s = r /\ c # "none" THEN c ELSE ruleColors[s]
      /\ ruleColors[r] = old
  BY <1>1, <1>2 DEF TypeOK, old
<1>6. /\ next' \in [Handlers -> 1 .. Len(RuleList) + 1]
      /\ at' \in [Handlers -> {"idle", "evaluate", "stays", "enters"}]
      /\ at'[h] = IF c \in AlarmColors THEN IF c = old THEN "stays" ELSE "enters"
                                       ELSE "evaluate"
      /\ c \in AlarmColors => next'[h] = next[h]
      /\ c \notin AlarmColors => next'[h] = next[h] + 1
      /\ \A g \in Handlers : g # h => at'[g] = "idle" /\ next'[g] = next[g]
  <2>1. /\ at \in [Handlers -> {"idle", "evaluate", "stays", "enters"}]
        /\ next \in [Handlers -> 1 .. Len(RuleList) + 1]
        /\ next[h] + 1 \in 1 .. Len(RuleList) + 1
    BY <1>1, ListFacts DEF TypeOK
  <2>2. CASE c \in AlarmColors
    BY <1>1, <1>2, <1>3, <2>1, <2>2
  <2>3. CASE c \notin AlarmColors
    BY <1>1, <1>2, <1>3, <2>1, <2>3
  <2> QED
    BY <2>2, <2>3
<1>7. \A s \in Names : Entering(s)' <=> s = r /\ c \in AlarmColors /\ c # old
  BY <1>1, <1>6 DEF Entering, Rule, r
<1>8. OneFrame'
  <2>1. c \in AlarmColors => RuleList[next'[h]] = r /\ c # "none"
    BY <1>6 DEF AlarmColors, r, Rule
  <2> QED
    BY <1>1, <1>5, <1>6, <2>1 DEF OneFrame, Rule
<1>9. Len(alertsData') = Len(alertsData) => Room'
  <2>1. Len(alertsData) + (Len(RuleList) + 2 - next'[h]) <= MaxAlerts
    <3>1. Len(alertsData) + (Len(RuleList) + 2 - next[h]) <= MaxAlerts
      BY <1>1 DEF Room
    <3>2. next[h] \in Nat /\ next'[h] \in {next[h], next[h] + 1}
      BY <1>1, <1>6, ListFacts
    <3>3. Len(alertsData) \in Nat /\ Len(RuleList) \in Nat /\ MaxAlerts \in Nat
      BY ListFacts
    <3>4. CASE next'[h] = next[h]
      BY <3>1, <3>4, Zenon
    <3>5. CASE next'[h] = next[h] + 1
      <4>1. Len(alertsData) + (Len(RuleList) + 2 - (next[h] + 1)) <= MaxAlerts
        BY <3>1, <3>2, <3>3, RoomAfterRule
      <4> QED
        BY <4>1, <3>5, Zenon
    <3> QED
      BY <3>2, <3>4, <3>5
  <2> QED
    BY <1>2, <1>6, <2>1 DEF Room, feedVars, Silent
<1>10. CASE closes
  <2>1. old \in AlarmColors /\ c # old /\ c # "none"
    BY <1>10 DEF closes
  <2>2. PICK k \in DOMAIN alertsData :
          /\ alertsData[k].rule = r /\ alertsData[k].color = old
          /\ alertsData[k].id = ruleAlertIds[r][old]
    <3>1. Known(r, old)
      BY <1>1, <1>4, <1>5, <2>1 DEF IdsKnown
    <3> QED
      BY <3>1 DEF Known
  <2>3. Switches(alertsData', alertsData, k, FALSE)
    <3>1. Switches(Updated(alertsData, ruleAlertIds[r][old], FALSE), alertsData, k, FALSE)
      BY <2>2, ListFacts, UpdatedChangesOne
    <3> QED
      BY <1>2, <1>10, <3>1
  <2>4. /\ DOMAIN alertsData' = DOMAIN alertsData /\ Len(alertsData') = Len(alertsData)
        /\ \A i \in DOMAIN alertsData :
             /\ alertsData'[i].id = alertsData[i].id
             /\ alertsData'[i].rule = alertsData[i].rule
             /\ alertsData'[i].color = alertsData[i].color
             /\ alertsData'[i].age = alertsData[i].age
             /\ alertsData'[i].active = IF i = k THEN FALSE ELSE alertsData[i].active
    BY <2>3 DEF Switches
  <2>5. TypeOK'
    BY <1>2, <1>5, <1>6, <2>3 DEF TypeOK, Switches, feedVars
  <2>6. Differ(alertsData)'
    BY <2>3 DEF Switches, Differ
  <2>7. YoungIsLatest'
    BY <1>2, <2>4, YoungStays DEF SameButActive
  <2>8. IdsKnown'
    <3>1. \A s \in Names, d \in AlarmColors : Known(s, d) => Known(s, d)'
      BY <1>2, <2>4 DEF Known
    <3>2. ASSUME NEW s \in Names, NEW d \in AlarmColors, ruleColors'[s] = d, ~Entering(s)'
          PROVE  ruleColors[s] = d /\ ~Entering(s)
      BY <3>2, <1>4, <1>5, <1>7, <2>1
    <3> QED
      BY <1>2, <2>4, <3>1, <3>2 DEF IdsKnown, feedVars
  <2>9. ActiveAsWanted'
    <3> SUFFICES ASSUME NEW i \in DOMAIN alertsData
                 PROVE  alertsData'[i].active <=> Wanted(alertsData[i])'
      BY <2>4 DEF ActiveAsWanted
    <3>1. r # Feed
      BY <1>1, EmsAssumption
    <3>2. CASE i = k
      BY <3>1, <3>2, <1>5, <2>1, <2>2, <2>4 DEF Wanted
    <3>3. CASE i # k
      <4>1. alertsData[i].id # ruleAlertIds[r][old]
        BY <3>3, <2>2 DEF Differ
      <4>2. Wanted(alertsData[i])' <=> Wanted(alertsData[i])
        <5>1. CASE alertsData[i].rule = r
          <6>1. ~Wanted(alertsData[i])
            BY <3>1, <4>1, <5>1, <1>5 DEF Wanted
          <6>2. ~Wanted(alertsData[i])'
            BY <3>1, <5>1, <1>1, <1>5, <1>7, <2>1, <2>4 DEF Wanted
          <6> QED
            BY <6>1, <6>2
        <5>2. CASE alertsData[i].rule # r
          BY <5>2, <1>2, <1>4, <1>5, <1>7, <2>4 DEF Wanted, feedVars
        <5> QED
          BY <5>1, <5>2
      <4> QED
        BY <3>3, <4>2, <2>4 DEF ActiveAsWanted
    <3> QED
      BY <3>2, <3>3
  <2> QED
    BY <1>8, <1>9, <2>4, <2>5, <2>6, <2>7, <2>8, <2>9
<1>11. CASE ~closes
  <2>1. alertsData' = alertsData
    BY <1>2, <1>11
  <2>2. c = "none" \/ c = old \/ old \notin AlarmColors
    BY <1>11 DEF closes
  <2>3. TypeOK'
    BY <1>2, <1>5, <1>6, <2>1 DEF TypeOK, feedVars
  <2>4. Differ(alertsData)'
    BY <2>1 DEF Differ
  <2>5. YoungIsLatest'
    BY <1>2, <2>1 DEF YoungIsLatest
  <2>6. ASSUME NEW s \in Names, NEW d \in AlarmColors
        PROVE  (ruleColors'[s] = d /\ ~Entering(s)') <=> (ruleColors[s] = d /\ ~Entering(s))
    BY <1>4, <1>5, <1>7, <2>2 DEF AlarmColors
  <2>7. IdsKnown'
    <3>1. \A s \in Names, d \in AlarmColors : Known(s, d)' <=> Known(s, d)
      BY <1>2, <2>1 DEF Known
    <3> QED
      BY <1>2, <2>1, <2>6, <3>1 DEF IdsKnown, feedVars
  <2>8. ActiveAsWanted'
    BY <1>2, <2>1, <2>6 DEF ActiveAsWanted, Wanted, feedVars
  <2> QED
    BY <1>8, <1>9, <2>1, <2>3, <2>4, <2>5, <2>7, <2>8
<1> QED
  BY <1>10, <1>11
---------------------------------------------------------------------------
LEMMA NextInv == EmsInv /\ [Next]_vars => EmsInv'
<1> SUFFICES ASSUME EmsInv, [Next]_vars
             PROVE  EmsInv'
  OBVIOUS
<1>1. ASSUME NEW h \in Handlers, Serve(h) PROVE EmsInv'
  BY <1>1, EvaluateInv, RaiseRuleInv, ConfirmRuleInv, EndFrameInv DEF Serve
<1>2. ASSUME NEW h \in Handlers, Frame(h) PROVE EmsInv'
  BY <1>2, FrameInv
<1>3. CASE CheckFeed
  BY <1>3, LoseFeedInv, FollowFeedInv DEF CheckFeed
<1>4. CASE \E t \in ClockReadings : OtherAlert(t)
  BY <1>4, OtherAlertInv
<1>5. CASE Tick
  BY <1>5, TickInv
<1>6. CASE UNCHANGED vars
  BY <1>6 DEF vars, EmsInv, TypeOK, Differ, OneFrame, Room, YoungIsLatest, IdsKnown,
              ActiveAsWanted, Known, Wanted, Entering, Rule, Silent
<1> QED
  BY <1>1, <1>2, <1>3, <1>4, <1>5, <1>6 DEF Next

LEMMA EmsInvKept == Spec => []EmsInv
  BY InitInv, NextInv, PTL DEF Spec

(* The variables keep their types: an identifier is always a time of day, and a  *)
(* handler never looks at a rule that is not in the file.                        *)
THEOREM TypeCorrect == Spec => []TypeOK
<1>1. EmsInv => TypeOK
  BY DEF EmsInv
<1> QED
  BY <1>1, EmsInvKept, PTL

(* The alert that is to be active is in the list, and identifiers tell it apart.  *)
LEMMA InvTellsColor == EmsInv => ListTellsColor
<1>1. ASSUME EmsInv PROVE ListTellsColor
  <2> SUFFICES ASSUME NEW r \in Names
               PROVE  \/ ruleColors[r] \in AlarmColors /\ Entering(r) /\ Active(r) = {}
                      \/ ruleColors[r] \in AlarmColors /\ ~Entering(r)
                           /\ \E i \in DOMAIN alertsData :
                                  Active(r) = {i} /\ alertsData[i].color = ruleColors[r]
                      \/ ruleColors[r] \notin AlarmColors /\ Active(r) = {}
    BY DEF ListTellsColor
  <2>1. r # Feed
    BY EmsAssumption
  <2>2. \A i \in DOMAIN alertsData :
          i \in Active(r) <=>
             /\ alertsData[i].rule = r /\ alertsData[i].color \in AlarmColors
             /\ ruleColors[r] = alertsData[i].color /\ ~Entering(r)
             /\ ruleAlertIds[r][alertsData[i].color] = alertsData[i].id
    BY <1>1, <2>1 DEF EmsInv, ActiveAsWanted, Wanted, Active
  <2>3. Active(r) \subseteq DOMAIN alertsData
    BY DEF Active
  <2>4. CASE ruleColors[r] \in AlarmColors /\ ~Entering(r)
    <3>1. PICK k \in DOMAIN alertsData :
            /\ alertsData[k].rule = r /\ alertsData[k].color = ruleColors[r]
            /\ alertsData[k].id = ruleAlertIds[r][ruleColors[r]]
      BY <1>1, <2>4 DEF EmsInv, IdsKnown, Known
    <3>2. \A i \in Active(r) : i = k
      BY <1>1, <2>2, <2>3, <3>1 DEF EmsInv, Differ
    <3>3. Active(r) = {k}
      BY <2>2, <2>4, <3>1, <3>2
    <3> QED
      BY <2>4, <3>1, <3>3
  <2>5. CASE ~(ruleColors[r] \in AlarmColors /\ ~Entering(r))
    BY <2>2, <2>3, <2>5
  <2> QED
    BY <2>4, <2>5
<1> QED
  BY <1>1

(* Between two pushes as at any other time, the list tells the colour of every   *)
(* rule by one active alert or none.                                             *)
THEOREM ListTellsColorKept == Spec => []ListTellsColor
  BY InvTellsColor, EmsInvKept, PTL

(* A flapping rule does not flood the list.                                      *)
THEOREM NotRaisedAgainKept == Spec => []NotRaisedAgain
<1>1. ASSUME EmsInv PROVE NotRaisedAgain
  BY <1>1 DEF EmsInv, YoungIsLatest, Differ, NotRaisedAgain
<1> QED
  BY <1>1, EmsInvKept, PTL

(* The alerts of others stay as they are, and the feed's is active while the     *)
(* feed is lost.                                                                 *)
THEOREM OthersUntouchedKept == Spec => []OthersUntouched
<1>1. ASSUME EmsInv PROVE OthersUntouched
  <2>1. \A i \in DOMAIN alertsData : alertsData[i].rule = Other => ~alertsData[i].active
    BY <1>1, EmsAssumption DEF EmsInv, ActiveAsWanted, Wanted
  <2>2. \A i \in DOMAIN alertsData :
          i \in Active(Feed) <=>
            alertsData[i].rule = Feed /\ feedLost /\ feedAlertId = alertsData[i].id
    BY <1>1, EmsAssumption DEF EmsInv, ActiveAsWanted, Wanted, Active
  <2>3. Active(Feed) \subseteq DOMAIN alertsData
    BY DEF Active
  <2>4. feedLost <=> Active(Feed) # {}
    BY <1>1, <2>2, <2>3 DEF EmsInv, IdsKnown
  <2>5. \A i, j \in Active(Feed) : i = j
    BY <1>1, <2>2, <2>3 DEF EmsInv, Differ
  <2> QED
    BY <2>1, <2>4, <2>5 DEF OthersUntouched
<1> QED
  BY <1>1, EmsInvKept, PTL
---------------------------------------------------------------------------
(* What the list shows of a rule, in terms of its colour.                        *)
Light(r) == IF ruleColors[r] \in AlarmColors /\ ~Entering(r) THEN {ruleColors[r]} ELSE {}

ShowsLights == [r \in Names |-> ActiveColors(r)] = [r \in Names |-> Light(r)]

LEMMA ShownIsLight == EmsInv => ShowsLights
<1> SUFFICES ASSUME EmsInv, NEW r \in Names
             PROVE  ActiveColors(r) = Light(r)
  BY DEF ShowsLights
<1>1. ListTellsColor
  BY InvTellsColor
<1>2. CASE ruleColors[r] \in AlarmColors /\ ~Entering(r)
  <2>1. PICK k \in DOMAIN alertsData :
          Active(r) = {k} /\ alertsData[k].color = ruleColors[r]
    BY <1>1, <1>2 DEF ListTellsColor
  <2> QED
    BY <1>2, <2>1 DEF ActiveColors, Light
<1>3. CASE ~(ruleColors[r] \in AlarmColors /\ ~Entering(r))
  <2>1. Active(r) = {}
    BY <1>1, <1>3 DEF ListTellsColor
  <2> QED
    BY <1>3, <2>1 DEF ActiveColors, Light
<1> QED
  BY <1>2, <1>3

(* A step that changes the light of one rule, on or off, is a step of the panel.  *)
LEMMA OneLightIsAStep ==
    ASSUME NEW r \in Names, NEW c \in AlarmColors,
           \A s \in Names : s # r => Light(s)' = Light(s),
           \/ Light(r) = {} /\ Light(r)' = {c}
           \/ Light(r) = {c} /\ Light(r)' = {},
           ShowsLights, ShowsLights'
    PROVE  Panel!Next
<1> DEFINE shown == [s \in Names |-> ActiveColors(s)]
           light == [s \in Names |-> Light(s)]
<1>1. shown' = [shown EXCEPT ![r] = Light(r)'] /\ shown[r] = Light(r)
  <2>1. light' = [light EXCEPT ![r] = Light(r)'] /\ light[r] = Light(r)
    OBVIOUS
  <2> QED
    BY <2>1 DEF ShowsLights
<1>2. CASE Light(r) = {} /\ Light(r)' = {c}
  BY <1>1, <1>2 DEF Panel!Next, Panel!Light
<1>3. CASE Light(r) = {c} /\ Light(r)' = {}
  BY <1>1, <1>3 DEF Panel!Next, Panel!Darken
<1> QED
  BY <1>2, <1>3

(* How one turn of the loop changes what the lights depend on.                   *)
LEMMA EvaluateFacts ==
    ASSUME EmsInv, NEW h \in Handlers, NEW c \in Colors, Evaluate(h, c)
    PROVE  /\ Rule(h) \in Names
           /\ \A s \in Names :
                /\ ~Entering(s)
                /\ Entering(s)' <=> s = Rule(h) /\ c \in AlarmColors /\ c # ruleColors[Rule(h)]
                /\ ruleColors'[s] = IF s = Rule(h) /\ c # "none" THEN c ELSE ruleColors[s]
<1> DEFINE r == Rule(h)
<1>1. at[h] = "evaluate" /\ next[h] \in 1 .. Len(RuleList) /\ r \in Names
  BY ListFacts DEF EmsInv, Evaluate, Rule, TypeOK
<1>2. \A g \in Handlers : g # h => at[g] = "idle"
  BY <1>1 DEF EmsInv, OneFrame
<1>3. at \in [Handlers -> {"idle", "evaluate", "stays", "enters"}] /\ ruleColors \in [Names -> Colors]
  BY DEF EmsInv, TypeOK
<1>4. \A s \in Names : ~Entering(s)
  BY <1>1, <1>2 DEF Entering
<1>5. CASE c \in AlarmColors
  <2>1. next' = next /\ at' = [at EXCEPT ![h] = IF c = ruleColors[r] THEN "stays" ELSE "enters"]
    BY <1>5 DEF Evaluate
  <2> QED
    BY <1>1, <1>2, <1>3, <1>4, <2>1 DEF Evaluate, Entering, Rule
<1>6. CASE c \notin AlarmColors
  <2>1. at' = at
    BY <1>6 DEF Evaluate
  <2> QED
    BY <1>1, <1>2, <1>3, <1>4, <1>6, <2>1 DEF Evaluate, Entering
<1> QED
  BY <1>5, <1>6

(* The same for the push that follows.                                           *)
LEMMA PushFacts ==
    ASSUME EmsInv, NEW h \in Handlers,
           ConfirmRule(h) \/ \E t \in ClockReadings : RaiseRule(h, t)
    PROVE  /\ Rule(h) \in Names /\ ruleColors[Rule(h)] \in AlarmColors
           /\ ruleColors' = ruleColors
           /\ \A s \in Names : /\ Entering(s) <=> s = Rule(h) /\ at[h] = "enters"
                               /\ ~Entering(s)'
<1>1. at[h] \in {"stays", "enters"} /\ at' = [at EXCEPT ![h] = "evaluate"] /\ ruleColors' = ruleColors
  BY DEF ConfirmRule, RaiseRule, NextRule, ruleVars
<1>2. next[h] \in 1 .. Len(RuleList) /\ ruleColors[Rule(h)] \in AlarmColors
  BY <1>1, ListFacts DEF EmsInv, OneFrame, TypeOK
<1>3. Rule(h) \in Names
  BY <1>2, ListFacts DEF Rule
<1>4. \A g \in Handlers : g # h => at[g] = "idle"
  BY <1>1 DEF EmsInv, OneFrame
<1>5. \A g \in Handlers : at'[g] # "enters"
  BY <1>1, <1>4 DEF EmsInv, TypeOK
<1> QED
  BY <1>1, <1>2, <1>3, <1>4, <1>5 DEF Entering

(* The rules never show but what the panel may: one colour at a time, and dark   *)
(* in between.                                                                   *)
THEOREM ImplementsPanel == Spec => PanelSpec
<1> DEFINE shown == [r \in Names |-> ActiveColors(r)]
<1>1. Init => Panel!Init
  <2> SUFFICES ASSUME Init PROVE \A r \in Names : ActiveColors(r) = {}
    BY DEF Panel!Init
  <2>1. \A r \in Names : Light(r) = {}
    BY DEF Init, Light, AlarmColors
  <2>2. [r \in Names |-> ActiveColors(r)] = [r \in Names |-> Light(r)]
    BY InitInv, ShownIsLight DEF ShowsLights
  <2> QED
    BY <2>1, <2>2
<1>2. EmsInv /\ ShowsLights /\ ShowsLights' /\ [Next]_vars => [Panel!Next]_shown
  <2> SUFFICES ASSUME EmsInv, ShowsLights, ShowsLights', [Next]_vars
               PROVE  Panel!Next \/ shown' = shown
    OBVIOUS
  <2>1. ASSUME \A r \in Names : Light(r)' = Light(r) PROVE shown' = shown
    BY <2>1 DEF ShowsLights
  <2>2. ASSUME NEW h \in Handlers, NEW c \in Colors, Evaluate(h, c)
        PROVE  Panel!Next \/ shown' = shown
    <3>1. PICK r \in Names, old \in Colors : r = Rule(h) /\ old = ruleColors[r]
      BY <2>2, EvaluateFacts DEF EmsInv, TypeOK
    <3>2. \A s \in Names :
            /\ ~Entering(s)
            /\ Entering(s)' <=> s = r /\ c \in AlarmColors /\ c # old
            /\ ruleColors'[s] = IF s = r /\ c # "none" THEN c ELSE ruleColors[s]
      BY <2>2, <3>1, EvaluateFacts
    <3>3. \A s \in Names : s # r => Light(s)' = Light(s)
      BY <3>2 DEF Light
    <3>4. CASE c = "none" \/ c = old \/ old \notin AlarmColors
      <4>1. Light(r)' = Light(r)
        BY <3>1, <3>4, <3>2 DEF Light, AlarmColors
      <4> QED
        BY <2>1, <3>3, <4>1
    <3>5. CASE c \notin {"none", old} /\ old \in AlarmColors
      <4>1. Light(r) = {old} /\ Light(r)' = {}
        BY <3>1, <3>5, <3>2 DEF Light
      <4> QED
        BY <3>1, <3>5, <3>3, <4>1, OneLightIsAStep
    <3> QED
      BY <3>4, <3>5
  <2>3. ASSUME NEW h \in Handlers, ConfirmRule(h) \/ \E t \in ClockReadings : RaiseRule(h, t)
        PROVE  Panel!Next \/ shown' = shown
    <3>1. PICK r \in Names, c \in AlarmColors : r = Rule(h) /\ c = ruleColors[r]
      BY <2>3, PushFacts
    <3>2. /\ ruleColors' = ruleColors
          /\ \A s \in Names : /\ Entering(s) <=> s = r /\ at[h] = "enters"
                              /\ ~Entering(s)'
      BY <2>3, <3>1, PushFacts
    <3>3. \A s \in Names : s # r => Light(s)' = Light(s)
      BY <3>2 DEF Light
    <3>4. CASE at[h] = "enters"
      <4>1. Light(r) = {} /\ Light(r)' = {c}
        BY <3>1, <3>4, <3>2 DEF Light
      <4> QED
        BY <3>1, <3>3, <4>1, OneLightIsAStep
    <3>5. CASE at[h] # "enters"
      <4>1. Light(r)' = Light(r)
        BY <3>1, <3>5, <3>2 DEF Light
      <4> QED
        BY <2>1, <3>3, <4>1
    <3> QED
      BY <3>4, <3>5
  <2>4. ASSUME NEW h \in Handlers, Frame(h) \/ EndFrame(h)
        PROVE  Panel!Next \/ shown' = shown
    <3>1. ruleColors' = ruleColors
      BY <2>4 DEF Frame, EndFrame, ruleVars
    <3>2. \A s \in Names : Entering(s)' <=> Entering(s)
      <4>1. at \in [Handlers -> {"idle", "evaluate", "stays", "enters"}]
        BY DEF EmsInv, TypeOK
      <4>2. at[h] # "enters" /\ at'[h] # "enters"
        BY <2>4, <4>1 DEF Frame, EndFrame, MutexFree
      <4>3. \A g \in Handlers : g # h => at'[g] = at[g] /\ next'[g] = next[g]
        BY <2>4, <4>1 DEF Frame, EndFrame, EmsInv, TypeOK
      <4> QED
        BY <4>2, <4>3 DEF Entering, Rule
    <3> QED
      BY <2>1, <3>1, <3>2 DEF Light
  <2>5. CASE CheckFeed \/ Tick \/ (\E t \in ClockReadings : OtherAlert(t)) \/ UNCHANGED vars
    <3>1. UNCHANGED <<ruleColors, at, next>>
      BY <2>5 DEF CheckFeed, LoseFeed, FollowFeed, Tick, OtherAlert, vars, ruleVars
    <3> QED
      BY <2>1, <3>1 DEF Light, Entering, Rule
  <2> QED
    BY <2>2, <2>3, <2>4, <2>5 DEF Next, Serve
<1> QED
  BY <1>1, <1>2, EmsInvKept, ShownIsLight, PTL DEF Spec, PanelSpec, Panel!Spec
=============================================================================
