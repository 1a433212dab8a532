----------------------------- MODULE EmsAlarms -----------------------------
(* The engine alarms of main/ems.go: every EMS frame posted to the daemon runs   *)
(* validateRules, which raises, confirms, reopens and closes the alerts of the   *)
(* engine rules in the list of main/alerts.go; the listener's checkFeed raises   *)
(* an alert when frames stop during an alarm.  Both hold emsDataMutex from end   *)
(* to end, but the list has its own mutex, and other parts of the program raise  *)
(* their alerts between two pushes of one frame, as the display may read the     *)
(* list there.                                                                   *)
(*                                                                               *)
(* Abstracted: probe values and bands, so a rule evaluates to any colour, or to  *)
(* none when its value is outside every band or no probe is known; frames posted *)
(* at once may mix their values and so give any colour too.  Times are ages, in  *)
(* ticks, up to the age at which the code stops telling them apart; the wall     *)
(* clock, which gives the identifiers, may show any time of day.                 *)
EXTENDS AlertList

CONSTANTS Names,            \* names of rules
          RuleList,         \* the rules of the file, in its order
          Handlers,         \* goroutines that serve a posted frame
          ClockReadings,    \* times of day that the wall clock may show
          Interval,         \* EMS_RULE_ALERT_INTERVAL
          FeedTimeout,      \* EMS_FEED_TIMEOUT
          Feed, Other,      \* who else raises: checkFeed, other parts
          MaxAlerts         \* bound: alerts in the list

ASSUME EmsAssumption ==
    /\ RuleList \in Seq(Names)
    /\ Feed \notin Names /\ Other \notin Names /\ Feed # Other
    /\ ClockReadings \subseteq Times
    /\ Interval \in Nat \ {0} /\ FeedTimeout \in Nat \ {0}
    /\ MaxAlerts \in 2 .. Day

AlarmColors == {"yellow", "red"}
Colors == AlarmColors \cup {"green", "none"}

Never == -1                 \* the age of a frame not yet received

VARIABLES
    alertsData,             \* the alerts, oldest first
    ruleColors,             \* colour each rule had last, "none" before the first
    ruleAlertTimes,         \* age of the latest raise, for a rule and colour
    ruleAlertIds,           \* identifier of that alert, 0 before the first
    lastFrame,              \* age of the latest frame
    feedLost, feedAlertId,
    at, next                \* place of each handler in validateRules, and its rule

vars == <<alertsData, ruleColors, ruleAlertTimes, ruleAlertIds, lastFrame, feedLost,
          feedAlertId, at, next>>
ruleVars == <<ruleColors, ruleAlertTimes, ruleAlertIds>>
feedVars == <<lastFrame, feedLost, feedAlertId>>

Alerts == [id : Times, rule : Names \cup {Feed, Other}, color : Colors,
           active : BOOLEAN, age : 0 .. Interval]

\* The start-up alert of alerts.InitFunc is there before ems.InitFunc runs.
Init ==
    /\ \E t \in ClockReadings : alertsData = Raised(<<>>, t, Other, "none", FALSE)
    /\ ruleColors = [r \in Names |-> "none"]
    /\ ruleAlertTimes = [r \in Names |-> [c \in AlarmColors |-> Interval]]
    /\ ruleAlertIds = [r \in Names |-> [c \in AlarmColors |-> 0]]
    /\ lastFrame = Never /\ feedLost = FALSE /\ feedAlertId = 0
    /\ at = [h \in Handlers |-> "idle"]
    /\ next = [h \in Handlers |-> 1]

MutexFree == \A h \in Handlers : at[h] = "idle"     \* emsDataMutex
Rule(h) == RuleList[next[h]]

\* Room for every raise of a frame and for the loss of the feed after it.
Reserve == Len(RuleList) + 1
---------------------------------------------------------------------------
(* Mutant: frames are served side by side.                                       *)
FrameUnlocked(h) ==
    /\ at[h] = "idle" /\ Len(alertsData) + Reserve <= MaxAlerts
    /\ lastFrame' = 0 /\ at' = [at EXCEPT ![h] = "evaluate"]
    /\ UNCHANGED <<alertsData, ruleVars, feedLost, feedAlertId, next>>

\* A frame has been posted: validateRules takes the mutex and notes the time.
Frame(h) ==
    /\ MutexFree
    /\ Len(alertsData) + Reserve <= MaxAlerts
    /\ lastFrame' = 0
    /\ at' = [at EXCEPT ![h] = "evaluate"]
    /\ UNCHANGED <<alertsData, ruleVars, feedLost, feedAlertId, next>>

(* Mutant: the alert of the colour that was left stays active.                   *)
EvaluateKeepsOld(h, c) ==
    LET r == Rule(h)
        old == ruleColors[r]
    IN  /\ at[h] = "evaluate" /\ next[h] <= Len(RuleList)
        /\ ruleColors' = IF c = "none" THEN ruleColors ELSE [ruleColors EXCEPT ![r] = c]
        /\ IF c \in AlarmColors
             THEN /\ at' = [at EXCEPT ![h] = IF c = old THEN "stays" ELSE "enters"]
                  /\ UNCHANGED next
             ELSE /\ next' = [next EXCEPT ![h] = @ + 1]
                  /\ UNCHANGED at
        /\ UNCHANGED <<alertsData, ruleAlertTimes, ruleAlertIds, feedVars>>

\* One turn of the loop up to the push of its alert: the rule has colour c, and
\* the alert of an alarm colour that it has left is closed.
Evaluate(h, c) ==
    LET r == Rule(h)
        old == ruleColors[r]
    IN  /\ at[h] = "evaluate"
        /\ next[h] <= Len(RuleList)
        /\ ruleColors' = IF c = "none" THEN ruleColors ELSE [ruleColors EXCEPT ![r] = c]
        /\ alertsData' = IF c \notin {"none", old} /\ old \in AlarmColors
                           THEN Updated(alertsData, ruleAlertIds[r][old], FALSE)
                           ELSE alertsData
        /\ IF c \in AlarmColors
             THEN /\ at' = [at EXCEPT ![h] = IF c = old THEN "stays" ELSE "enters"]
                  /\ UNCHANGED next
             ELSE /\ next' = [next EXCEPT ![h] = @ + 1]
                  /\ UNCHANGED at
        /\ UNCHANGED <<ruleAlertTimes, ruleAlertIds, feedVars>>

NextRule(h) ==
    /\ next' = [next EXCEPT ![h] = @ + 1]
    /\ at' = [at EXCEPT ![h] = "evaluate"]

(* Mutant: every entry into the colour raises an alert, however early.           *)
RaiseRuleEarly(h, t) ==
    LET r == Rule(h)
        c == ruleColors[r]
    IN  /\ at[h] = "enters"
        /\ alertsData' = Raised(alertsData, t, r, c, TRUE)
        /\ ruleAlertTimes' = [ruleAlertTimes EXCEPT ![r][c] = 0]
        /\ ruleAlertIds' = [ruleAlertIds EXCEPT ![r][c] = NewEventId(alertsData, t)]
        /\ NextRule(h)
        /\ UNCHANGED <<ruleColors, feedVars>>

\* The rule entered the colour and raised no alert for it of late: a new alert.
RaiseRule(h, t) ==
    LET r == Rule(h)
        c == ruleColors[r]
    IN  /\ at[h] = "enters"
        /\ ruleAlertTimes[r][c] >= Interval
        /\ alertsData' = Raised(alertsData, t, r, c, TRUE)
        /\ ruleAlertTimes' = [ruleAlertTimes EXCEPT ![r][c] = 0]
        /\ ruleAlertIds' = [ruleAlertIds EXCEPT ![r][c] = NewEventId(alertsData, t)]
        /\ NextRule(h)
        /\ UNCHANGED <<ruleColors, feedVars>>

(* Mutant: only a rule that stays in its colour is confirmed.                    *)
ConfirmRuleStaying(h) ==
    LET r == Rule(h)
        c == ruleColors[r]
    IN  /\ at[h] = "stays" \/ (at[h] = "enters" /\ ruleAlertTimes[r][c] < Interval)
        /\ alertsData' = IF at[h] = "stays"
                           THEN Updated(alertsData, ruleAlertIds[r][c], TRUE)
                           ELSE alertsData
        /\ NextRule(h)
        /\ UNCHANGED <<ruleVars, feedVars>>

\* The rule stays in its colour, or is back in it early: its alert is active.
ConfirmRule(h) ==
    LET r == Rule(h)
        c == ruleColors[r]
    IN  /\ at[h] = "stays" \/ (at[h] = "enters" /\ ruleAlertTimes[r][c] < Interval)
        /\ alertsData' = Updated(alertsData, ruleAlertIds[r][c], TRUE)
        /\ NextRule(h)
        /\ UNCHANGED <<ruleVars, feedVars>>

\* The end of the loop: the mutex is free again.
EndFrame(h) ==
    /\ at[h] = "evaluate"
    /\ next[h] > Len(RuleList)
    /\ at' = [at EXCEPT ![h] = "idle"]
    /\ next' = [next EXCEPT ![h] = 1]
    /\ UNCHANGED <<alertsData, ruleVars, feedVars>>
---------------------------------------------------------------------------
Silent == lastFrame = FeedTimeout
RuleInAlarm == \E r \in Names : ruleColors[r] \in AlarmColors

(* Mutant: a yellow rule is no alarm.                                            *)
LoseFeedRedOnly(t) ==
    /\ MutexFree /\ Silent /\ ~feedLost
    /\ \E r \in Names : ruleColors[r] = "red"
    /\ feedLost' = TRUE /\ feedAlertId' = NewEventId(alertsData, t)
    /\ alertsData' = Raised(alertsData, t, Feed, "none", TRUE)
    /\ UNCHANGED <<ruleVars, lastFrame, at, next>>

\* checkFeed, while the frames stop with a rule in alarm.
LoseFeed(t) ==
    /\ MutexFree
    /\ Silent /\ ~feedLost
    /\ RuleInAlarm
    /\ feedLost' = TRUE
    /\ feedAlertId' = NewEventId(alertsData, t)
    /\ alertsData' = Raised(alertsData, t, Feed, "none", TRUE)
    /\ UNCHANGED <<ruleVars, lastFrame, at, next>>

\* checkFeed, while the frames stay away or when they are back.
FollowFeed ==
    /\ MutexFree
    /\ feedLost
    /\ feedLost' = Silent
    /\ alertsData' = Updated(alertsData, feedAlertId, Silent)
    /\ UNCHANGED <<ruleVars, lastFrame, feedAlertId, at, next>>

\* Another part of the program raises an alert that has no condition.
OtherAlert(t) ==
    /\ Len(alertsData) + Reserve < MaxAlerts
    /\ alertsData' = Raised(alertsData, t, Other, "none", FALSE)
    /\ UNCHANGED <<ruleVars, feedVars, at, next>>

Older(age, cap) == IF age < cap THEN age + 1 ELSE age

Tick ==
    /\ alertsData' = [i \in DOMAIN alertsData |->
                        [alertsData[i] EXCEPT !.age = Older(@, Interval)]]
    /\ ruleAlertTimes' = [r \in Names |-> [c \in AlarmColors |->
                            Older(ruleAlertTimes[r][c], Interval)]]
    /\ lastFrame' = IF lastFrame = Never THEN Never ELSE Older(lastFrame, FeedTimeout)
    /\ UNCHANGED <<ruleColors, ruleAlertIds, feedLost, feedAlertId, at, next>>

Serve(h) ==
    \/ \E c \in Colors : Evaluate(h, c)
    \/ \E t \in ClockReadings : RaiseRule(h, t)
    \/ ConfirmRule(h)
    \/ EndFrame(h)
CheckFeed == (\E t \in ClockReadings : LoseFeed(t)) \/ FollowFeed

Next ==
    \/ \E h \in Handlers : Frame(h) \/ Serve(h)
    \/ CheckFeed
    \/ \E t \in ClockReadings : OtherAlert(t)
    \/ Tick

\* A frame that is served is served to its end.  The listener's turn comes again
\* and again, and the mutex, which frames may hold each time it asks, in the end.
Fairness ==
    /\ \A h \in Handlers : WF_vars(Serve(h))
    /\ SF_vars(CheckFeed)

Spec == Init /\ [][Next]_vars /\ Fairness
---------------------------------------------------------------------------
TypeOK ==
    /\ alertsData \in Seq(Alerts)
    /\ ruleColors \in [Names -> Colors]
    /\ ruleAlertTimes \in [Names -> [AlarmColors -> 0 .. Interval]]
    /\ ruleAlertIds \in [Names -> [AlarmColors -> Times]]
    /\ lastFrame \in {Never} \cup 0 .. FeedTimeout
    /\ feedLost \in BOOLEAN /\ feedAlertId \in Times
    /\ at \in [Handlers -> {"idle", "evaluate", "stays", "enters"}]
    /\ next \in [Handlers -> 1 .. Len(RuleList) + 1]

\* The indices of the active alerts raised by `rule'.
Active(rule) == {i \in DOMAIN alertsData : alertsData[i].rule = rule /\ alertsData[i].active}
ActiveColors(rule) == {alertsData[i].color : i \in Active(rule)}

\* The rule whose alert is about to be pushed by a handler.
Entering(r) == \E h \in Handlers : at[h] = "enters" /\ Rule(h) = r

(* The list always tells the present colour of every rule: one active alert, of  *)
(* the colour, when it is yellow or red, and none when it is green, but for the  *)
(* rule that a frame is just taking from one colour to the other.  Colours come  *)
(* back early and late, identifiers collide and other alerts come in between.    *)
ListTellsColor ==
    \A r \in Names :
        \/ ruleColors[r] \in AlarmColors /\ Entering(r) /\ Active(r) = {}
        \/ ruleColors[r] \in AlarmColors /\ ~Entering(r)
             /\ \E i \in DOMAIN alertsData :
                    Active(r) = {i} /\ alertsData[i].color = ruleColors[r]
        \/ ruleColors[r] \notin AlarmColors /\ Active(r) = {}

(* The pilot never sees two alerts of one rule active at once, nor one colour    *)
(* replaced by the other without the first having gone: the code's "The old      *)
(* color first: a rule never shows two active alerts", for readers of the list   *)
(* that take no notice of emsDataMutex.                                          *)
Panel == INSTANCE AlarmPanel WITH shown <- [r \in Names |-> ActiveColors(r)]
PanelSpec == Panel!Spec

(* A rule that flaps around a band does not flood the list: of the alerts of one *)
(* rule and colour at most one is younger than the interval.                     *)
NotRaisedAgain ==
    \A i, j \in DOMAIN alertsData :
        /\ alertsData[i].rule = alertsData[j].rule /\ alertsData[i].rule \in Names
        /\ alertsData[i].color = alertsData[j].color
        /\ alertsData[i].age < Interval /\ alertsData[j].age < Interval
        => i = j

(* An update reaches the alert it is meant for: those of other parts of the      *)
(* program, midnight's with identifier 0 among them, are never changed, and the  *)
(* feed's is active exactly while the feed is lost.                              *)
OthersUntouched ==
    /\ \A i \in DOMAIN alertsData : alertsData[i].rule = Other => ~alertsData[i].active
    /\ feedLost <=> Active(Feed) # {}
    /\ \A i, j \in Active(Feed) : i = j

(* Silence is not taken for recovery: when frames stop with a rule in alarm, the *)
(* loss is shown, unless they come back first; and it is shown no longer when    *)
(* they are back.                                                                *)
SilenceIsShown ==
    /\ (Silent /\ RuleInAlarm /\ MutexFree) ~> (feedLost \/ ~Silent)
    /\ (feedLost /\ ~Silent) ~> (~feedLost \/ Silent)
=============================================================================
