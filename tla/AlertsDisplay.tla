---------------------------- MODULE AlertsDisplay ----------------------------
(***************************************************************************)
(* Alerts from the daemon to one display: the list and the announcement of *)
(* main/alerts.go, the broadcaster of main/uibroadcast.go, the handlers of *)
(* main/managementinterface.go, and AlertsService of the RB-01 pages       *)
(* (web/RB-01/services/servicealerts.js).  A new alert is announced over a *)
(* WebSocket; its state is polled, and answers may overtake one another.   *)
(*                                                                         *)
(* The identifier of an alert is its place in the list (AlertList shows    *)
(* that identifiers are unique).  Time is counted in polls, as ages that   *)
(* stop at the time they are compared with.  Left out: titles, sounds, the *)
(* bell, and the fitting of the text.                                      *)
(***************************************************************************)
EXTENDS Integers, Sequences, FiniteSets

CONSTANTS
  Severities,   (* places in ALERT_BALLOON_SEVERITY                         *)
  ClearTime,    (* ALERT_REPLAY_CLEAR_SECONDS, in polls                     *)
  BalloonTime,  (* ALERT_BALLOON_SECONDS, in polls                          *)
  MaxDelay,     (* an answer arrives within this time or not at all         *)
  MaxAlerts,    (* bound: alerts raised                                     *)
  MaxConditions,(* bound: those of them that have a condition               *)
  MaxFlips,     (* bound: changes of Active                                 *)
  MaxFaults     (* bound: lost answers, failed writes, lost connections     *)

(* Of the thirty polls of a minute some are answered: the answers that are *)
(* late and those that are lost do not fill the time to a replay.          *)
ASSUME DisplayAssumption ==
  /\ Severities \subseteq Nat /\ Severities # {}
  /\ ClearTime \in Nat /\ BalloonTime \in Nat \ {0}
  /\ MaxAlerts \in Nat /\ MaxConditions \in Nat /\ MaxFlips \in Nat /\ MaxFaults \in Nat
  /\ MaxDelay \in Nat /\ MaxDelay + MaxFaults + 1 < ClearTime

VARIABLES
  alertsData,   (* the daemon's list: of each alert its severity, Active,   *)
                (*   and whether it has a condition or is a one-shot event  *)
  messages,     (* announcements in the channel of alertUpdate and on the   *)
                (*   way to the page                                        *)
  socket,       (* the page's: "closed", "connecting" (the daemon has not   *)
                (*   added it), "added", or "dropped" (a write to it failed *)
                (*   and the writer left it out, but nobody closed it)      *)
  poll,         (* is a poll due                                            *)
  answers,      (* answers of /getAlerts on their way: list and age         *)
  alertStates,  (* the page's: Active, and the age of clearedAt, which is   *)
                (*   read of an inactive alert only, by Id                  *)
  answered,     (* FALSE while alertStates is null                          *)
  balloon,      (* the balloons on screen, at most one: severity and age    *)
  timers,       (* ages of the timers that will call hideAlertBalloon       *)
  missed,       (* history: alerts whose announcement passed the page by    *)
  comebacks, replays,  (* history: how often each alert became active again *)
                       (*   in the list, and was replayed on the page       *)
  flips, faults

daemon == <<alertsData, comebacks, flips>>
stream == <<messages, socket, missed>>
states == <<alertStates, answered, replays>>
screen == <<balloon, timers>>
page == <<states, screen>>
vars == <<daemon, stream, poll, answers, page, faults>>

Ids == 1..MaxAlerts
NoState == [active |-> FALSE, age |-> 0, known |-> FALSE]

Init ==
  /\ alertsData = <<>> /\ flips = 0
  /\ comebacks = [id \in Ids |-> 0]
  /\ messages = <<>> /\ socket = "connecting" /\ missed = {}
  /\ poll = TRUE /\ answers = {}
  /\ alertStates = [id \in Ids |-> NoState] /\ answered = FALSE
  /\ balloon = {} /\ timers = {}
  /\ replays = [id \in Ids |-> 0]
  /\ faults = 0

Fault == faults < MaxFaults /\ faults' = faults + 1
Least(m, n) == IF m < n THEN m ELSE n
-----------------------------------------------------------------------------
(* The balloon. *)

(* Mutant: hideAlertBalloon does not stop the timer. *)
TimersKept(ts) == ts

(* The timers left after the clearTimeout of hideAlertBalloon. *)
TimersLeft(ts) == {}

Hide(ts) == balloon' = {} /\ timers' = TimersLeft(ts)

Most(S) == CHOOSE s \in S : \A t \in S : t <= s

(* showAlertBalloon leaves a more severe balloon alone. *)
Covered(s) == \E b \in balloon : b.severity > s

(* Mutant: a balloon is shown without hiding the one before it. *)
PushAlertsOnTop(S) ==
  IF S = {} \/ Covered(Most(S))
  THEN UNCHANGED <<balloon, timers>>
  ELSE balloon' = balloon \cup {[severity |-> Most(S), age |-> 0]}
       /\ timers' = timers \cup {0}

(* pushAlert for alerts of these severities, one after the other: the most *)
(* severe is on screen at the end, unless one before them is more severe.  *)
PushAlerts(S) ==
  IF S = {} \/ Covered(Most(S))
  THEN UNCHANGED <<balloon, timers>>
  ELSE balloon' = {[severity |-> Most(S), age |-> 0]}
       /\ timers' = TimersLeft(timers) \cup {0}

TimerFires ==
  /\ BalloonTime \in timers
  /\ Hide(timers \ {BalloonTime})
  /\ UNCHANGED <<daemon, stream, poll, answers, states, faults>>

Click ==
  /\ balloon # {} /\ Hide(timers)
  /\ UNCHANGED <<daemon, stream, poll, answers, states, faults>>
-----------------------------------------------------------------------------
(* The daemon. *)

(* pushEvent: into the list under the mutex, then, without it, into the    *)
(* channel of the broadcaster.  A condition is raised while it is active;  *)
(* a one-shot event never is.                                              *)
Raise ==
  /\ Len(alertsData) < MaxAlerts
  /\ \E s \in Severities, c \in BOOLEAN :
       /\ c => Cardinality({i \in DOMAIN alertsData : alertsData[i].condition})
                 < MaxConditions
       /\ alertsData' = Append(alertsData,
            [severity |-> s, active |-> c, condition |-> c])
  /\ messages' = Append(messages, Len(alertsData) + 1)
  /\ UNCHANGED <<socket, missed, poll, answers, page, faults, comebacks, flips>>

(* updateEvent: the condition goes or comes back; nothing is sent. *)
Update ==
  /\ flips < MaxFlips /\ flips' = flips + 1
  /\ \E id \in DOMAIN alertsData :
       /\ alertsData[id].condition
       /\ alertsData' = [alertsData EXCEPT ![id].active = ~ @]
       /\ comebacks' = IF alertsData[id].active
                       THEN comebacks ELSE [comebacks EXCEPT ![id] = @ + 1]
  /\ UNCHANGED <<stream, poll, answers, page, faults>>
-----------------------------------------------------------------------------
(* The socket.  handleAlertsWS: AddSocket. *)
AddSocket ==
  /\ socket = "connecting" /\ socket' = "added"
  /\ UNCHANGED <<daemon, messages, missed, poll, answers, page, faults>>

(* The broadcaster's writer sends a message to every socket it has, and    *)
(* the page announces it: onmessage, pushAlert.                            *)
Write ==
  /\ messages # <<>> /\ socket = "added"
  /\ messages' = Tail(messages)
  /\ PushAlerts({alertsData[Head(messages)].severity})
  /\ UNCHANGED <<daemon, socket, missed, poll, answers, states, faults>>

(* The page's socket is not among them ... *)
Miss ==
  /\ messages' = Tail(messages)
  /\ missed' = missed \cup {Head(messages)}

WriteToOthers ==
  /\ messages # <<>> /\ socket # "added" /\ Miss
  /\ UNCHANGED <<daemon, socket, poll, answers, page, faults>>

(* ... or the write misses its deadline: the socket is left out from now   *)
(* on.  handleAlertsWS does not end, so the connection is not closed.      *)
WriteFails ==
  /\ messages # <<>> /\ socket = "added" /\ Fault
  /\ Miss /\ socket' = "dropped"
  /\ UNCHANGED <<daemon, poll, answers, page>>

(* The connection breaks, and onclose connects again a second later. *)
LoseConnection ==
  /\ socket # "closed" /\ Fault
  /\ socket' = "closed"
  /\ UNCHANGED <<daemon, messages, missed, poll, answers, page>>

Connect ==
  /\ socket = "closed" /\ socket' = "connecting"
  /\ UNCHANGED <<daemon, messages, missed, poll, answers, page, faults>>
-----------------------------------------------------------------------------
(* pollAlerts and handleAlertsRequest: the list as it is, under its mutex. *)
Poll ==
  /\ poll
  /\ poll' = FALSE
  /\ answers' = answers \cup
       {[list |-> [i \in DOMAIN alertsData |-> alertsData[i].active], age |-> 0]}
  /\ UNCHANGED <<daemon, stream, page, faults>>

Known(id) == answered /\ alertStates[id].known

(* Mutant: an alert coming back is replayed at once. *)
CameBackEarly(id, active) == Known(id) /\ active /\ ~ alertStates[id].active

(* The alert was inactive for ClearTime, as far as the page saw. *)
CameBack(id, active) ==
  /\ Known(id) /\ active /\ ~ alertStates[id].active
  /\ alertStates[id].age >= ClearTime

(* Mutant: the state of a known alert is not taken from the list. *)
NextStateForgetful(id, active) ==
  IF Known(id) THEN alertStates[id]
  ELSE [active |-> active, age |-> 0, known |-> TRUE]

(* What followAlerts records: clearedAt stays while Active does. *)
NextState(id, active) ==
  IF Known(id) /\ alertStates[id].active = active THEN alertStates[id]
  ELSE [active |-> active, age |-> 0, known |-> TRUE]

(* followAlerts: the states are those of the list, however old it is. *)
FollowAlerts(list) ==
  LET back == {id \in DOMAIN list : CameBack(id, list[id])}
  IN /\ alertStates' = [id \in Ids |-> IF id \in DOMAIN list
                                       THEN NextState(id, list[id]) ELSE NoState]
     /\ answered' = TRUE
     /\ PushAlerts({alertsData[id].severity : id \in back})
     /\ replays' = [id \in Ids |-> replays[id] + IF id \in back THEN 1 ELSE 0]

Answer ==
  /\ \E a \in answers : answers' = answers \ {a} /\ FollowAlerts(a.list)
  /\ UNCHANGED <<daemon, stream, poll, faults>>

LoseAnswer ==
  /\ Fault
  /\ \E a \in answers : answers' = answers \ {a}
  /\ UNCHANGED <<daemon, stream, poll, page>>

Aged(state) ==
  IF state.known /\ ~ state.active
  THEN [state EXCEPT !.age = Least(@ + 1, ClearTime)] ELSE state

(* A poll interval goes by.  No timer is overdue by it, no answer is out   *)
(* for longer than MaxDelay.                                               *)
Tick ==
  /\ ~ poll
  /\ BalloonTime \notin timers
  /\ \A a \in answers : a.age < MaxDelay
  /\ poll' = TRUE
  /\ answers' = {[a EXCEPT !.age = @ + 1] : a \in answers}
  /\ alertStates' = [id \in Ids |->
                      Aged(alertStates[id])]
  /\ balloon' = {[b EXCEPT !.age = Least(@ + 1, BalloonTime)] : b \in balloon}
  /\ timers' = {t + 1 : t \in timers}
  /\ UNCHANGED <<daemon, stream, answered, replays, faults>>
-----------------------------------------------------------------------------
(* What the goroutines, the timers of the page and the network do by       *)
(* themselves: a condition changes and a fault happens, or not.            *)
Running ==
  \/ AddSocket \/ Write \/ WriteToOthers \/ Connect \/ TimerFires
  \/ Poll \/ Answer \/ Tick

Next ==
  \/ Running \/ Raise \/ Update \/ WriteFails \/ LoseConnection \/ LoseAnswer
  \/ Click

Fairness ==
  /\ WF_vars(AddSocket) /\ WF_vars(Write \/ WriteToOthers)
  /\ WF_vars(Connect) /\ WF_vars(TimerFires)
  /\ WF_vars(Poll) /\ WF_vars(Answer) /\ WF_vars(Tick)

Spec == Init /\ [][Next]_vars /\ Fairness
-----------------------------------------------------------------------------
TypeOK ==
  /\ alertsData \in Seq([severity : Severities, active : BOOLEAN,
                         condition : BOOLEAN])
  /\ Len(alertsData) <= MaxAlerts
  /\ \A i \in DOMAIN messages : messages[i] \in DOMAIN alertsData
  /\ socket \in {"closed", "connecting", "added", "dropped"}
  /\ poll \in BOOLEAN /\ Cardinality(answers) <= MaxDelay + 1
  /\ \A a \in answers : /\ DOMAIN a.list \subseteq DOMAIN alertsData
                        /\ a.age \in 0..MaxDelay
  /\ alertStates \in
       [Ids -> [active : BOOLEAN, age : 0..ClearTime, known : BOOLEAN]]
  /\ answered \in BOOLEAN
  /\ balloon \subseteq [severity : Severities, age : 0..BalloonTime]
  /\ Cardinality(balloon) <= 1 /\ timers \subseteq 0..BalloonTime
  /\ missed \subseteq DOMAIN alertsData
  /\ comebacks \in [Ids -> 0..MaxFlips] /\ replays \in [Ids -> Nat]
  /\ flips \in 0..MaxFlips /\ faults \in 0..MaxFaults

(* The alarm of an alert is replayed at most as often as its condition     *)
(* came back, although answers overtake one another and the page can take  *)
(* an older list for the newer.                                            *)
ReplaysAreReal == \A id \in Ids : replays[id] <= comebacks[id]

(* A balloon leaves the screen when it was clicked, when its time is over, *)
(* or for one at least as severe: no timer of an earlier balloon takes it. *)
Replaced(b) == \E c \in balloon' : c.age = 0 /\ c.severity >= b.severity
Stays(b) == \E c \in balloon' : c.severity = b.severity /\ c.age >= b.age
BalloonLasts ==
  [][\A b \in balloon :
       Stays(b) \/ Replaced(b) \/ b.age = BalloonTime \/ Click]_vars

(* Once the conditions stay as they are, the page has every alert of the   *)
(* list and its state for good, whatever was lost or late before.          *)
Agrees == \A id \in DOMAIN alertsData :
            Known(id) /\ alertStates[id].active = alertsData[id].active
FollowsList == <>[]Agrees

(* servicealerts.js:165, "a new Id has already been announced by the       *)
(* socket": when an answer but the first brings an Id that is not known,   *)
(* its announcement has not passed the page by.                            *)
NewIdsAreAnnounced ==
  [][\A id \in missed :
       answered /\ alertStates'[id].known => alertStates[id].known]_vars
=============================================================================
