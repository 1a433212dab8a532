--------------------------- MODULE TrafficDisplay ---------------------------
(***************************************************************************)
(* One target from the daemon's traffic table to the map of one display:   *)
(* main/traffic.go, the broadcaster of main/uibroadcast.go, handleTrafficWS *)
(* of main/managementinterface.go, TrafficService                          *)
(* (web/RB-01/services/servicetraffic.js) and the map page                 *)
(* (web/RB-01/plates/js/map.js), which keeps the target's age by itself.   *)
(*                                                                         *)
(* Time is in seconds; an age stops one past the time it is compared with. *)
(* The two kinds of targets differ in KeepTime and Cutoff, 60 and 59 s for *)
(* an aircraft, 900 and 900 s for a vessel, and are two instances.  Left   *)
(* out: targets without a position, which the map does not show, and all   *)
(* of a target but its age.                                                *)
(***************************************************************************)
EXTENDS Integers, Sequences

CONSTANTS
  KeepTime,     (* cleanupOldEntries deletes a target older than this       *)
  Cutoff,       (* TRAFFIC_MAX_AGE_SECONDS, TRAFFIC_AIS_MAX_AGE_SECONDS     *)
  Fresh,        (* the daemon repeats a target older than this (2 s)        *)
  MaxLate,      (* a report of OGN is this old at most (30 s)               *)
  MaxLag,       (* a message is this long under way at most                 *)
  MaxQueue      (* bound: messages under way                                *)

ASSUME TrafficAssumption ==
  /\ KeepTime \in Nat /\ Cutoff \in Nat /\ Fresh \in Nat
  /\ MaxLag \in Nat /\ MaxQueue \in Nat \ {0}
  /\ Fresh < Cutoff /\ Cutoff <= KeepTime
  /\ MaxLate \in 0..Cutoff

VARIABLES
  present,      (* is the target in the daemon's table                      *)
  silence,      (* time since it was heard, by its Last_seen while present; *)
                (*   history when it is not                                 *)
  Age,          (* its Age field, computed once a second                    *)
  updateDue,    (* has sendTrafficUpdates still to run in this second       *)
  messages,     (* the channel of trafficUpdate and the way to the page     *)
  socket,       (* "closed", "added", or "dropped" by the broadcaster       *)
  shown,        (* the target on the map, if any: its Age, the age when it  *)
                (*   was received (0: not noted yet) and the time since     *)
  pageDue,      (* has the map's update still to run in this second         *)
  unseen        (* history: for how long the target has been due on the map *)
                (*   and is not there                                       *)

vars == <<present, silence, Age, updateDue, messages, socket, shown, pageDue,
          unseen>>
target == <<present, silence, Age>>

Never == Cutoff + KeepTime + MaxLag
Ages == 0 .. KeepTime + 1
Least(m, n) == IF m < n THEN m ELSE n

Init ==
  /\ present = FALSE /\ silence = Never /\ Age = 0 /\ updateDue = FALSE
  /\ messages = <<>> /\ socket = "closed"
  /\ shown = {} /\ pageDue = FALSE /\ unseen = 0
-----------------------------------------------------------------------------
(* The daemon, under trafficMutex. *)
Message(age, valid) == [age |-> age, valid |-> valid, lag |-> 0]
Room == Len(messages) < MaxQueue

(* A report with a position becomes the target's entry and a message.      *)
Heard(age, late) ==
  /\ Room
  /\ present' = TRUE /\ silence' = late /\ Age' = age
  /\ messages' = Append(messages, Message(age, TRUE))
  /\ UNCHANGED <<updateDue, socket, shown, pageDue>>

(* Of a target that is known the Age stays, and goes into the message.     *)
Hear == Heard(IF present THEN Age ELSE 0, 0)

(* A report of OGN may be late, and sets Age and Last_seen accordingly.    *)
(* One that is older than the last report is skipped.                      *)
HearOgn == \E late \in 0..MaxLate : late <= silence /\ Heard(late, late)

(* A report of a target that is known, without a position: its position    *)
(* goes out again, with the Age, and Last_seen stays.                      *)
HearOther ==
  /\ present /\ Room
  /\ messages' = Append(messages, Message(Age, TRUE))
  /\ UNCHANGED <<target, updateDue, socket, shown, pageDue>>

(* removeTarget: the tracker has changed its own address. *)
RemoveTarget ==
  /\ present /\ Room
  /\ present' = FALSE /\ Age' = 0
  /\ messages' = Append(messages, Message(KeepTime, FALSE))
  /\ UNCHANGED <<silence, updateDue, socket, shown, pageDue>>

(* Mutant: the age is sent but not written back to the table. *)
WrittenBackNever(age) == Age

(* ti.Age, written back to the table. *)
WrittenBack(age) == age

(* Mutant: an old target is not repeated. *)
RepeatedNever(age) == FALSE

(* Without this an inactive target would not reach a page that has not     *)
(* seen it, and its age would not change there.                            *)
Repeated(age) == age > Fresh

(* sendTrafficUpdates: cleanupOldEntries, then the ages, then the updates. *)
SendTrafficUpdates ==
  /\ updateDue /\ updateDue' = FALSE
  /\ IF present /\ silence <= KeepTime
     THEN /\ present' = TRUE /\ Age' = WrittenBack(silence)
          /\ IF Repeated(silence)
             THEN Room /\ messages' = Append(messages, Message(silence, TRUE))
             ELSE UNCHANGED messages
     ELSE present' = FALSE /\ Age' = 0 /\ UNCHANGED messages
  /\ UNCHANGED <<silence, socket, shown, pageDue>>
-----------------------------------------------------------------------------
(* The map. *)

Aged(age) == age > Cutoff

(* onMessage: a target without a position or too old is not looked at.     *)
OnMessage(age, valid) ==
  shown' = IF valid /\ ~ Aged(age)
           THEN {[Age |-> age, received |-> 0, since |-> 0]} ELSE shown

(* updateAges: ageReceived is taken from Age when it is not set, or 0.     *)
Received(s) == IF s.received = 0 THEN s.Age ELSE s.received
UpdatedAge(s) ==
  [s EXCEPT !.received = Received(s),
            !.Age = Least(Received(s) + s.since, Cutoff + 1)]

(* update: updateAges, then removeStaleTraffic. *)
PageUpdate ==
  /\ pageDue /\ pageDue' = FALSE
  /\ shown' = {s \in {UpdatedAge(t) : t \in shown} : ~ Aged(s.Age)}
  /\ UNCHANGED <<target, updateDue, messages, socket>>

(* The user leaves the map and comes back: it starts empty. *)
OpenMap ==
  /\ shown # {} /\ shown' = {}
  /\ UNCHANGED <<target, updateDue, messages, socket, pageDue>>
-----------------------------------------------------------------------------
(* The socket. *)

(* handleTrafficWS: what is in the table, then AddSocket, under            *)
(* trafficMutex.  Messages that were queued before it follow after it.     *)
Connect ==
  /\ socket = "closed" /\ socket' = "added"
  /\ IF present THEN OnMessage(Age, TRUE) ELSE UNCHANGED shown
  /\ UNCHANGED <<target, updateDue, messages, pageDue>>

(* The broadcaster's writer, to the sockets it has. *)
Deliver ==
  /\ messages # <<>>
  /\ messages' = Tail(messages)
  /\ IF socket = "added"
     THEN OnMessage(Head(messages).age, Head(messages).valid)
     ELSE UNCHANGED shown
  /\ UNCHANGED <<target, updateDue, socket, pageDue>>

(* A write misses its deadline: the socket is left out from now on, but    *)
(* the connection stays open.                                              *)
WriteFails ==
  /\ messages # <<>> /\ socket = "added"
  /\ messages' = Tail(messages) /\ socket' = "dropped"
  /\ UNCHANGED <<target, updateDue, shown, pageDue>>

LoseConnection ==
  /\ socket # "closed" /\ socket' = "closed"
  /\ UNCHANGED <<target, updateDue, messages, shown, pageDue>>

(* A second goes by.  The daemon's and the page's timers have run and no   *)
(* message is overdue.                                                     *)
Tick ==
  /\ ~ updateDue /\ ~ pageDue
  /\ \A i \in DOMAIN messages : messages[i].lag < MaxLag
  /\ updateDue' = TRUE /\ pageDue' = TRUE
  /\ silence' = Least(silence + 1, Never)
  /\ messages' = [i \in DOMAIN messages |->
                    [messages[i] EXCEPT !.lag = @ + 1]]
  /\ shown' = {[s EXCEPT !.since = Least(@ + 1, Cutoff + 1)] : s \in shown}
  /\ UNCHANGED <<present, Age, socket>>

Step ==
  \/ Hear \/ HearOgn \/ HearOther \/ RemoveTarget \/ SendTrafficUpdates
  \/ PageUpdate \/ OpenMap \/ Connect \/ Deliver \/ WriteFails \/ LoseConnection \/ Tick

(* A target the daemon keeps, which a page it writes to would show. *)
Due == present /\ socket = "added" /\ silence <= Cutoff

Watch ==
  unseen' = IF shown # {} \/ shown' # {} \/ ~ Due' THEN 0
            ELSE IF Tick THEN unseen + 1 ELSE unseen

Next == Step /\ Watch

Spec == Init /\ [][Next]_vars
-----------------------------------------------------------------------------
Messages == [age : Ages, valid : BOOLEAN, lag : 0..MaxLag]
Targets ==
  [Age : 0..Cutoff + 1, received : 0..Cutoff + 1, since : 0..Cutoff + 1]

TypeOK ==
  /\ present \in BOOLEAN /\ silence \in 0..Never /\ Age \in Ages
  /\ updateDue \in BOOLEAN /\ pageDue \in BOOLEAN
  /\ messages \in Seq(Messages) /\ Len(messages) <= MaxQueue
  /\ socket \in {"closed", "added", "dropped"}
  /\ shown \subseteq Targets
  /\ unseen \in Nat

(* A target on the map was heard within Cutoff, the delay of a message and *)
(* two seconds, one for each of the two timers, whatever the order in      *)
(* which a snapshot and queued messages reach the page, and also when the  *)
(* page hears nothing any more.                                            *)
NoGhosts == shown # {} => silence <= Cutoff + MaxLag + 2

(* A target that is due is on the map before long.  The age left over from *)
(* before a silence, which a report carries, keeps it off the map until    *)
(* the ages have been computed again (a second), the target is old enough  *)
(* to be repeated and the message is through.                              *)
AppearsInTime == unseen <= Fresh + MaxLag + 2
=============================================================================
