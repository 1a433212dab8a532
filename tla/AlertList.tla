----------------------------- MODULE AlertList -----------------------------
(* The list of alerts of main/alerts.go as operators on a sequence: raising an   *)
(* alert, updating the one with an identifier, and choosing the identifier,      *)
(* which is the time of day in hundredths of a second, or the next one that is   *)
(* free.  An alert is kept with its identifier, what raised it (a rule and its   *)
(* colour, for the engine), whether it is active, and its age.  Left out: type,  *)
(* title, the end and the seconds in the condition (shown to the pilot, read by  *)
(* no code), the message to the display and the sound.                           *)
EXTENDS Integers, Sequences

CONSTANT Day        \* hundredths of a second in a day, the number of identifiers

ASSUME DayAssumption == Day \in Nat \ {0}

Times == 0 .. Day - 1       \* a time of day, or an identifier

TakenIds(list) == {list[i].id : i \in DOMAIN list}

\* How far `id' is ahead of the time of day `t', over midnight if need be.
Ahead(t, id) == IF id >= t THEN id - t ELSE id + Day - t

(* Mutant: the search stops at the end of the day and hands out what follows.    *)
NewEventIdNoWrap(list, t) ==
    CHOOSE id \in t .. t + Len(list) :
        /\ id \notin TakenIds(list)
        /\ \A other \in t .. id - 1 : other \in TakenIds(list)

\* newEventId: from `t' on, the first identifier no alert of the list has.
NewEventId(list, t) ==
    CHOOSE id \in Times \ TakenIds(list) :
        \A other \in Times \ TakenIds(list) : Ahead(t, id) <= Ahead(t, other)

\* pushEvent with a Timestamp: the list with a new alert of age 0 at its end.
Raised(list, t, rule, color, active) ==
    Append(list, [id |-> NewEventId(list, t), rule |-> rule, color |-> color,
                  active |-> active, age |-> 0])

\* updateEvent: the latest alert with this identifier, if any, gets `active'.
Updated(list, id, active) ==
    [i \in DOMAIN list |->
        IF list[i].id = id /\ \A j \in i + 1 .. Len(list) : list[j].id # id
          THEN [list[i] EXCEPT !.active = active]
          ELSE list[i]]
=============================================================================
