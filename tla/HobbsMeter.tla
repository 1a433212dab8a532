----------------------------- MODULE HobbsMeter -----------------------------
(***************************************************************************)
(* main/hobbsmeter.go: the GPS Hobbs meter and its flight log.  Once a     *)
(* second ListenerFunc feeds a sample to update, under the meter's mutex,  *)
(* and flushes the log when a leg has closed or the save interval is over. *)
(* The power may be cut at any time, a save may fail, and ShutdownFunc     *)
(* flushes the log while the goroutine may still be asleep.                *)
(*                                                                         *)
(* Times and positions are left out: an entry is its minutes and whether   *)
(* it has a landedTime.  In flight nothing reads above before a slow       *)
(* second clears it, so it counts no further than the debounce.  save      *)
(* writes a temporary file and renames it, so seen from load it happens    *)
(* entirely or not at all.                                                 *)
(***************************************************************************)
EXTENDS Integers, Sequences, SequencesExt

CONSTANTS
  TakeoffDebounce,  (* hobbsTakeoffDebounceSec: 5                           *)
  LandingDebounce,  (* hobbsLandingDebounceSec: 60                          *)
  MinimumLeg,       (* hobbsMinimumLegSec: 60                               *)
  Minute,           (* 60                                                   *)
  SaveInterval,     (* hobbsSaveIntervalSec: 300                            *)
  MaxLeg,           (* bound on the seconds of a leg                        *)
  MaxFlights        (* bound on the entries of the log                      *)

ASSUME HobbsAssumption ==
  /\ TakeoffDebounce \in Nat \ {0}
  /\ LandingDebounce \in Nat \ {0}
  /\ Minute \in Nat \ {0}
  /\ MinimumLeg \in 0 .. Minute     \* a leg that is dropped has no full minute
  /\ SaveInterval \in Nat \ {0}
  /\ MaxLeg \in Nat /\ MaxLeg >= TakeoffDebounce
  /\ MaxFlights \in Nat

VARIABLES
  entries, flying, legSeconds, above, below, dirty, readOnly,
  enabled,     (* the flag ShutdownFunc clears                              *)
  sinceSave,   (* of ListenerFunc                                           *)
  listening,   (* is the goroutine of ListenerFunc there                    *)
  saveFailed,  (* the latest attempt to save came to nothing                *)
  unread,      (* load could not read the file, for another reason than     *)
               (*   that there was none                                     *)
  file,        (* what hobbsmeter.json holds: <<>> also when it is missing  *)
  garbled      (* hobbsmeter.json does not parse: a hand edit gone wrong    *)

leg == <<flying, legSeconds, above, below>>
memory == <<entries, leg, dirty, readOnly, enabled, sinceSave, saveFailed, unread>>
disk == <<file, garbled>>
vars == <<memory, listening, disk>>

Entry == [minutes : Nat, landed : BOOLEAN]

(* InitFunc on a card without a log. *)
Init ==
  /\ entries = <<>> /\ flying = FALSE /\ legSeconds = 0
  /\ above = 0 /\ below = 0
  /\ dirty = FALSE /\ readOnly = FALSE /\ enabled = TRUE
  /\ sinceSave = 0 /\ listening = TRUE
  /\ saveFailed = FALSE /\ unread = FALSE
  /\ file = <<>> /\ garbled = FALSE
-----------------------------------------------------------------------------
(* save, of entries': d is dirty before it; it may fail, or find readOnly. *)
SaveDone ==
  /\ ~ readOnly
  /\ file' = entries' /\ garbled' = FALSE
  /\ dirty' = FALSE /\ saveFailed' = FALSE

SaveFails(d) ==
  /\ UNCHANGED disk
  /\ dirty' = d /\ saveFailed' = TRUE

(* Mutant: only the landing is saved. *)
FlushLandings(landed, d) ==
  /\ sinceSave' = IF sinceSave + 1 >= SaveInterval THEN 0 ELSE sinceSave + 1
  /\ IF landed
     THEN SaveDone \/ SaveFails(d)
     ELSE dirty' = d /\ UNCHANGED <<disk, saveFailed>>

(* Mutant: the seconds since the latest save are never reset. *)
FlushNoReset(landed, d) ==
  /\ sinceSave' = sinceSave + 1
  /\ IF landed \/ (sinceSave + 1 >= SaveInterval /\ d)
     THEN SaveDone \/ SaveFails(d)
     ELSE dirty' = d /\ UNCHANGED <<disk, saveFailed>>

(* The rest of ListenerFunc's second, after update returned landed. *)
Flush(landed, d) ==
  LET due == sinceSave + 1 >= SaveInterval
  IN  /\ sinceSave' = IF due THEN 0 ELSE sinceSave + 1
      /\ IF landed \/ (due /\ d)
         THEN SaveDone \/ SaveFails(d)
         ELSE dirty' = d /\ UNCHANGED <<disk, saveFailed>>

-----------------------------------------------------------------------------
(* update, one action for each way it can return. *)
Unmoved == UNCHANGED <<entries, flying, legSeconds>>

(* No valid fix: the second is neither counted nor does it reset anything. *)
NoFix ==
  /\ Unmoved /\ UNCHANGED <<above, below>>
  /\ Flush(FALSE, dirty)

(* On the ground: too slow, or a fix too poor to trust its speed. *)
OnGround ==
  /\ ~ flying
  /\ above' = 0
  /\ Unmoved /\ UNCHANGED below
  /\ Flush(FALSE, dirty)

Accelerate ==
  /\ ~ flying
  /\ above + 1 < TakeoffDebounce
  /\ above' = above + 1 /\ below' = 0
  /\ Unmoved
  /\ Flush(FALSE, dirty)

(* Mutant: the latest entry is used again. *)
TakeOffAgain ==
  /\ ~ flying
  /\ above + 1 >= TakeoffDebounce
  /\ Len(entries) < MaxFlights
  /\ flying' = TRUE
  /\ above' = above + 1 /\ below' = 0
  /\ legSeconds' = above + 1
  /\ LET e == [minutes |-> (above + 1) \div Minute, landed |-> FALSE]
     IN  entries' = IF entries = <<>> THEN <<e>> ELSE [entries EXCEPT ![Len(entries)] = e]
  /\ Flush(FALSE, TRUE)

(* The debounce seconds were flown too. *)
TakeOff ==
  /\ ~ flying
  /\ above + 1 >= TakeoffDebounce
  /\ Len(entries) < MaxFlights
  /\ flying' = TRUE
  /\ above' = above + 1 /\ below' = 0
  /\ legSeconds' = above + 1
  /\ entries' = Append(entries, [minutes |-> (above + 1) \div Minute, landed |-> FALSE])
  /\ Flush(FALSE, TRUE)

Fly ==
  /\ flying
  /\ legSeconds < MaxLeg
  /\ above' = IF above < TakeoffDebounce THEN above + 1 ELSE above
  /\ below' = 0
  /\ legSeconds' = legSeconds + 1
  /\ entries' = [entries EXCEPT ![Len(entries)].minutes = (legSeconds + 1) \div Minute]
  /\ UNCHANGED flying
  /\ Flush(FALSE, TRUE)

(* The first slow second writes the landing fields into the open leg. *)
Touched == IF below = 0 THEN [entries EXCEPT ![Len(entries)].landed = TRUE] ELSE entries

(* Mutant: the landing fields alone do not make the log dirty. *)
SlowDownClean ==
  /\ flying
  /\ below + 1 < LandingDebounce
  /\ above' = 0 /\ below' = below + 1
  /\ entries' = Touched
  /\ UNCHANGED <<flying, legSeconds>>
  /\ Flush(FALSE, dirty)

SlowDown ==
  /\ flying
  /\ below + 1 < LandingDebounce
  /\ above' = 0 /\ below' = below + 1
  /\ entries' = Touched
  /\ UNCHANGED <<flying, legSeconds>>
  /\ Flush(FALSE, dirty \/ below = 0)

(* Mutant: a leg of just the minimum is dropped with its minute. *)
TooShortInclusive == legSeconds <= MinimumLeg

(* A leg under the minimum leaves the log. *)
TooShort == legSeconds < MinimumLeg

(* Mutant: the seconds of the leg stay. *)
LandKeepsSeconds ==
  /\ flying
  /\ below + 1 >= LandingDebounce
  /\ flying' = FALSE
  /\ above' = 0 /\ below' = 0
  /\ entries' = IF TooShort THEN Front(entries) ELSE Touched
  /\ UNCHANGED legSeconds
  /\ Flush(TRUE, TRUE)

Land ==
  /\ flying
  /\ below + 1 >= LandingDebounce
  /\ flying' = FALSE
  /\ above' = 0 /\ below' = 0 /\ legSeconds' = 0
  /\ entries' = IF TooShort THEN Front(entries) ELSE Touched
  /\ Flush(TRUE, TRUE)

Update ==
  \/ NoFix \/ OnGround \/ Accelerate \/ TakeOff \/ Fly \/ SlowDown \/ Land

(* ListenerFunc: asleep for a second, then update; enabled ends the loop. *)
Second ==
  /\ listening
  /\ Update
  /\ listening' = enabled
  /\ UNCHANGED <<readOnly, enabled, unread>>
-----------------------------------------------------------------------------
(* gracefulShutdown calls ShutdownFunc, and the process ends later. *)
Shutdown ==
  /\ listening /\ enabled
  /\ enabled' = FALSE
  /\ UNCHANGED entries
  /\ IF dirty THEN SaveDone \/ SaveFails(dirty) ELSE UNCHANGED <<dirty, saveFailed, disk>>
  /\ UNCHANGED <<leg, readOnly, sinceSave, unread, listening>>

(* The power is cut, or the process ends: the memory is lost. *)
PowerCut ==
  /\ listening
  /\ listening' = FALSE
  /\ UNCHANGED <<memory, disk>>

(* While the program is off, an edit leaves a file that does not parse. *)
BadEdit ==
  /\ ~ listening
  /\ garbled' = TRUE
  /\ UNCHANGED <<memory, listening, file>>

(* The edit is undone by hand. *)
RepairFile ==
  /\ ~ listening /\ garbled
  /\ garbled' = FALSE
  /\ UNCHANGED <<memory, listening, file>>

(* Mutant: a file that does not parse counts as an empty log. *)
RestartForgiving(readable) ==
  /\ ~ listening
  /\ listening' = TRUE /\ enabled' = TRUE
  /\ flying' = FALSE /\ legSeconds' = 0 /\ above' = 0 /\ below' = 0
  /\ dirty' = FALSE /\ sinceSave' = 0 /\ saveFailed' = FALSE
  /\ unread' = ~ readable
  /\ readOnly' = FALSE
  /\ entries' = IF readable /\ ~ garbled THEN file ELSE <<>>
  /\ UNCHANGED disk

(* InitFunc and load, of the next run of the program. *)
Restart(readable) ==
  /\ ~ listening
  /\ listening' = TRUE /\ enabled' = TRUE
  /\ flying' = FALSE /\ legSeconds' = 0 /\ above' = 0 /\ below' = 0
  /\ dirty' = FALSE /\ sinceSave' = 0 /\ saveFailed' = FALSE
  /\ unread' = ~ readable
  /\ readOnly' = (readable /\ garbled)
  /\ entries' = IF readable /\ ~ garbled THEN file ELSE <<>>
  /\ UNCHANGED disk

Next ==
  \/ Second \/ Shutdown \/ PowerCut \/ BadEdit \/ RepairFile
  \/ \E readable \in BOOLEAN : Restart(readable)

(***************************************************************************)
(* The goroutine's seconds pass; a card that is written to again and again *)
(* takes it in the end.  Nothing is assumed of the GPS or of the power.    *)
(***************************************************************************)
Fairness == WF_vars(Second) /\ SF_vars(Second /\ SaveDone)

Spec == Init /\ [][Next]_vars /\ Fairness
-----------------------------------------------------------------------------
(* Every variable has its type. *)
TypeOK ==
  /\ entries \in Seq(Entry) /\ file \in Seq(Entry)
  /\ Len(entries) <= MaxFlights /\ Len(file) <= MaxFlights
  /\ flying \in BOOLEAN /\ dirty \in BOOLEAN /\ readOnly \in BOOLEAN
  /\ enabled \in BOOLEAN /\ listening \in BOOLEAN /\ saveFailed \in BOOLEAN
  /\ unread \in BOOLEAN /\ garbled \in BOOLEAN
  /\ legSeconds \in 0 .. MaxLeg
  /\ above \in 0 .. TakeoffDebounce
  /\ below \in 0 .. LandingDebounce - 1
  /\ sinceSave \in 0 .. SaveInterval - 1

(***************************************************************************)
(* update writes to the last entry without looking whether there is one:   *)
(* while flying the last entry is the open leg and holds the minutes of    *)
(* the seconds flown in it; on the ground no second is pending.            *)
(***************************************************************************)
OpenLeg ==
  IF flying
  THEN entries # <<>> /\ entries[Len(entries)].minutes = legSeconds \div Minute
  ELSE legSeconds = 0 /\ below = 0 /\ above < TakeoffDebounce

(* A log that is not dirty is the one on the card, if it is to be there:   *)
(* otherwise what was flown would never be saved.                          *)
CleanIsSaved == ~ dirty /\ ~ readOnly /\ ~ unread => entries = file

(***************************************************************************)
(* The flights that are over and on the card as they ended: all that is on *)
(* the card while the program is off or could not parse the file, and the  *)
(* legs before the open one that were saved since they closed.             *)
(***************************************************************************)
Settled ==
  IF ~ listening \/ readOnly THEN 1 .. Len(file)
  ELSE {i \in 1 .. Len(file) :
          /\ i <= (IF flying THEN Len(entries) - 1 ELSE Len(entries))
          /\ file[i] = entries[i]}

(* What one step may do to them. *)
SettledStay ==
  ~ unread => \A i \in Settled : i <= Len(file') /\ file'[i] = file[i]

(***************************************************************************)
(* A flight that is on the card and over stays there as it is, through any *)
(* later flights, dropped legs, failing saves, power cuts and restarts,    *)
(* unless the card could not be read.                                      *)
(***************************************************************************)
FlightsStay == [][SettledStay]_vars

(* "A hand edit gone wrong is never silently replaced" by the program,     *)
(* unless it could not be read at all.                                     *)
BadEditStays == [][garbled /\ ~ unread => garbled' \/ RepairFile]_vars

(* totalMinutes, the open leg included: the sum up to each entry in turn. *)
TotalOf(log) ==
  LET total[n \in 0 .. Len(log)] == IF n = 0 THEN 0 ELSE total[n-1] + log[n].minutes
  IN  total[Len(log)]

(* While the program runs its total never goes back, not even when a leg   *)
(* is dropped: a leg shorter than the minimum has no minutes yet.          *)
TotalNeverFalls == [][Second \/ Shutdown => TotalOf(entries') >= TotalOf(entries)]_vars

(***************************************************************************)
(* A power cut at any second costs the whole log at most the minutes of a  *)
(* save interval, as long as the saves succeed, however flights, dropped   *)
(* legs and restarts follow one another.                                   *)
(***************************************************************************)
LossBounded ==
  ~ readOnly /\ ~ unread /\ ~ saveFailed =>
    TotalOf(entries) - TotalOf(file) <= SaveInterval \div Minute

(* A change of the log reaches the card, also after a save that failed.    *)
ChangesAreSaved ==
  (listening /\ enabled /\ dirty /\ ~ readOnly) ~> (~ dirty \/ ~ listening \/ ~ enabled)
=============================================================================
