------------------------------ MODULE DataLog -------------------------------
(***************************************************************************)
(* The start and stop protocol of the flight recorder, main/datalog.go:    *)
(* the watchdog, the dataLog goroutine that stamps rows, the dataLogWriter *)
(* goroutine that files them every ten seconds, the callers of log...()    *)
(* and of closeDataLog (the watchdog and gracefulShutdown), with their     *)
(* channels.  Rows are numbered in the order they are accepted, and belong *)
(* to one table; stamps and SQL are left out.                              *)
(*                                                                         *)
(* Short windows are closed: a goroutine that is started has made its      *)
(* channels, or set dataLogStarted, before another one looks, and what the *)
(* watchdog tests when it wakes up does not change between its tests.      *)
(***************************************************************************)
EXTENDS Integers, Sequences, FiniteSets, SequencesExt

CONSTANTS
  Capacity,  (* of dataLogChan and dataLogWriteChan: 10240 in the code      *)
  MaxRows    (* bound on the rows of a run                                  *)

ASSUME LogAssumption == Capacity \in Nat \ {0} /\ MaxRows \in Nat

VARIABLES
  replayLog,        (* globalSettings.ReplayLog                             *)
  started,          (* dataLogStarted                                       *)
  ready,            (* dataLogReadyToWrite                                  *)
  requestShutdown,  (* dataLogRequestShutdown                               *)
  watchdog,         (* where dataLogWatchdog is                             *)
  dataLog,          (* where dataLog is                                     *)
  writer,           (* where dataLogWriter is                               *)
  closer,           (* where each caller of closeDataLog is                 *)
  logging,          (* has a logger passed its test and not yet sent        *)
  accepted,         (* how many rows loggers have sent                      *)
  logChan, hand, writeChan, queued, batch, filed,
                    (* the rows in dataLogChan, in dataLog's hands, in      *)
                    (*   dataLogWriteChan, in rowsQueuedForWrite, in        *)
                    (*   insertBatchIfs, and in the database                *)
  insertFailed,     (* has an INSERT failed                                 *)
  closedDown,       (* the channels that are closed                         *)
  panicked          (* a send on, or a close of, a closed channel           *)

flags == <<started, ready, requestShutdown>>
rows == <<logChan, hand, writeChan, queued, batch, filed>>
routines == <<watchdog, dataLog, writer, closer>>
fate == <<closedDown, panicked>>
vars == <<replayLog, flags, routines, logging, accepted, rows, insertFailed, fate>>

Callers == {"watchdog", "gracefulShutdown"}

Init ==
  /\ replayLog \in BOOLEAN
  /\ started = FALSE /\ ready = FALSE /\ requestShutdown = FALSE
  /\ watchdog = "loop" /\ dataLog = "none" /\ writer = "none"
  /\ closer = [who \in Callers |-> "idle"]
  /\ logging = FALSE /\ accepted = 0
  /\ logChan = <<>> /\ hand = <<>> /\ writeChan = <<>>
  /\ queued = <<>> /\ batch = <<>> /\ filed = <<>>
  /\ insertFailed = FALSE
  /\ closedDown = {} /\ panicked = FALSE
-----------------------------------------------------------------------------
(* The settings page. *)
ToggleReplayLog ==
  /\ replayLog' = ~ replayLog
  /\ UNCHANGED <<flags, routines, logging, accepted, rows, insertFailed, fate>>

(* logStatus and its like: the test, and later the send. *)
LogTest ==
  /\ replayLog /\ ready /\ ~ logging
  /\ accepted < MaxRows
  /\ logging' = TRUE
  /\ UNCHANGED <<replayLog, flags, routines, accepted, rows, insertFailed, fate>>

LogSend ==
  /\ logging /\ Len(logChan) < Capacity
  /\ logging' = FALSE
  /\ accepted' = accepted + 1
  /\ logChan' = Append(logChan, accepted + 1)
  /\ UNCHANGED <<replayLog, flags, routines, hand, writeChan, queued, batch, filed,
                 insertFailed, fate>>
-----------------------------------------------------------------------------
(* A second of sleep is over, and no shutdown has been requested. *)
WatchdogAwake == watchdog = "loop" /\ ~ requestShutdown

(* dataLog: there is a GPS fix, so it sets dataLogStarted, and opens... *)
WatchdogStarts ==
  /\ WatchdogAwake /\ ~ started /\ replayLog
  /\ dataLog' = "opening" /\ started' = TRUE
  /\ UNCHANGED <<replayLog, ready, requestShutdown, watchdog, writer, closer, logging,
                 accepted, rows, insertFailed, fate>>

(* ...the database, starts the writer, creates the tables, and is ready. *)
SpawnWriter ==
  /\ dataLog = "opening"
  /\ dataLog' = "creating" /\ writer' = "serving"
  /\ UNCHANGED <<replayLog, flags, watchdog, closer, logging, accepted, rows,
                 insertFailed, fate>>

BecomeReady ==
  /\ dataLog = "creating"
  /\ dataLog' = "reading" /\ ready' = TRUE
  /\ UNCHANGED <<replayLog, started, requestShutdown, watchdog, writer, closer, logging,
                 accepted, rows, insertFailed, fate>>

(* dataLog's loop: a row is received, then sent on... *)
ReceiveRow ==
  /\ dataLog = "reading" /\ logChan # <<>>
  /\ dataLog' = "handing"
  /\ hand' = <<Head(logChan)>> /\ logChan' = Tail(logChan)
  /\ UNCHANGED <<replayLog, flags, watchdog, writer, closer, logging, accepted, writeChan,
                 queued, batch, filed, insertFailed, fate>>

(* ...and a shutdown that was requested by then ends the loop. *)
HandRow ==
  /\ dataLog = "handing" /\ Len(writeChan) < Capacity
  /\ dataLog' = IF requestShutdown THEN "breaking" ELSE "reading"
  /\ writeChan' = writeChan \o hand /\ hand' = <<>>
  /\ UNCHANGED <<replayLog, flags, watchdog, writer, closer, logging, accepted, logChan,
                 queued, batch, filed, insertFailed, fate>>

(* The end of dataLog: close(shutdownDataLog), and the deferred function. *)
BreakOff ==
  /\ dataLog = "breaking"
  /\ dataLog' = "none" /\ started' = FALSE
  /\ closedDown' = closedDown \cup {"shutdownDataLog"}
  /\ panicked' = (writer = "telling")    \* a sender blocked on it panics
  /\ UNCHANGED <<replayLog, ready, requestShutdown, watchdog, writer, closer, logging,
                 accepted, rows, insertFailed>>
-----------------------------------------------------------------------------
(* dataLogWriter looks at the request after each row and each tick. *)
WriterGoesOn ==
  /\ writer = "serving"
  /\ writer' = IF requestShutdown THEN "gone" ELSE "serving"

AcceptRow ==
  /\ WriterGoesOn
  /\ writeChan # <<>>
  /\ queued' = Append(queued, Head(writeChan)) /\ writeChan' = Tail(writeChan)
  /\ UNCHANGED <<replayLog, flags, watchdog, dataLog, closer, logging, accepted, logChan,
                 hand, batch, filed, insertFailed, fate>>

(* Mutant: the rows are dropped although there was no transaction. *)
TickFailsDropping ==
  /\ WriterGoesOn
  /\ queued' = <<>>
  /\ UNCHANGED <<replayLog, flags, watchdog, dataLog, closer, logging, accepted, logChan,
                 hand, writeChan, batch, filed, insertFailed, fate>>

(* The tick: db.Begin fails, as it does on a closed database; the rows stay. *)
TickFails ==
  /\ WriterGoesOn
  /\ UNCHANGED <<replayLog, flags, watchdog, dataLog, closer, logging, accepted, rows,
                 insertFailed, fate>>

DatabaseOpen == dataLog # "none"

(* Mutant: rowsQueuedForWrite is not zeroed. *)
TickWritesAgain ==
  /\ WriterGoesOn
  /\ DatabaseOpen
  /\ filed' = IF queued = <<>> THEN filed ELSE filed \o batch \o queued
  /\ batch' = IF queued = <<>> THEN batch ELSE <<>>
  /\ UNCHANGED <<replayLog, flags, watchdog, dataLog, closer, logging, accepted, logChan,
                 hand, writeChan, queued, insertFailed, fate>>

(* insertData and bulkInsert for the queued rows and those left from before. *)
TickWrites ==
  /\ WriterGoesOn
  /\ DatabaseOpen
  /\ filed' = IF queued = <<>> THEN filed ELSE filed \o batch \o queued
  /\ batch' = IF queued = <<>> THEN batch ELSE <<>>
  /\ queued' = <<>>
  /\ UNCHANGED <<replayLog, flags, watchdog, dataLog, closer, logging, accepted, logChan,
                 hand, writeChan, insertFailed, fate>>

(***************************************************************************)
(* An INSERT of several rows fails: those of the INSERTs before it are     *)
(* filed, and all of them stay in insertBatchIfs, to be inserted with the  *)
(* next rows of the table.                                                 *)
(***************************************************************************)
TickInsertFails ==
  /\ WriterGoesOn
  /\ DatabaseOpen
  /\ queued # <<>>
  /\ batch' = batch \o queued
  /\ \E n \in 0 .. Len(batch') - 1 : filed' = filed \o SubSeq(batch', 1, n)
  /\ queued' = <<>>
  /\ insertFailed' = TRUE
  /\ UNCHANGED <<replayLog, flags, watchdog, dataLog, closer, logging, accepted, logChan,
                 hand, writeChan, fate>>
-----------------------------------------------------------------------------
(* closeDataLog: with no writer yet the channel is nil and blocks for ever. *)
RequestClose(who) ==
  /\ closer[who] = "idle"
  /\ requestShutdown' = TRUE /\ ready' = FALSE
  /\ closer' = [closer EXCEPT ![who] = IF writer = "none" THEN "blocked" ELSE "sending"]

WatchdogStops ==
  /\ WatchdogAwake /\ started /\ ~ replayLog
  /\ watchdog' = "closing"
  /\ RequestClose("watchdog")
  /\ UNCHANGED <<replayLog, started, dataLog, writer, logging, accepted, rows,
                 insertFailed, fate>>

GracefulShutdown ==
  /\ started
  /\ RequestClose("gracefulShutdown")
  /\ UNCHANGED <<replayLog, started, watchdog, dataLog, writer, logging, accepted, rows,
                 insertFailed, fate>>

(* The writer receives the message, and turns to shutdownDataLog. *)
CloserSends(who) ==
  /\ closer[who] = "sending"
  /\ writer = "serving" /\ "shutdownDataLogWriter" \notin closedDown
  /\ closer' = [closer EXCEPT ![who] = "waiting"]
  /\ writer' = "telling"
  /\ panicked' = ("shutdownDataLog" \in closedDown)
  /\ UNCHANGED <<replayLog, flags, watchdog, dataLog, logging, accepted, rows,
                 insertFailed, closedDown>>

(* A send on a channel that the other caller has closed. *)
CloserPanics(who) ==
  /\ closer[who] = "sending"
  /\ "shutdownDataLogWriter" \in closedDown
  /\ panicked' = TRUE
  /\ UNCHANGED <<replayLog, flags, routines, logging, accepted, rows, insertFailed,
                 closedDown>>

(* dataLog receives the writer's message; both goroutines end. *)
WriterTells ==
  /\ writer = "telling" /\ dataLog = "reading"
  /\ writer' = "gone"
  /\ dataLog' = "none" /\ started' = FALSE
  /\ UNCHANGED <<replayLog, ready, requestShutdown, watchdog, closer, logging, accepted,
                 rows, insertFailed, fate>>

(* Mutant: closeDataLog does not wait for dataLogStarted to fall. *)
CloserReturnsAtOnce(who) ==
  /\ closer[who] = "waiting"
  /\ closer' = [closer EXCEPT ![who] = "done"]
  /\ watchdog' = IF who = "watchdog" THEN "loop" ELSE watchdog
  /\ closedDown' = closedDown \cup {"shutdownDataLogWriter"}
  /\ UNCHANGED <<replayLog, flags, dataLog, writer, logging, accepted, rows,
                 insertFailed, panicked>>

(* closeDataLog sees dataLogStarted fall, and closes shutdownDataLogWriter. *)
CloserReturns(who) ==
  /\ closer[who] = "waiting" /\ ~ started
  /\ closer' = [closer EXCEPT ![who] = "done"]
  /\ watchdog' = IF who = "watchdog" THEN "loop" ELSE watchdog
  /\ closedDown' = closedDown \cup {"shutdownDataLogWriter"}
  /\ UNCHANGED <<replayLog, flags, dataLog, writer, logging, accepted, rows,
                 insertFailed, panicked>>

(* After its sleep the watchdog finds that a shutdown was requested. *)
WatchdogEnds ==
  /\ watchdog = "loop" /\ requestShutdown
  /\ watchdog' = "ended"
  /\ UNCHANGED <<replayLog, flags, dataLog, writer, closer, logging, accepted, rows,
                 insertFailed, fate>>
-----------------------------------------------------------------------------
Watchdog == WatchdogStarts \/ WatchdogStops \/ WatchdogEnds
DataLogStep == SpawnWriter \/ BecomeReady \/ ReceiveRow \/ HandRow \/ BreakOff
WriterStep == AcceptRow \/ TickFails \/ TickWrites \/ TickInsertFails
CloserStep(who) == CloserSends(who) \/ CloserPanics(who) \/ CloserReturns(who)

(* A panic ends the program. *)
Next ==
  /\ ~ panicked
  /\ \/ ToggleReplayLog \/ LogTest \/ LogSend
     \/ Watchdog \/ DataLogStep \/ WriterStep
     \/ GracefulShutdown
     \/ WriterTells
     \/ \E who \in Callers : CloserStep(who)

(***************************************************************************)
(* Goroutines run; a select that could take a branch again and again takes *)
(* it in the end, which for the ticks includes that writing succeeds.      *)
(***************************************************************************)
Running(A) == ~ panicked /\ A

Fairness ==
  /\ WF_vars(Running(LogSend))
  /\ WF_vars(Running(Watchdog))
  /\ WF_vars(Running(DataLogStep)) /\ SF_vars(Running(ReceiveRow))
  /\ SF_vars(Running(AcceptRow)) /\ SF_vars(Running(TickWrites))
  /\ SF_vars(Running(WriterTells))
  /\ \A who \in Callers : SF_vars(Running(CloserStep(who)))

Spec == Init /\ [][Next]_vars /\ Fairness
-----------------------------------------------------------------------------
(* Every variable has its type. *)
TypeOK ==
  /\ {replayLog, started, ready, requestShutdown, logging, insertFailed, panicked}
       \subseteq BOOLEAN
  /\ watchdog \in {"loop", "closing", "ended"}
  /\ dataLog \in {"none", "opening", "creating", "reading", "handing", "breaking"}
  /\ writer \in {"none", "serving", "telling", "gone"}
  /\ closer \in [Callers -> {"idle", "sending", "blocked", "waiting", "done"}]
  /\ accepted \in 0 .. MaxRows
  /\ \A q \in {logChan, hand, writeChan, queued, batch, filed} : q \in Seq(1 .. MaxRows)
  /\ Len(logChan) <= Capacity /\ Len(writeChan) <= Capacity
  /\ Len(hand) = IF dataLog = "handing" THEN 1 ELSE 0
  /\ closedDown \subseteq {"shutdownDataLog", "shutdownDataLogWriter"}

InFlight == logChan \o hand \o writeChan \o queued \o batch

(***************************************************************************)
(* Until a shutdown is requested no row gets lost between the loggers and  *)
(* the database, whichever transactions and INSERTs fail.                  *)
(***************************************************************************)
RowsKept ==
  ~ requestShutdown => \A row \in 1 .. accepted : row \in ToSet(InFlight \o filed)

(* As long as no INSERT has failed, rows are filed once and in order.      *)
FiledInOrder == ~ insertFailed => filed = [row \in 1 .. Len(filed) |-> row]

(* When closeDataLog returns, nobody uses the database any more.           *)
ClosedMeansStopped ==
  \A who \in Callers : closer[who] = "done" => writer = "gone" /\ dataLog = "none"

(* Each row is filed, unless logging is shut down before; after a failed   *)
(* INSERT it waits for the next row of its table.                          *)
RowsReachFile ==
  \A row \in 1 .. MaxRows :
    row <= accepted ~> (row \in ToSet(filed \o batch) \/ requestShutdown)

(***************************************************************************)
(* closeDataLog's comment: it shuts down "without corrupting data or       *)
(* blocking execution".                                                    *)
(***************************************************************************)
CloseReturns == \A who \in Callers : closer[who] = "sending" ~> closer[who] = "done"
=============================================================================
