--------------------------- MODULE DataLogProofs ----------------------------
(***************************************************************************)
(* The flight recorder of DataLog for channels of every capacity and any   *)
(* number of rows: its types; that a row a logger has sent is in a channel,*)
(* a queue, the batch or the database; that the database gets the rows     *)
(* once and in order while no INSERT fails; and that both goroutines have  *)
(* ended when closeDataLog returns, whoever else is closing.               *)
(***************************************************************************)
EXTENDS DataLog, SequenceTheorems, TLAPS

Rows == 1 .. MaxRows

-----------------------------------------------------------------------------
(* A logger that has passed its test still has a row to send. *)
RowToSend == logging => accepted < MaxRows

(* Every row that was sent is somewhere between the loggers and the card.  *)
Places == ToSet(logChan) \cup ToSet(hand) \cup ToSet(writeChan) \cup ToSet(queued)
            \cup ToSet(batch) \cup ToSet(filed)

AllKept == 1 .. accepted \subseteq Places

(* The rows of s are numbered without a gap, from the one after n. *)
RunFrom(n, s) == \A i \in 1 .. Len(s) : s[i] = n + i

(* From the database back to the loggers the rows form one run. *)
InOrder ==
  LET atQueue == Len(filed)
      atWriter == atQueue + Len(queued)
      atHand == atWriter + Len(writeChan)
      atLog == atHand + Len(hand)
  IN  /\ batch = <<>>
      /\ RunFrom(0, filed) /\ RunFrom(atQueue, queued) /\ RunFrom(atWriter, writeChan)
      /\ RunFrom(atHand, hand) /\ RunFrom(atLog, logChan)
      /\ accepted = atLog + Len(logChan)

OrderInv == ~ insertFailed => InOrder

(***************************************************************************)
(* Where the goroutines can be together.  A closer that waits has sent its *)
(* message: the writer is turning to dataLog with it, or both have ended.  *)
(* dataLog breaks off only after the request, and never comes back.        *)
(***************************************************************************)
CloseInv ==
  /\ started <=> dataLog # "none"
  /\ dataLog = "opening" => writer = "none"
  /\ dataLog \in {"creating", "reading", "handing", "breaking"} => writer # "none"
  /\ writer = "none" => dataLog \in {"none", "opening"}
  /\ dataLog = "breaking" => requestShutdown
  /\ writer \in {"telling", "gone"} => requestShutdown
  /\ dataLog = "none" /\ writer # "none" => requestShutdown
  /\ dataLog = "none" /\ writer = "serving" => "shutdownDataLog" \in closedDown
  /\ \A who \in Callers :
       /\ closer[who] # "idle" => requestShutdown
       /\ closer[who] = "waiting" /\ ~ panicked =>
            \/ writer = "telling" /\ dataLog # "none"
            \/ writer = "gone" /\ dataLog = "none"
       /\ closer[who] = "done" => writer = "gone" /\ dataLog = "none"

LogInv == TypeOK /\ RowToSend /\ CloseInv
-----------------------------------------------------------------------------
(* The types, one variable at a time. *)
StateTypes ==
  /\ replayLog \in BOOLEAN /\ started \in BOOLEAN /\ ready \in BOOLEAN
  /\ requestShutdown \in BOOLEAN /\ logging \in BOOLEAN
  /\ insertFailed \in BOOLEAN /\ panicked \in BOOLEAN
  /\ watchdog \in {"loop", "closing", "ended"}
  /\ dataLog \in {"none", "opening", "creating", "reading", "handing", "breaking"}
  /\ writer \in {"none", "serving", "telling", "gone"}
  /\ closer \in [Callers -> {"idle", "sending", "blocked", "waiting", "done"}]
  /\ accepted \in 0 .. MaxRows
  /\ closedDown \subseteq {"shutdownDataLog", "shutdownDataLogWriter"}

RowTypes ==
  /\ logChan \in Seq(Rows) /\ hand \in Seq(Rows) /\ writeChan \in Seq(Rows)
  /\ queued \in Seq(Rows) /\ batch \in Seq(Rows) /\ filed \in Seq(Rows)
  /\ Len(logChan) <= Capacity /\ Len(writeChan) <= Capacity
  /\ Len(hand) = IF dataLog = "handing" THEN 1 ELSE 0

LEMMA Types ==
  /\ TypeOK <=> StateTypes /\ RowTypes
  /\ TypeOK' <=> StateTypes' /\ RowTypes'
  BY DEF TypeOK, StateTypes, RowTypes, Rows

(* The steps of the flags and of the goroutines that move no row. *)
NoRowMoves ==
  \/ ToggleReplayLog \/ LogTest \/ Watchdog \/ SpawnWriter \/ BecomeReady \/ BreakOff
  \/ TickFails \/ GracefulShutdown \/ WriterTells
  \/ \E who \in Callers : CloserStep(who)
  \/ UNCHANGED vars

LEMMA RowSteps ==
  [Next]_vars => \/ LogSend \/ ReceiveRow \/ HandRow \/ AcceptRow
                 \/ TickWrites \/ TickInsertFails \/ NoRowMoves
  BY DEF Next, DataLogStep, WriterStep, NoRowMoves

LEMMA NoRowMovesKeeps ==
  ASSUME NoRowMoves
  PROVE  UNCHANGED <<accepted, rows, insertFailed>>
<1>1. CASE ToggleReplayLog \/ LogTest \/ SpawnWriter \/ BecomeReady \/ BreakOff
  BY <1>1 DEF ToggleReplayLog, LogTest, SpawnWriter, BecomeReady, BreakOff
<1>2. CASE TickFails \/ GracefulShutdown \/ WriterTells \/ UNCHANGED vars
  BY <1>2 DEF TickFails, GracefulShutdown, WriterTells, vars
<1>3. CASE Watchdog
  BY <1>3 DEF Watchdog, WatchdogStarts, WatchdogStops, WatchdogEnds
<1>4. ASSUME NEW who \in Callers, CloserStep(who)
      PROVE  UNCHANGED <<accepted, rows, insertFailed>>
  BY <1>4 DEF CloserStep, CloserSends, CloserPanics, CloserReturns
<1> QED
  BY <1>1, <1>2, <1>3, <1>4 DEF NoRowMoves

-----------------------------------------------------------------------------
(* What the moves of the rows do to their sequences. *)
LEMMA FirstRow ==
  ASSUME NEW S, NEW s \in Seq(S), s # <<>>
  PROVE  /\ Head(s) = s[1] /\ Head(s) \in S
         /\ Len(s) \in Nat \ {0}
         /\ Tail(s) \in Seq(S) /\ Len(Tail(s)) = Len(s) - 1
         /\ \A i \in 1 .. Len(s) - 1 : Tail(s)[i] = s[i + 1]
  BY HeadTailProperties, EmptySeq

(* The rows of the one INSERT that came through before the one that failed. *)
LEMMA FirstRows ==
  ASSUME NEW S, NEW s \in Seq(S), NEW n \in Nat, n <= Len(s)
  PROVE  SubSeq(s, 1, n) \in Seq(S)
<1>1. \A i \in 1 .. n : s[i] \in S
  BY ElementOfSeq, LenProperties
<1> QED
  BY <1>1, SubSeqProperties

LEMMA LogSendTypes ==
  ASSUME LogInv, LogSend
  PROVE  RowTypes' /\ accepted' \in 0 .. MaxRows
<1>1. accepted < MaxRows /\ accepted \in Nat /\ accepted' = accepted + 1
  BY DEF LogInv, RowToSend, LogSend, TypeOK
<1>2. accepted + 1 \in Rows /\ accepted' \in 0 .. MaxRows
  BY <1>1, LogAssumption DEF Rows
<1>3. /\ logChan' = Append(logChan, accepted + 1)
      /\ Len(logChan) < Capacity
      /\ UNCHANGED <<dataLog, hand, writeChan, queued, batch, filed>>
  BY DEF LogSend, routines
<1>4. RowTypes
  BY Types DEF LogInv
<1>5. /\ logChan' \in Seq(Rows) /\ Len(logChan') = Len(logChan) + 1
      /\ Len(logChan) \in Nat
  BY <1>2, <1>3, <1>4, AppendProperties, LenProperties DEF RowTypes
<1>6. Len(logChan') <= Capacity
  BY <1>3, <1>5, LogAssumption
<1> QED
  BY <1>2, <1>3, <1>4, <1>5, <1>6 DEF RowTypes

LEMMA ReceiveRowTypes ==
  ASSUME LogInv, ReceiveRow
  PROVE  RowTypes'
<1>1. /\ dataLog' = "handing" /\ logChan # <<>>
      /\ hand' = <<Head(logChan)>> /\ logChan' = Tail(logChan)
      /\ UNCHANGED <<writeChan, queued, batch, filed>>
  BY DEF ReceiveRow
<1>2. RowTypes
  BY Types DEF LogInv
<1>3. /\ logChan' \in Seq(Rows) /\ Len(logChan') <= Capacity
      /\ hand' \in Seq(Rows) /\ Len(hand') = 1
  BY <1>1, <1>2, FirstRow, LogAssumption DEF RowTypes
<1> QED
  BY <1>1, <1>2, <1>3 DEF RowTypes

LEMMA HandRowTypes ==
  ASSUME LogInv, HandRow
  PROVE  RowTypes'
<1>1. /\ dataLog = "handing" /\ dataLog' # "handing"
      /\ Len(writeChan) < Capacity
      /\ writeChan' = writeChan \o hand /\ hand' = <<>>
      /\ UNCHANGED <<logChan, queued, batch, filed>>
  BY DEF HandRow
<1>2. RowTypes
  BY Types DEF LogInv
<1>3. /\ writeChan' \in Seq(Rows) /\ Len(writeChan') = Len(writeChan) + 1
      /\ Len(writeChan) \in Nat
  <2>1. writeChan \in Seq(Rows) /\ hand \in Seq(Rows) /\ Len(hand) = 1
    BY <1>1, <1>2 DEF RowTypes
  <2>2. /\ writeChan \o hand \in Seq(Rows)
        /\ Len(writeChan \o hand) = Len(writeChan) + Len(hand)
    BY <2>1, ConcatProperties
  <2> QED
    BY <1>1, <2>1, <2>2, LenProperties
<1>4. Len(writeChan') <= Capacity
  BY <1>1, <1>3, LogAssumption
<1>5. hand' \in Seq(Rows) /\ Len(hand') = 0
  BY <1>1
<1> QED
  BY <1>1, <1>2, <1>3, <1>4, <1>5 DEF RowTypes

LEMMA AcceptRowTypes ==
  ASSUME LogInv, AcceptRow
  PROVE  RowTypes'
<1>1. /\ writeChan # <<>>
      /\ queued' = Append(queued, Head(writeChan)) /\ writeChan' = Tail(writeChan)
      /\ UNCHANGED <<dataLog, logChan, hand, batch, filed>>
  BY DEF AcceptRow
<1>2. RowTypes
  BY Types DEF LogInv
<1>3. writeChan' \in Seq(Rows) /\ Len(writeChan') <= Capacity /\ Head(writeChan) \in Rows
  BY <1>1, <1>2, FirstRow, LogAssumption DEF RowTypes
<1>4. queued' \in Seq(Rows)
  BY <1>1, <1>2, <1>3, AppendProperties DEF RowTypes
<1> QED
  BY <1>1, <1>2, <1>3, <1>4 DEF RowTypes

LEMMA TickWritesTypes ==
  ASSUME LogInv, TickWrites
  PROVE  RowTypes'
<1>1. /\ filed' = IF queued = <<>> THEN filed ELSE filed \o batch \o queued
      /\ batch' = IF queued = <<>> THEN batch ELSE <<>>
      /\ queued' = <<>>
      /\ UNCHANGED <<dataLog, logChan, hand, writeChan>>
  BY DEF TickWrites
<1>2. RowTypes
  BY Types DEF LogInv
<1>3. filed \o batch \in Seq(Rows) /\ filed \o batch \o queued \in Seq(Rows)
  BY <1>2, ConcatProperties DEF RowTypes
<1>4. filed' \in Seq(Rows) /\ batch' \in Seq(Rows) /\ queued' \in Seq(Rows)
  BY <1>1, <1>2, <1>3 DEF RowTypes
<1> QED
  BY <1>1, <1>2, <1>4 DEF RowTypes

LEMMA TickInsertFailsTypes ==
  ASSUME LogInv, TickInsertFails
  PROVE  RowTypes'
<1>1. /\ batch' = batch \o queued /\ queued' = <<>>
      /\ UNCHANGED <<dataLog, logChan, hand, writeChan>>
  BY DEF TickInsertFails
<1>2. RowTypes
  BY Types DEF LogInv
<1>3. batch' \in Seq(Rows) /\ queued' \in Seq(Rows)
  BY <1>1, <1>2, ConcatProperties DEF RowTypes
<1>4. PICK n \in 0 .. Len(batch') - 1 : filed' = filed \o SubSeq(batch', 1, n)
  BY DEF TickInsertFails
<1>5. SubSeq(batch', 1, n) \in Seq(Rows)
  BY <1>3, FirstRows, LenProperties
<1>6. filed' \in Seq(Rows)
  BY <1>2, <1>4, <1>5, ConcatProperties DEF RowTypes
<1> QED
  BY <1>1, <1>2, <1>3, <1>6 DEF RowTypes

LEMMA StepRowTypes ==
  ASSUME LogInv, [Next]_vars
  PROVE  RowTypes' /\ accepted' \in 0 .. MaxRows
<1>1. RowTypes /\ StateTypes
  BY Types DEF LogInv
<1>2. CASE NoRowMoves
  <2>1. UNCHANGED <<accepted, rows, insertFailed>>
    BY <1>2, NoRowMovesKeeps
  <2>2. dataLog = "handing" <=> dataLog' = "handing"
    <3>1. CASE SpawnWriter \/ BecomeReady \/ BreakOff \/ WriterTells \/ TickFails
      BY <3>1 DEF SpawnWriter, BecomeReady, BreakOff, WriterTells, TickFails
    <3>2. CASE ToggleReplayLog \/ LogTest \/ GracefulShutdown \/ UNCHANGED vars
      BY <3>2 DEF ToggleReplayLog, LogTest, GracefulShutdown, vars, routines
    <3>3. CASE Watchdog
      BY <3>3 DEF Watchdog, WatchdogStarts, WatchdogStops, WatchdogEnds, LogInv, CloseInv
    <3>4. ASSUME NEW who \in Callers, CloserStep(who)
          PROVE  UNCHANGED dataLog
      BY <3>4 DEF CloserStep, CloserSends, CloserPanics, CloserReturns, routines
    <3> QED
      BY <1>2, <3>1, <3>2, <3>3, <3>4 DEF NoRowMoves
  <2> QED
    BY <1>1, <2>1, <2>2 DEF RowTypes, StateTypes, rows
<1>3. CASE LogSend
  BY <1>3, LogSendTypes
<1>4. CASE ReceiveRow \/ HandRow \/ AcceptRow \/ TickWrites \/ TickInsertFails
  <2>1. UNCHANGED accepted
    BY <1>4 DEF ReceiveRow, HandRow, AcceptRow, TickWrites, TickInsertFails
  <2> QED
    BY <1>1, <1>4, <2>1, ReceiveRowTypes, HandRowTypes, AcceptRowTypes, TickWritesTypes,
       TickInsertFailsTypes DEF StateTypes
<1> QED
  BY <1>2, <1>3, <1>4, RowSteps
-----------------------------------------------------------------------------
(* The test that comes before a send leaves room for the row. *)
LEMMA StepRowToSend ==
  ASSUME LogInv, [Next]_vars
  PROVE  RowToSend'
<1>1. CASE NoRowMoves
  <2>1. UNCHANGED accepted
    BY <1>1, NoRowMovesKeeps
  <2>2. UNCHANGED logging \/ accepted < MaxRows
    BY <1>1 DEF NoRowMoves, ToggleReplayLog, LogTest, SpawnWriter, BecomeReady, BreakOff,
       WriterTells, TickFails, GracefulShutdown, Watchdog, WatchdogStarts, WatchdogStops,
       WatchdogEnds, CloserStep, CloserSends, CloserPanics, CloserReturns, vars
  <2> QED
    BY <2>1, <2>2 DEF LogInv, RowToSend
<1>2. CASE LogSend
  BY <1>2 DEF LogSend, RowToSend
<1>3. CASE ReceiveRow \/ HandRow \/ AcceptRow \/ TickWrites \/ TickInsertFails
  BY <1>3 DEF ReceiveRow, HandRow, AcceptRow, TickWrites, TickInsertFails, LogInv, RowToSend
<1> QED
  BY <1>1, <1>2, <1>3, RowSteps

(***************************************************************************)
(* The protocol of the goroutines, by who takes the step.  First those who *)
(* leave it as it is: the settings page, the loggers, the rows, the ticks. *)
(***************************************************************************)
Protocol == <<started, requestShutdown, watchdog, dataLog, writer, closer, fate>>

LEMMA ProtocolStays ==
  ASSUME LogInv, UNCHANGED Protocol,
         replayLog' \in BOOLEAN, ready' \in BOOLEAN, logging' \in BOOLEAN,
         insertFailed' \in BOOLEAN, accepted' \in 0 .. MaxRows
  PROVE  StateTypes' /\ CloseInv'
<1>1. StateTypes'
  BY Types DEF Protocol, fate, LogInv, StateTypes
<1>2. CloseInv'
  BY DEF Protocol, fate, LogInv, CloseInv
<1> QED
  BY <1>1, <1>2

LEMMA LoggersStay ==
  ASSUME LogInv, ToggleReplayLog \/ LogTest \/ LogSend \/ UNCHANGED vars
  PROVE  /\ UNCHANGED Protocol
         /\ replayLog' \in BOOLEAN /\ ready' \in BOOLEAN /\ logging' \in BOOLEAN
         /\ insertFailed' \in BOOLEAN
<1>1. StateTypes
  BY Types DEF LogInv
<1> QED
  BY <1>1 DEF ToggleReplayLog, LogTest, LogSend, vars, flags, routines, fate, Protocol,
     StateTypes

(* The writer's rows and ticks: it goes on, or ends if that was requested. *)
LEMMA WriterKeepsProtocol ==
  ASSUME LogInv, AcceptRow \/ TickFails \/ TickWrites \/ TickInsertFails
  PROVE  StateTypes' /\ CloseInv'
<1>1. StateTypes
  BY Types DEF LogInv
<1>2. /\ writer = "serving" /\ writer' = IF requestShutdown THEN "gone" ELSE "serving"
      /\ UNCHANGED <<replayLog, flags, watchdog, dataLog, closer, logging, accepted, fate>>
  BY DEF AcceptRow, TickFails, TickWrites, TickInsertFails, WriterGoesOn
<1>3. insertFailed' \in BOOLEAN
  BY <1>1 DEF AcceptRow, TickFails, TickWrites, TickInsertFails, StateTypes
<1>4. StateTypes'
  BY <1>1, <1>2, <1>3 DEF StateTypes, flags, fate
<1>5. CloseInv'
  BY <1>2 DEF LogInv, CloseInv, flags, fate
<1> QED
  BY <1>4, <1>5

(* dataLog, from its start to its end. *)
LEMMA DataLogKeepsProtocol ==
  ASSUME LogInv, ~ panicked,
         \/ WatchdogStarts \/ SpawnWriter \/ BecomeReady \/ ReceiveRow \/ HandRow
         \/ BreakOff \/ WriterTells
  PROVE  StateTypes' /\ CloseInv'
<1>1. StateTypes /\ CloseInv
  BY Types DEF LogInv
<1>2. CASE WatchdogStarts
  <2>1. StateTypes'
    BY <1>1, <1>2 DEF WatchdogStarts, StateTypes, fate
  <2>2. CloseInv'
    BY <1>1, <1>2 DEF WatchdogStarts, WatchdogAwake, StateTypes, CloseInv, fate
  <2> QED
    BY <2>1, <2>2
<1>3. CASE SpawnWriter
  <2>1. StateTypes'
    BY <1>1, <1>3 DEF SpawnWriter, StateTypes, flags, fate
  <2>2. CloseInv'
    BY <1>1, <1>3 DEF SpawnWriter, CloseInv, flags, fate
  <2> QED
    BY <2>1, <2>2
<1>4. CASE BecomeReady
  <2>1. StateTypes'
    BY <1>1, <1>4 DEF BecomeReady, StateTypes, fate
  <2>2. CloseInv'
    BY <1>1, <1>4 DEF BecomeReady, CloseInv, fate
  <2> QED
    BY <2>1, <2>2
<1>5. CASE ReceiveRow
  <2>1. StateTypes'
    BY <1>1, <1>5 DEF ReceiveRow, StateTypes, flags, fate
  <2>2. CloseInv'
    BY <1>1, <1>5 DEF ReceiveRow, CloseInv, flags, fate
  <2> QED
    BY <2>1, <2>2
<1>6. CASE HandRow
  <2>1. StateTypes'
    BY <1>1, <1>6 DEF HandRow, StateTypes, flags, fate
  <2>2. CloseInv'
    BY <1>1, <1>6 DEF HandRow, CloseInv, flags, fate
  <2> QED
    BY <2>1, <2>2
<1>7. CASE BreakOff
  <2>1. StateTypes'
    BY <1>1, <1>7 DEF BreakOff, StateTypes
  <2>2. CloseInv'
    BY <1>1, <1>7 DEF BreakOff, StateTypes, CloseInv
  <2> QED
    BY <2>1, <2>2
<1>8. CASE WriterTells
  <2>1. StateTypes'
    BY <1>1, <1>8 DEF WriterTells, StateTypes, fate
  <2>2. CloseInv'
    BY <1>1, <1>8 DEF WriterTells, CloseInv, fate
  <2> QED
    BY <2>1, <2>2
<1> QED
  BY <1>2, <1>3, <1>4, <1>5, <1>6, <1>7, <1>8

(* The callers of closeDataLog. *)
Whereabouts == {"idle", "sending", "blocked", "waiting", "done"}

LEMMA CloserMoves ==
  ASSUME StateTypes, NEW who \in Callers, NEW where \in Whereabouts,
         closer' = [closer EXCEPT ![who] = where]
  PROVE  /\ closer' \in [Callers -> Whereabouts]
         /\ closer'[who] = where
         /\ \A other \in Callers \ {who} : closer'[other] = closer[other]
  BY DEF StateTypes, Whereabouts

LEMMA RequestKeepsProtocol ==
  ASSUME LogInv, ~ panicked, WatchdogStops \/ GracefulShutdown \/ WatchdogEnds
  PROVE  StateTypes' /\ CloseInv'
<1>1. StateTypes /\ CloseInv
  BY Types DEF LogInv
<1>2. ASSUME NEW who \in Callers, RequestClose(who),
             UNCHANGED <<replayLog, started, dataLog, writer, logging, accepted, rows,
                         insertFailed, fate>>,
             watchdog' \in {"loop", "closing", "ended"}
      PROVE  StateTypes' /\ CloseInv'
  <2>1. PICK where \in {"sending", "blocked"} : closer' = [closer EXCEPT ![who] = where]
    BY <1>2 DEF RequestClose
  <2>2. closer[who] = "idle" /\ requestShutdown' = TRUE /\ ready' = FALSE
    BY <1>2 DEF RequestClose
  <2>3. where \in Whereabouts
    BY DEF Whereabouts
  <2>4. /\ closer' \in [Callers -> Whereabouts]
        /\ closer'[who] \in {"sending", "blocked"}
        /\ \A other \in Callers \ {who} : closer'[other] = closer[other]
    BY <1>1, <2>1, <2>3, CloserMoves
  <2>5. StateTypes'
    BY <1>1, <1>2, <2>2, <2>4 DEF StateTypes, fate, Whereabouts
  <2>6. CloseInv'
    BY <1>1, <1>2, <2>2, <2>4 DEF CloseInv, fate
  <2> QED
    BY <2>5, <2>6
<1>3. CASE WatchdogStops
  BY <1>2, <1>3 DEF WatchdogStops, Callers
<1>4. CASE GracefulShutdown
  BY <1>1, <1>2, <1>4 DEF GracefulShutdown, Callers, StateTypes
<1>5. CASE WatchdogEnds
  <2>1. StateTypes'
    BY <1>1, <1>5 DEF WatchdogEnds, StateTypes, flags, fate
  <2>2. CloseInv'
    BY <1>1, <1>5 DEF WatchdogEnds, CloseInv, flags, fate
  <2> QED
    BY <2>1, <2>2
<1> QED
  BY <1>3, <1>4, <1>5

LEMMA CloserKeepsProtocol ==
  ASSUME LogInv, ~ panicked, NEW who \in Callers, CloserStep(who)
  PROVE  StateTypes' /\ CloseInv'
<1>1. StateTypes /\ CloseInv
  BY Types DEF LogInv
<1>2. CASE CloserSends(who)
  <2>1. /\ closer' \in [Callers -> Whereabouts] /\ closer'[who] = "waiting"
        /\ \A other \in Callers \ {who} : closer'[other] = closer[other]
    BY <1>1, <1>2, CloserMoves DEF CloserSends, Whereabouts
  <2>2. StateTypes'
    BY <1>1, <1>2, <2>1 DEF CloserSends, StateTypes, flags, Whereabouts
  <2>3. CloseInv'
    BY <1>1, <1>2, <2>1 DEF CloserSends, CloseInv, flags
  <2> QED
    BY <2>2, <2>3
<1>3. CASE CloserPanics(who)
  <2>1. StateTypes'
    BY <1>1, <1>3 DEF CloserPanics, StateTypes, flags, routines
  <2>2. CloseInv'
    BY <1>1, <1>3 DEF CloserPanics, CloseInv, flags, routines
  <2> QED
    BY <2>1, <2>2
<1>4. CASE CloserReturns(who)
  <2>1. /\ closer' \in [Callers -> Whereabouts] /\ closer'[who] = "done"
        /\ \A other \in Callers \ {who} : closer'[other] = closer[other]
    BY <1>1, <1>4, CloserMoves DEF CloserReturns, Whereabouts
  <2>2. writer = "gone" /\ dataLog = "none"
    BY <1>1, <1>4 DEF CloserReturns, CloseInv
  <2>3. StateTypes'
    BY <1>1, <1>4, <2>1 DEF CloserReturns, StateTypes, flags, Whereabouts
  <2>4. CloseInv'
    BY <1>1, <1>4, <2>1, <2>2 DEF CloserReturns, CloseInv, flags
  <2> QED
    BY <2>3, <2>4
<1> QED
  BY <1>2, <1>3, <1>4 DEF CloserStep

-----------------------------------------------------------------------------
LEMMA InitLogInv == Init => LogInv
<1> SUFFICES ASSUME Init
             PROVE  LogInv
  OBVIOUS
<1>1. closer \in [Callers -> {"idle", "sending", "blocked", "waiting", "done"}]
  BY DEF Init
<1>2. StateTypes
  <2>1. accepted \in 0 .. MaxRows
    BY LogAssumption DEF Init
  <2>2. /\ watchdog \in {"loop", "closing", "ended"}
        /\ dataLog \in {"none", "opening", "creating", "reading", "handing", "breaking"}
        /\ writer \in {"none", "serving", "telling", "gone"}
        /\ closedDown \subseteq {"shutdownDataLog", "shutdownDataLogWriter"}
    BY DEF Init
  <2>3. /\ replayLog \in BOOLEAN /\ started \in BOOLEAN /\ ready \in BOOLEAN
        /\ requestShutdown \in BOOLEAN /\ logging \in BOOLEAN
        /\ insertFailed \in BOOLEAN /\ panicked \in BOOLEAN
    BY DEF Init
  <2> QED
    BY <1>1, <2>1, <2>2, <2>3 DEF StateTypes
<1>3. RowTypes
  BY LogAssumption DEF Init, RowTypes
<1>4. CloseInv /\ RowToSend
  <2>1. \A who \in Callers : closer[who] = "idle"
    BY DEF Init
  <2> QED
    BY <2>1 DEF Init, CloseInv, RowToSend
<1> QED
  BY <1>2, <1>3, <1>4, Types DEF LogInv

LEMMA StepLogInv == LogInv /\ [Next]_vars => LogInv'
<1> SUFFICES ASSUME LogInv, [Next]_vars
             PROVE  LogInv'
  OBVIOUS
<1>1. RowTypes' /\ accepted' \in 0 .. MaxRows /\ RowToSend'
  BY StepRowTypes, StepRowToSend
<1>2. CASE ToggleReplayLog \/ LogTest \/ LogSend \/ UNCHANGED vars
  BY <1>1, <1>2, LoggersStay, ProtocolStays, Types DEF LogInv
<1>3. CASE Next /\ ~ (ToggleReplayLog \/ LogTest \/ LogSend)
  <2>1. ~ panicked
    BY <1>3 DEF Next
  <2>2. StateTypes' /\ CloseInv'
    BY <1>3, <2>1, WriterKeepsProtocol, DataLogKeepsProtocol, RequestKeepsProtocol,
       CloserKeepsProtocol DEF Next, Watchdog, DataLogStep, WriterStep
  <2> QED
    BY <1>1, <2>2, Types DEF LogInv
<1> QED
  BY <1>2, <1>3

(* Every variable of the flight recorder keeps its type; the channels hold *)
(* no more than their capacity.                                            *)
THEOREM TypeCorrect == Spec => []TypeOK
<1>1. LogInv => TypeOK
  BY DEF LogInv
<1> QED
  BY <1>1, InitLogInv, StepLogInv, PTL DEF Spec

(***************************************************************************)
(* When closeDataLog returns to the watchdog or to gracefulShutdown, both  *)
(* goroutines of the flight recorder have ended and the database is their  *)
(* caller's, whatever the other caller is doing and wherever the goroutines*)
(* were when the shutdown was requested.                                   *)
(***************************************************************************)
THEOREM ClosedMeansStoppedKept == Spec => []ClosedMeansStopped
<1>1. LogInv => ClosedMeansStopped
  BY DEF LogInv, CloseInv, ClosedMeansStopped
<1> QED
  BY <1>1, InitLogInv, StepLogInv, PTL DEF Spec
-----------------------------------------------------------------------------
(* The rows of a sequence, as it is filled, emptied and joined. *)
LEMMA RowsOf ==
  ASSUME NEW S, NEW s \in Seq(S)
  PROVE  \A x : x \in ToSet(s) <=> \E i \in 1 .. Len(s) : x = s[i]
  BY LenProperties DEF ToSet

LEMMA RowsOfFew ==
  ASSUME NEW x
  PROVE  ToSet(<<>>) = {} /\ ToSet(<<x>>) = {x}
<1>1. DOMAIN <<>> = {} /\ DOMAIN <<x>> = {1} /\ <<x>>[1] = x
  OBVIOUS
<1> QED
  BY <1>1 DEF ToSet

LEMMA RowsOfAppended ==
  ASSUME NEW S, NEW s \in Seq(S), NEW e \in S
  PROVE  ToSet(Append(s, e)) = ToSet(s) \cup {e}
<1>1. /\ Append(s, e) \in Seq(S) /\ Len(Append(s, e)) = Len(s) + 1 /\ Len(s) \in Nat
      /\ Append(s, e)[Len(s) + 1] = e
      /\ \A i \in 1 .. Len(s) : Append(s, e)[i] = s[i]
  BY AppendProperties, LenProperties
<1> DEFINE t == Append(s, e)
<1> HIDE DEF t
<1>2. /\ t \in Seq(S) /\ Len(t) = Len(s) + 1
      /\ t[Len(s) + 1] = e
      /\ \A i \in 1 .. Len(s) : t[i] = s[i]
  BY <1>1 DEF t
<1>3. \A x : x \in ToSet(t) <=> x \in ToSet(s) \/ x = e
  <2> SUFFICES ASSUME NEW x
               PROVE  (\E i \in 1 .. Len(s) + 1 : x = t[i])
                        <=> (\E i \in 1 .. Len(s) : x = s[i]) \/ x = e
    BY <1>2, RowsOf
  <2>1. 1 .. Len(s) + 1 = 1 .. Len(s) \cup {Len(s) + 1}
    BY <1>1
  <2> QED
    BY <1>2, <2>1
<1> QED
  BY <1>3 DEF t

LEMMA RowsOfJoined ==
  ASSUME NEW S, NEW s \in Seq(S), NEW t \in Seq(S)
  PROVE  ToSet(s \o t) = ToSet(s) \cup ToSet(t)
<1> DEFINE r == s \o t
<1>1. /\ r \in Seq(S) /\ Len(r) = Len(s) + Len(t)
      /\ \A i \in 1 .. Len(s) + Len(t) : r[i] = IF i <= Len(s) THEN s[i] ELSE t[i - Len(s)]
  BY ConcatProperties
<1>2. Len(s) \in Nat /\ Len(t) \in Nat
  BY LenProperties
<1> HIDE DEF r
<1>3. ASSUME NEW i \in 1 .. Len(r)
      PROVE  r[i] \in ToSet(s) \cup ToSet(t)
  <2>1. CASE i <= Len(s)
    <3>1. i \in 1 .. Len(s) /\ r[i] = s[i]
      BY <1>1, <1>2, <1>3, <2>1
    <3> QED
      BY <3>1, RowsOf
  <2>2. CASE ~ (i <= Len(s))
    <3>1. i - Len(s) \in 1 .. Len(t) /\ r[i] = t[i - Len(s)]
      BY <1>1, <1>2, <1>3, <2>2
    <3> QED
      BY <3>1, RowsOf
  <2> QED
    BY <2>1, <2>2
<1>4. ASSUME NEW i \in 1 .. Len(s)
      PROVE  s[i] \in ToSet(r)
  <2>1. i \in 1 .. Len(r) /\ r[i] = s[i]
    BY <1>1, <1>2, <1>4
  <2> QED
    BY <1>1, <2>1, RowsOf
<1>5. ASSUME NEW i \in 1 .. Len(t)
      PROVE  t[i] \in ToSet(r)
  <2>1. Len(s) + i \in 1 .. Len(r) /\ r[Len(s) + i] = t[i]
    BY <1>1, <1>2, <1>5
  <2> QED
    BY <1>1, <2>1, RowsOf
<1>6. ToSet(r) \subseteq ToSet(s) \cup ToSet(t)
  BY <1>1, <1>3, RowsOf
<1>7. ToSet(s) \subseteq ToSet(r) /\ ToSet(t) \subseteq ToSet(r)
  BY <1>4, <1>5, RowsOf
<1> QED
  BY <1>6, <1>7 DEF r

LEMMA RowsOfHeadAndTail ==
  ASSUME NEW S, NEW s \in Seq(S), s # <<>>
  PROVE  ToSet(s) \subseteq {Head(s)} \cup ToSet(Tail(s))
<1> SUFFICES ASSUME NEW i \in 1 .. Len(s)
             PROVE  s[i] \in {Head(s)} \cup ToSet(Tail(s))
  BY RowsOf
<1>1. /\ Head(s) = s[1] /\ Len(s) \in Nat \ {0}
      /\ Tail(s) \in Seq(S) /\ Len(Tail(s)) = Len(s) - 1
      /\ \A j \in 1 .. Len(s) - 1 : Tail(s)[j] = s[j + 1]
  BY FirstRow
<1>2. CASE i = 1
  BY <1>1, <1>2
<1>3. CASE i # 1
  <2>1. i - 1 \in 1 .. Len(Tail(s)) /\ Tail(s)[i - 1] = s[i]
    BY <1>1, <1>3
  <2> QED
    BY <1>1, <2>1, RowsOf
<1> QED
  BY <1>2, <1>3

-----------------------------------------------------------------------------
(***************************************************************************)
(* Each move of a row puts it where it takes it from.  After the goroutines*)
(* have ended their variables keep their values here, so that this one     *)
(* need not tell whether a shutdown was requested.                         *)
(***************************************************************************)
LEMMA StepAllKept ==
  ASSUME LogInv, AllKept, [Next]_vars
  PROVE  AllKept'
<1>1. /\ logChan \in Seq(Rows) /\ hand \in Seq(Rows) /\ writeChan \in Seq(Rows)
      /\ queued \in Seq(Rows) /\ batch \in Seq(Rows) /\ filed \in Seq(Rows)
      /\ accepted \in Nat
      /\ dataLog # "handing" => hand = <<>>
  BY Types, EmptySeq DEF LogInv, RowTypes, StateTypes
<1>2. CASE NoRowMoves
  BY <1>2, NoRowMovesKeeps DEF AllKept, Places, rows
<1>3. CASE LogSend
  <2>1. /\ accepted' = accepted + 1 /\ logChan' = Append(logChan, accepted + 1)
        /\ UNCHANGED <<hand, writeChan, queued, batch, filed>>
    BY <1>3 DEF LogSend
  <2>2. accepted + 1 \in Rows
    BY <1>1, <1>3, LogAssumption DEF LogInv, RowToSend, LogSend, Rows
  <2>3. ToSet(logChan') = ToSet(logChan) \cup {accepted + 1}
    BY <1>1, <2>1, <2>2, RowsOfAppended
  <2>4. 1 .. accepted' = 1 .. accepted \cup {accepted + 1}
    BY <1>1, <2>1
  <2> QED
    BY <2>1, <2>3, <2>4 DEF AllKept, Places
<1>4. CASE ReceiveRow
  <2>1. /\ hand = <<>> /\ hand' = <<Head(logChan)>> /\ logChan # <<>>
        /\ logChan' = Tail(logChan)
        /\ UNCHANGED <<accepted, writeChan, queued, batch, filed>>
    BY <1>1, <1>4 DEF ReceiveRow
  <2>2. ToSet(hand) = {} /\ ToSet(hand') = {Head(logChan)}
    BY <2>1, RowsOfFew
  <2>3. ToSet(logChan) \subseteq {Head(logChan)} \cup ToSet(logChan')
    BY <1>1, <2>1, RowsOfHeadAndTail
  <2> QED
    BY <2>1, <2>2, <2>3 DEF AllKept, Places
<1>5. CASE HandRow
  <2>1. /\ writeChan' = writeChan \o hand
        /\ UNCHANGED <<accepted, logChan, queued, batch, filed>>
    BY <1>5 DEF HandRow
  <2>2. ToSet(writeChan') = ToSet(writeChan) \cup ToSet(hand)
    BY <1>1, <2>1, RowsOfJoined
  <2> QED
    BY <2>1, <2>2 DEF AllKept, Places
<1>6. CASE AcceptRow
  <2>1. /\ queued' = Append(queued, Head(writeChan)) /\ writeChan # <<>>
        /\ writeChan' = Tail(writeChan)
        /\ UNCHANGED <<accepted, logChan, hand, batch, filed>>
    BY <1>6 DEF AcceptRow
  <2>2. Head(writeChan) \in Rows
    BY <1>1, <2>1, FirstRow
  <2>3. ToSet(queued') = ToSet(queued) \cup {Head(writeChan)}
    BY <1>1, <2>1, <2>2, RowsOfAppended
  <2>4. ToSet(writeChan) \subseteq {Head(writeChan)} \cup ToSet(writeChan')
    BY <1>1, <2>1, RowsOfHeadAndTail
  <2> QED
    BY <2>1, <2>3, <2>4 DEF AllKept, Places
<1>7. CASE TickWrites
  <2>1. /\ filed' = IF queued = <<>> THEN filed ELSE filed \o batch \o queued
        /\ batch' = IF queued = <<>> THEN batch ELSE <<>>
        /\ UNCHANGED <<accepted, logChan, hand, writeChan>>
    BY <1>7 DEF TickWrites
  <2>2. /\ filed \o batch \in Seq(Rows)
        /\ ToSet(filed \o batch) = ToSet(filed) \cup ToSet(batch)
    BY <1>1, ConcatProperties, RowsOfJoined
  <2>3. ToSet(filed \o batch \o queued) = ToSet(filed) \cup ToSet(batch) \cup ToSet(queued)
    <3> DEFINE old == filed \o batch
    <3>1. old \in Seq(Rows) /\ ToSet(old) = ToSet(filed) \cup ToSet(batch)
      BY <2>2
    <3> HIDE DEF old
    <3>2. ToSet(old \o queued) = ToSet(old) \cup ToSet(queued)
      BY <1>1, <3>1, RowsOfJoined
    <3> QED
      BY <3>1, <3>2 DEF old
  <2>4. ToSet(<<>>) = {}
    BY RowsOfFew
  <2>5. CASE queued = <<>>
    <3>1. UNCHANGED <<filed, batch>> /\ ToSet(queued) = {}
      BY <2>1, <2>4, <2>5
    <3> QED
      BY <2>1, <3>1 DEF AllKept, Places
  <2>6. CASE queued # <<>>
    <3>1. ToSet(filed') = ToSet(filed) \cup ToSet(batch) \cup ToSet(queued)
      BY <2>1, <2>3, <2>6
    <3> QED
      BY <2>1, <3>1 DEF AllKept, Places
  <2> QED
    BY <2>5, <2>6
<1>8. CASE TickInsertFails
  <2>1. /\ batch' = batch \o queued
        /\ UNCHANGED <<accepted, logChan, hand, writeChan>>
    BY <1>8 DEF TickInsertFails
  <2>2. ToSet(batch') = ToSet(batch) \cup ToSet(queued) /\ batch' \in Seq(Rows)
    BY <1>1, <2>1, RowsOfJoined, ConcatProperties
  <2>3. PICK n \in 0 .. Len(batch') - 1 : filed' = filed \o SubSeq(batch', 1, n)
    BY <1>8 DEF TickInsertFails
  <2>4. SubSeq(batch', 1, n) \in Seq(Rows)
    BY <2>2, FirstRows, LenProperties
  <2>5. ToSet(filed) \subseteq ToSet(filed')
    <3> DEFINE before == SubSeq(batch', 1, n)
    <3> HIDE DEF before
    <3>1. before \in Seq(Rows) /\ filed' = filed \o before
      BY <2>3, <2>4 DEF before
    <3> QED
      BY <1>1, <3>1, RowsOfJoined
  <2> QED
    BY <2>1, <2>2, <2>5 DEF AllKept, Places
<1> QED
  BY <1>2, <1>3, <1>4, <1>5, <1>6, <1>7, <1>8, RowSteps

LEMMA AllKeptMeansRowsKept ==
  ASSUME LogInv, AllKept
  PROVE  RowsKept
<1>1. /\ logChan \in Seq(Rows) /\ hand \in Seq(Rows) /\ writeChan \in Seq(Rows)
      /\ queued \in Seq(Rows) /\ batch \in Seq(Rows) /\ filed \in Seq(Rows)
  BY Types DEF LogInv, RowTypes
<1> DEFINE c1 == logChan \o hand
           c2 == c1 \o writeChan
           c3 == c2 \o queued
           c4 == c3 \o batch
<1>2. c1 \in Seq(Rows) /\ ToSet(c1) = ToSet(logChan) \cup ToSet(hand)
  BY <1>1, RowsOfJoined, ConcatProperties
<1> HIDE DEF c1
<1>3. c2 \in Seq(Rows) /\ ToSet(c2) = ToSet(c1) \cup ToSet(writeChan)
  BY <1>1, <1>2, RowsOfJoined, ConcatProperties
<1> HIDE DEF c2
<1>4. c3 \in Seq(Rows) /\ ToSet(c3) = ToSet(c2) \cup ToSet(queued)
  BY <1>1, <1>3, RowsOfJoined, ConcatProperties
<1> HIDE DEF c3
<1>5. c4 \in Seq(Rows) /\ ToSet(c4) = ToSet(c3) \cup ToSet(batch)
  BY <1>1, <1>4, RowsOfJoined, ConcatProperties
<1> HIDE DEF c4
<1>6. ToSet(c4 \o filed) = Places
  BY <1>1, <1>2, <1>3, <1>4, <1>5, RowsOfJoined DEF Places
<1>7. InFlight = c4
  BY DEF InFlight, c1, c2, c3, c4
<1> QED
  BY <1>6, <1>7 DEF RowsKept, AllKept

(***************************************************************************)
(* No row that a logger has sent is lost on its way through two channels,  *)
(* two queues and any number of failing transactions and INSERTs, until a  *)
(* shutdown is requested.                                                  *)
(***************************************************************************)
THEOREM RowsAreKept == Spec => []RowsKept
<1>1. Init => AllKept
  BY DEF Init, AllKept
<1>2. LogInv /\ AllKept /\ [Next]_vars => AllKept'
  BY StepAllKept
<1>3. LogInv /\ AllKept => RowsKept
  BY AllKeptMeansRowsKept
<1> QED
  BY <1>1, <1>2, <1>3, InitLogInv, StepLogInv, PTL DEF Spec
-----------------------------------------------------------------------------
(* Runs of rows, as they grow at their end and are taken from their start. *)
LEMMA RunAppended ==
  ASSUME NEW s \in Seq(Rows), NEW n \in Nat, RunFrom(n, s), NEW e \in Rows,
         e = n + Len(s) + 1
  PROVE  RunFrom(n, Append(s, e)) /\ Len(Append(s, e)) = Len(s) + 1
<1> DEFINE t == Append(s, e)
<1>1. /\ Len(t) = Len(s) + 1 /\ t[Len(s) + 1] = e /\ Len(s) \in Nat
      /\ \A i \in 1 .. Len(s) : t[i] = s[i]
  BY AppendProperties, LenProperties
<1> HIDE DEF t
<1>2. RunFrom(n, t)
  BY <1>1 DEF RunFrom
<1> QED
  BY <1>1, <1>2 DEF t

LEMMA RunJoined ==
  ASSUME NEW s \in Seq(Rows), NEW t \in Seq(Rows), NEW n \in Nat,
         RunFrom(n, s), RunFrom(n + Len(s), t)
  PROVE  RunFrom(n, s \o t) /\ Len(s \o t) = Len(s) + Len(t)
<1> DEFINE r == s \o t
<1>1. /\ Len(r) = Len(s) + Len(t) /\ Len(s) \in Nat /\ Len(t) \in Nat
      /\ \A i \in 1 .. Len(s) + Len(t) : r[i] = IF i <= Len(s) THEN s[i] ELSE t[i - Len(s)]
  BY ConcatProperties, LenProperties
<1> HIDE DEF r
<1>2. ASSUME NEW i \in 1 .. Len(r)
      PROVE  r[i] = n + i
  <2>1. CASE i <= Len(s)
    BY <1>1, <1>2, <2>1 DEF RunFrom
  <2>2. CASE ~ (i <= Len(s))
    <3>1. i - Len(s) \in 1 .. Len(t) /\ r[i] = t[i - Len(s)]
      BY <1>1, <1>2, <2>2
    <3>2. t[i - Len(s)] = n + Len(s) + (i - Len(s))
      BY <3>1 DEF RunFrom
    <3> QED
      BY <1>1, <1>2, <3>1, <3>2
  <2> QED
    BY <2>1, <2>2
<1> QED
  BY <1>1, <1>2 DEF r, RunFrom

LEMMA RunBehead ==
  ASSUME NEW s \in Seq(Rows), s # <<>>, NEW n \in Nat, RunFrom(n, s)
  PROVE  /\ Head(s) = n + 1 /\ Head(s) \in Rows
         /\ RunFrom(n + 1, Tail(s)) /\ Tail(s) \in Seq(Rows)
         /\ Len(Tail(s)) + 1 = Len(s) /\ Len(Tail(s)) \in Nat
<1> DEFINE t == Tail(s)
<1>1. /\ Head(s) = s[1] /\ Head(s) \in Rows /\ Len(s) \in Nat \ {0}
      /\ t \in Seq(Rows) /\ Len(t) = Len(s) - 1
      /\ \A i \in 1 .. Len(s) - 1 : t[i] = s[i + 1]
  BY FirstRow
<1> HIDE DEF t
<1>2. RunFrom(n + 1, t) /\ Head(s) = n + 1
  BY <1>1 DEF RunFrom
<1> QED
  BY <1>1, <1>2 DEF t

LEMMA RunOfFew ==
  ASSUME NEW n \in Nat
  PROVE  /\ RunFrom(n, <<>>) /\ Len(<<>>) = 0
         /\ \A e : e = n + 1 => RunFrom(n, <<e>>) /\ Len(<<e>>) = 1
  BY DEF RunFrom

-----------------------------------------------------------------------------
(* A row leaves one run at its start and joins the next one at its end.    *)
LEMMA StepInOrder ==
  ASSUME LogInv, InOrder, [Next]_vars, ~ TickInsertFails
  PROVE  InOrder'
<1> DEFINE F == Len(filed)
           Q == Len(queued)
           W == Len(writeChan)
           H == Len(hand)
           L == Len(logChan)
<1>1. /\ logChan \in Seq(Rows) /\ hand \in Seq(Rows) /\ writeChan \in Seq(Rows)
      /\ queued \in Seq(Rows) /\ filed \in Seq(Rows)
      /\ dataLog # "handing" => hand = <<>>
  BY Types, EmptySeq DEF LogInv, RowTypes
<1>2. F \in Nat /\ Q \in Nat /\ W \in Nat /\ H \in Nat /\ L \in Nat
  BY <1>1, LenProperties
<1> HIDE DEF F, Q, W, H, L
<1>3. /\ batch = <<>>
      /\ RunFrom(0, filed) /\ RunFrom(F, queued) /\ RunFrom(F + Q, writeChan)
      /\ RunFrom(F + Q + W, hand) /\ RunFrom(F + Q + W + H, logChan)
      /\ accepted = F + Q + W + H + L
  BY DEF InOrder, F, Q, W, H, L
<1>4. CASE NoRowMoves
  BY <1>4, NoRowMovesKeeps DEF InOrder, rows
<1>5. CASE LogSend
  <2>1. /\ accepted' = accepted + 1 /\ logChan' = Append(logChan, accepted + 1)
        /\ UNCHANGED <<hand, writeChan, queued, batch, filed>>
    BY <1>5 DEF LogSend
  <2>2. accepted + 1 \in Rows
    BY <1>2, <1>3, <1>5, LogAssumption DEF LogInv, RowToSend, LogSend, Rows
  <2>3. F + Q + W + H \in Nat /\ accepted + 1 = (F + Q + W + H) + L + 1
    BY <1>2, <1>3
  <2>4. RunFrom(F + Q + W + H, logChan') /\ Len(logChan') = L + 1
    BY <1>1, <1>3, <2>1, <2>2, <2>3, RunAppended DEF L
  <2>5. accepted' = F + Q + W + H + Len(logChan')
    BY <1>2, <1>3, <2>1, <2>4
  <2> QED
    BY <1>3, <2>1, <2>4, <2>5 DEF InOrder, F, Q, W, H
<1>6. CASE ReceiveRow
  <2>1. /\ hand = <<>> /\ hand' = <<Head(logChan)>> /\ logChan # <<>>
        /\ logChan' = Tail(logChan)
        /\ UNCHANGED <<accepted, writeChan, queued, batch, filed>>
    BY <1>1, <1>6 DEF ReceiveRow
  <2>2. H = 0 /\ F + Q + W \in Nat /\ F + Q + W + H = F + Q + W
    BY <1>2, <2>1 DEF H
  <2>3. /\ Head(logChan) = F + Q + W + 1
        /\ RunFrom(F + Q + W + 1, logChan')
        /\ Len(logChan') + 1 = L /\ Len(logChan') \in Nat
    BY <1>1, <1>3, <2>1, <2>2, RunBehead DEF L
  <2>4. RunFrom(F + Q + W, hand') /\ Len(hand') = 1
    BY <2>1, <2>2, <2>3, RunOfFew
  <2>5. accepted' = F + Q + W + 1 + Len(logChan')
    BY <1>2, <1>3, <2>1, <2>2, <2>3
  <2> QED
    BY <1>3, <2>1, <2>3, <2>4, <2>5 DEF InOrder, F, Q, W
<1>7. CASE HandRow
  <2>1. /\ writeChan' = writeChan \o hand /\ hand' = <<>>
        /\ UNCHANGED <<accepted, logChan, queued, batch, filed>>
    BY <1>7 DEF HandRow
  <2>2. F + Q \in Nat
    BY <1>2
  <2>3. RunFrom(F + Q, writeChan') /\ Len(writeChan') = W + H
    BY <1>1, <1>3, <2>1, <2>2, RunJoined DEF W, H
  <2>4. /\ F + Q + Len(writeChan') \in Nat
        /\ F + Q + Len(writeChan') + 0 = F + Q + W + H
    BY <1>2, <2>3
  <2>5. RunFrom(F + Q + Len(writeChan'), hand') /\ Len(hand') = 0
    BY <2>1, <2>4, RunOfFew
  <2>6. /\ RunFrom(F + Q + Len(writeChan') + Len(hand'), logChan')
        /\ accepted' = F + Q + Len(writeChan') + Len(hand') + Len(logChan')
    BY <1>3, <2>1, <2>4, <2>5 DEF L
  <2> QED
    BY <1>3, <2>1, <2>3, <2>5, <2>6 DEF InOrder, F, Q
<1>8. CASE AcceptRow
  <2>1. /\ queued' = Append(queued, Head(writeChan)) /\ writeChan # <<>>
        /\ writeChan' = Tail(writeChan)
        /\ UNCHANGED <<accepted, logChan, hand, batch, filed>>
    BY <1>8 DEF AcceptRow
  <2>2. F + Q \in Nat
    BY <1>2
  <2>3. /\ Head(writeChan) = F + Q + 1 /\ Head(writeChan) \in Rows
        /\ RunFrom(F + Q + 1, writeChan')
        /\ Len(writeChan') + 1 = W /\ Len(writeChan') \in Nat
    BY <1>1, <1>3, <2>1, <2>2, RunBehead DEF W
  <2>4. RunFrom(F, queued') /\ Len(queued') = Q + 1
    BY <1>1, <1>2, <1>3, <2>1, <2>3, RunAppended DEF Q
  <2>5. /\ F + Len(queued') = F + Q + 1
        /\ F + Len(queued') + Len(writeChan') = F + Q + W
    BY <1>2, <2>3, <2>4
  <2>6. /\ RunFrom(F + Len(queued'), writeChan')
        /\ RunFrom(F + Len(queued') + Len(writeChan'), hand')
        /\ RunFrom(F + Len(queued') + Len(writeChan') + Len(hand'), logChan')
        /\ accepted' = F + Len(queued') + Len(writeChan') + Len(hand') + Len(logChan')
    BY <1>3, <2>1, <2>3, <2>5 DEF H, L
  <2> QED
    BY <1>3, <2>1, <2>4, <2>6 DEF InOrder, F
<1>9. CASE TickWrites
  <2>1. /\ filed' = IF queued = <<>> THEN filed ELSE filed \o batch \o queued
        /\ batch' = IF queued = <<>> THEN batch ELSE <<>>
        /\ queued' = <<>>
        /\ UNCHANGED <<accepted, logChan, hand, writeChan>>
    BY <1>9 DEF TickWrites
  <2>2. filed \o batch = filed
    BY <1>1, <1>3, ConcatEmptySeq
  <2>3. /\ RunFrom(0, filed \o queued) /\ Len(filed \o queued) = F + Q
    BY <1>1, <1>3, RunJoined DEF F, Q
  <2>4. RunFrom(0, filed') /\ Len(filed') = F + Q /\ batch' = <<>>
    <3>1. CASE queued = <<>>
      <4>1. Q = 0
        BY <3>1 DEF Q
      <4> QED
        BY <1>2, <1>3, <2>1, <3>1, <4>1 DEF F
    <3>2. CASE queued # <<>>
      BY <2>1, <2>2, <2>3, <3>2
    <3> QED
      BY <3>1, <3>2
  <2>5. RunFrom(Len(filed'), queued') /\ Len(queued') = 0
    BY <1>2, <2>1, <2>4, RunOfFew
  <2>6. Len(filed') + Len(queued') = F + Q
    BY <1>2, <2>4, <2>5
  <2>7. /\ RunFrom(Len(filed') + Len(queued'), writeChan')
        /\ RunFrom(Len(filed') + Len(queued') + Len(writeChan'), hand')
        /\ RunFrom(Len(filed') + Len(queued') + Len(writeChan') + Len(hand'), logChan')
        /\ accepted' = Len(filed') + Len(queued') + Len(writeChan') + Len(hand')
                         + Len(logChan')
    BY <1>3, <2>1, <2>6 DEF W, H, L
  <2> QED
    BY <2>4, <2>5, <2>7 DEF InOrder
<1> QED
  BY <1>4, <1>5, <1>6, <1>7, <1>8, <1>9, RowSteps

LEMMA StepOrderInv == LogInv /\ OrderInv /\ [Next]_vars => OrderInv'
<1> SUFFICES ASSUME LogInv, OrderInv, [Next]_vars, ~ insertFailed'
             PROVE  InOrder'
  BY DEF OrderInv
<1>1. ~ TickInsertFails
  BY DEF TickInsertFails
<1>2. insertFailed' = insertFailed
  BY <1>1, RowSteps, NoRowMovesKeeps
     DEF LogSend, ReceiveRow, HandRow, AcceptRow, TickWrites
<1> QED
  BY <1>1, <1>2, StepInOrder DEF OrderInv

(***************************************************************************)
(* As long as no INSERT fails the database holds the rows in the order the *)
(* loggers sent them, each once and none left out: the two channels, the   *)
(* hand-over and the queue of the ticks neither swap nor repeat one, not   *)
(* even across transactions that could not begin.                          *)
(***************************************************************************)
THEOREM FiledInOrderKept == Spec => []FiledInOrder
<1>1. Init => OrderInv
  <2>1. RunFrom(0, <<>>) /\ Len(<<>>) = 0
    BY DEF RunFrom
  <2> QED
    BY <2>1 DEF Init, OrderInv, InOrder
<1>2. LogInv /\ OrderInv => FiledInOrder
  <2> SUFFICES ASSUME LogInv, OrderInv, ~ insertFailed
               PROVE  filed = [row \in 1 .. Len(filed) |-> row]
    BY DEF FiledInOrder
  <2>1. filed \in Seq(Rows)
    BY Types DEF LogInv, RowTypes
  <2>2. filed \in [1 .. Len(filed) -> Rows] /\ Len(filed) \in Nat
    BY <2>1, LenProperties
  <2>3. \A i \in 1 .. Len(filed) : filed[i] = i
    BY <2>2 DEF OrderInv, InOrder, RunFrom
  <2> QED
    BY <2>2, <2>3
<1> QED
  BY <1>1, <1>2, InitLogInv, StepLogInv, StepOrderInv, PTL DEF Spec
=============================================================================
