-------------------------- MODULE ConnectionWriter --------------------------
(***************************************************************************)
(* One client connection of main/network.go: sendMsg puts messages on its  *)
(* queue, the connectionWriter goroutine waits for DataAvailable, collects *)
(* messages into packets and writes them, the client falls asleep, wakes   *)
(* and is throttled, and the connection is closed by a write error (TCP)   *)
(* or because the client's address is gone (UDP, refreshConnectedClients). *)
(*                                                                         *)
(* Messages carry their priority and the ticks they have left, so that     *)
(* runs need no bound on time or on the number of messages: QueueOps is    *)
(* used with now = 0 and Tick moves every deadline one tick closer.        *)
(* Packet sizes are abstracted: after any message the packet may be full.  *)
(***************************************************************************)
EXTENDS QueueOps

CONSTANTS
  Prios,          (* priorities in use; Heartbeat is one of them            *)
  Heartbeat,      (* sendGDL90(heartbeat, ..., -20 or so): at most -10      *)
  MaxAge,         (* the maxAge of every message, in ticks                  *)
  MaxSize, PruneAbove,
  Kinds           (* of clients: "udp" (networkConnection), "tcp"           *)

ASSUME WriterAssumption ==
  /\ Prios \subseteq Int /\ Heartbeat \in Prios /\ Heartbeat <= -10
  /\ MaxAge \in Nat
  /\ MaxSize \in Nat \ {0}
  /\ PruneAbove \in Nat /\ PruneAbove >= MaxSize
  /\ Kinds \subseteq {"udp", "tcp"}

VARIABLES
  entries, dataAvailable, closed,   (* the connection's MessageQueue        *)
  kind,          (* what the client is, once and for all                    *)
  registered,    (* is the connection in clientConnections                  *)
  sending,       (* <<>> or the priority sendMsg is putting, netMutex held  *)
  asleep,        (* what IsSleeping answers                                 *)
  throttled,     (* LastUnreachable is less than 15 s ago                   *)
  pc,            (* where connectionWriter is                               *)
  peeked,        (* the priority PeekFirst returned                         *)
  gate,          (* what collectMessages last judged the client to be       *)
  packet         (* has collectMessages collected anything                  *)

queueVars == <<entries, dataAvailable, closed>>
clientVars == <<kind, asleep, throttled>>
writerVars == <<pc, peeked, gate, packet>>
vars == <<queueVars, registered, sending, clientVars, writerVars>>

Entry == [prio : Prios, outdatedAt : -1 .. MaxAge]
Pcs == {"wait", "check", "gate", "judge", "pop", "write", "unregister", "done"}
Gates == {"open", "throttled", "sleeping"}

(* A networkConnection answers IsSleeping and IsThrottled; a tcpConnection *)
(* is awake until it is closed, and its OnError closes it.                 *)
CanSleep == kind = "udp"
ClosesOnError == kind = "tcp"

Init ==
  /\ kind \in Kinds
  /\ entries = <<>> /\ dataAvailable = FALSE /\ closed = FALSE
  /\ registered = TRUE
  /\ sending = <<>>
  /\ asleep = CanSleep        \* no pong and no ping response yet
  /\ throttled = FALSE
  /\ pc = "wait" /\ peeked = 0 /\ gate = "open" /\ packet = FALSE

NetMutexFree == sending = <<>>
-----------------------------------------------------------------------------
(* sendMsg: netMutex is taken and Put finds the queue open... *)
SendMsg(prio) ==
  /\ NetMutexFree /\ registered /\ ~ closed
  /\ sending' = <<prio>>
  /\ UNCHANGED <<queueVars, registered, clientVars, writerVars>>

(* Mutant: the queue is not pruned.                                        *)
FinishPutUnpruned ==
  /\ sending # <<>>
  /\ LET e == [prio |-> sending[1], outdatedAt |-> MaxAge]
     IN \E k \in InsertPositions(entries, e.prio) : entries' = InsertAt(entries, k, e)
  /\ dataAvailable' = TRUE
  /\ sending' = <<>>
  /\ UNCHANGED <<closed, registered, clientVars, writerVars>>

(* Mutant: only the first message of an empty queue is announced.          *)
FinishPutWhenEmpty ==
  /\ sending # <<>>
  /\ LET e == [prio |-> sending[1], outdatedAt |-> MaxAge]
     IN \E k \in InsertPositions(entries, e.prio) :
          LET q == InsertAt(entries, k, e)
          IN  entries' \in IF Len(q) > PruneAbove THEN PrunedQueues(q, 0, MaxSize) ELSE {q}
  /\ dataAvailable' = (dataAvailable \/ entries = <<>>)
  /\ sending' = <<>>
  /\ UNCHANGED <<closed, registered, clientVars, writerVars>>

(* Mutant: the test for messages to announce is made before the insertion. *)
FinishPutTooEarly ==
  /\ sending # <<>>
  /\ LET e == [prio |-> sending[1], outdatedAt |-> MaxAge]
     IN \E k \in InsertPositions(entries, e.prio) :
          LET q == InsertAt(entries, k, e)
          IN  entries' \in IF Len(q) > PruneAbove THEN PrunedQueues(q, 0, MaxSize) ELSE {q}
  /\ dataAvailable' = (dataAvailable \/ entries # <<>>)
  /\ sending' = <<>>
  /\ UNCHANGED <<closed, registered, clientVars, writerVars>>

(* ...then inserts, prunes and notifies; the mutexes are released. *)
FinishPut ==
  /\ sending # <<>>
  /\ LET e == [prio |-> sending[1], outdatedAt |-> MaxAge]
     IN \E k \in InsertPositions(entries, e.prio) :
          LET q == InsertAt(entries, k, e)
          IN  entries' \in IF Len(q) > PruneAbove THEN PrunedQueues(q, 0, MaxSize) ELSE {q}
  /\ dataAvailable' = (dataAvailable \/ entries' # <<>>)
  /\ sending' = <<>>
  /\ UNCHANGED <<closed, registered, clientVars, writerVars>>

(* Mutant: a writer waiting for data is not told.                          *)
CloseQueueSilently == closed' = TRUE /\ UNCHANGED dataAvailable

CloseQueue == closed' = TRUE /\ dataAvailable' = (dataAvailable \/ ~ closed)

(* refreshConnectedClients, of a UDP client whose address is gone. *)
RemoveClient ==
  /\ ~ ClosesOnError
  /\ NetMutexFree /\ registered
  /\ CloseQueue
  /\ registered' = FALSE
  /\ UNCHANGED <<entries, sending, clientVars, writerVars>>

(* monotonic.Watcher: every deadline is one tick closer. *)
Tick ==
  /\ \E i \in 1 .. Len(entries) : entries[i].outdatedAt >= 0
  /\ entries' = [i \in 1 .. Len(entries) |->
                   [entries[i] EXCEPT !.outdatedAt = IF @ < 0 THEN @ ELSE @ - 1]]
  /\ UNCHANGED <<dataAvailable, closed, registered, sending, clientVars, writerVars>>

(***************************************************************************)
(* The client, as sleepMonitor and IsSleeping see it: an ICMP unreachable  *)
(* puts it to sleep for 5 s and throttles it for 15 s; missing ping or     *)
(* pong responses put it to sleep.                                         *)
(***************************************************************************)
Unreachable ==
  /\ CanSleep
  /\ asleep' = TRUE /\ throttled' = TRUE
  /\ UNCHANGED <<queueVars, kind, registered, sending, writerVars>>

FallAsleep ==
  /\ CanSleep /\ ~ asleep
  /\ asleep' = TRUE
  /\ UNCHANGED <<queueVars, kind, registered, sending, throttled, writerVars>>

WakeUp ==
  /\ asleep
  /\ asleep' = FALSE
  /\ UNCHANGED <<queueVars, kind, registered, sending, throttled, writerVars>>

Unthrottle ==
  /\ throttled
  /\ throttled' = FALSE
  /\ UNCHANGED <<queueVars, kind, registered, sending, asleep, writerVars>>
-----------------------------------------------------------------------------
Goto(from, to) == pc = from /\ pc' = to

(* IsThrottled lets one call in a thousand through. *)
IsThrottled == IF throttled THEN BOOLEAN ELSE {FALSE}

(* <-queue.DataAvailable *)
WaitForData ==
  /\ Goto("wait", "check")
  /\ dataAvailable
  /\ dataAvailable' = FALSE
  /\ gate' = "open"
  /\ UNCHANGED <<entries, closed, registered, sending, clientVars, peeked, packet>>

(* The head of the inner loop: a closed queue ends the goroutine. *)
CheckClosed ==
  /\ Goto("check", IF closed THEN "done" ELSE "gate")
  /\ UNCHANGED <<queueVars, registered, sending, clientVars, peeked, gate, packet>>

(* collectMessages returns what it has; an empty packet ends the inner loop. *)
Flush(from) == Goto(from, IF packet THEN "write" ELSE "wait")

(* collectMessages: an awake client is not looked at any closer... *)
GateOpen ==
  /\ Goto("gate", "pop")
  /\ ~ asleep /\ FALSE \in IsThrottled
  /\ gate' = "open"
  /\ UNCHANGED <<queueVars, registered, sending, clientVars, peeked, packet>>

(* ...for another one the first message is peeked at: nil has priority 0. *)
GatePeek ==
  /\ Goto("gate", "judge")
  /\ asleep \/ TRUE \in IsThrottled
  /\ entries' \in StrippedQueues(entries, 0)
  /\ peeked' = IF entries' = <<>> THEN 0 ELSE entries'[1].prio
  /\ UNCHANGED <<dataAvailable, closed, registered, sending, clientVars, gate, packet>>

(* The client is asked again, and the answers may differ by now. *)
Judge ==
  /\ \E limited \in IsThrottled :
       IF (asleep /\ peeked > -10) \/ (limited /\ peeked > 0)
       THEN /\ Flush("judge")
            /\ gate' = IF asleep THEN "sleeping" ELSE "throttled"
       ELSE /\ Goto("judge", "pop")
            /\ gate' = IF asleep THEN "sleeping" ELSE IF limited THEN "throttled" ELSE "open"
  /\ peeked' = 0
  /\ UNCHANGED <<queueVars, registered, sending, clientVars, packet>>

(* PopFirst found nothing current. *)
PopNothing ==
  /\ Flush("pop")
  /\ Usable(entries, 0) = {}
  /\ entries' = <<>>
  /\ UNCHANGED <<dataAvailable, closed, registered, sending, clientVars, peeked, gate, packet>>

(* PopFirst found a message: the packet is full with it, or is not yet. *)
PopMessage ==
  /\ \E q \in StrippedQueues(entries, 0) :
       /\ q # <<>>
       /\ entries' = Tail(q)
  /\ packet' = TRUE
  /\ Goto("pop", "gate") \/ Goto("pop", "write")
  /\ UNCHANGED <<dataAvailable, closed, registered, sending, clientVars, peeked, gate>>

(* Writer().Write succeeds, or fails on a connection that shrugs it off. *)
Write ==
  /\ Goto("write", "check")
  /\ packet' = FALSE /\ gate' = "open"
  /\ UNCHANGED <<queueVars, registered, sending, clientVars, peeked>>

(* Writer().Write fails: tcpConnection.OnError closes socket and queue... *)
WriteError ==
  /\ ClosesOnError
  /\ Goto("write", "unregister")
  /\ CloseQueue
  /\ UNCHANGED <<entries, registered, sending, clientVars, peeked, gate, packet>>

(* ...and onConnectionClosed takes the connection out of the map. *)
OnConnectionClosed ==
  /\ Goto("unregister", "check")
  /\ NetMutexFree
  /\ registered' = FALSE
  /\ UNCHANGED <<queueVars, sending, clientVars, peeked, gate, packet>>

Writer ==
  \/ WaitForData \/ CheckClosed \/ GateOpen \/ GatePeek \/ Judge
  \/ PopNothing \/ PopMessage \/ Write \/ WriteError \/ OnConnectionClosed

Next ==
  \/ \E prio \in Prios : SendMsg(prio)
  \/ FinishPut \/ RemoveClient \/ Tick
  \/ Unreachable \/ FallAsleep \/ WakeUp \/ Unthrottle
  \/ Writer

(***************************************************************************)
(* The goroutines run: the writer's steps are weakly fair, and netMutex is *)
(* handed to a waiter eventually (Go's mutex starves nobody), so taking it *)
(* is strongly fair.  heartBeatSender sends every second.  Nothing is      *)
(* assumed of the client, of the clock or of any other message.            *)
(***************************************************************************)
Fairness ==
  /\ WF_vars(Writer)
  /\ SF_vars(OnConnectionClosed)
  /\ WF_vars(FinishPut)
  /\ SF_vars(SendMsg(Heartbeat))

Spec == Init /\ [][Next]_vars /\ Fairness
-----------------------------------------------------------------------------
(* Every variable has its type. *)
TypeOK ==
  /\ entries \in Seq(Entry) /\ Len(entries) <= PruneAbove
  /\ {dataAvailable, closed, registered, asleep, throttled, packet} \subseteq BOOLEAN
  /\ sending \in Seq(Prios) /\ Len(sending) <= 1
  /\ kind \in Kinds /\ pc \in Pcs
  /\ peeked \in Prios \cup {0}
  /\ gate \in Gates

(***************************************************************************)
(* No wake-up is lost: a writer that waits without a token has nothing to  *)
(* send that it has not itself held back for a sleeping or throttled       *)
(* client.  The token is one place for any number of Puts, and Put may     *)
(* come between any two steps of the writer.                               *)
(***************************************************************************)
NoLostWakeup ==
  pc = "wait" /\ ~ dataAvailable /\ Usable(entries, 0) # {} => gate # "open"

(***************************************************************************)
(* What was held back is looked at again: a writer never waits for ever    *)
(* over a queue with a current message, also when the client wakes up      *)
(* without any message to tell the writer so.                              *)
(***************************************************************************)
HeldBackIsRetried ==
  (pc = "wait" /\ Usable(entries, 0) # {}) ~> (pc # "wait" \/ Usable(entries, 0) = {})

(***************************************************************************)
(* A connection that is closed goes away completely: its goroutine ends    *)
(* and it leaves the map, wherever the writer was and whoever sends.       *)
(***************************************************************************)
ClosedIsCleanedUp == closed ~> (pc = "done" /\ ~ registered)
=============================================================================
