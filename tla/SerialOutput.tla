---------------------------- MODULE SerialOutput ----------------------------
(***************************************************************************)
(* The life of one serial output device (network.go, serialOutWatcher and  *)
(* closeSerial; clientconnection.go, serialConnection): it is plugged in   *)
(* and out, opened by the watcher, written to by the connectionWriter of   *)
(* each opening, and closed by a failing write or by a change of settings. *)
(*                                                                         *)
(* Each opening is a serialConnection of its own, identified by a member   *)
(* of Conns that can be used again when nothing of it can run.  All of     *)
(* them have one key in clientConnections, the device's name.  The body of *)
(* the watcher, closeSerial and the delete of onConnectionClosed are each  *)
(* one critical section of netMutex, so each is one action; the rest of    *)
(* Close holds no mutex.                                                   *)
(*                                                                         *)
(* IsSleeping is serialPort == nil, and nothing sets serialPort back to    *)
(* nil: for a connection in the map it is always false, and the branch of  *)
(* the watcher that replaces a sleeping connection is never taken.         *)
(***************************************************************************)
EXTENDS Integers, FiniteSets

CONSTANTS
  Conns,        (* identities for the openings of the device                *)
  NoConn,       (* the device's key is not in clientConnections             *)
  SharedQueue,  (* TRUE: the watcher detected the device in this run of the *)
                (*   program and SerialOutputs holds the queue it made;     *)
                (* FALSE: SerialOutputs was read from the settings file,    *)
                (*   without a queue, and every opening makes its own       *)
  Prompt        (* a closed connection's Close and goroutine have ended     *)
                (*   before the watcher's 10 s ticker opens the device      *)
                (*   again; FALSE where closing the port may block longer   *)

ASSUME SerialAssumption ==
  /\ NoConn \notin Conns
  /\ SharedQueue \in BOOLEAN /\ Prompt \in BOOLEAN

VARIABLES
  present,      (* does the device file exist                               *)
  mapped,       (* clientConnections[dev]                                   *)
  port,         (* of each connection: "closed", "open", or "stale" (open,  *)
                (*   but the adapter behind it was pulled)                  *)
  queueClosed,  (* is the MessageQueue of the connection closed             *)
  token,        (* is there a token in its DataAvailable                    *)
  writer,       (* where the connection's writer goroutine is               *)
  closer        (* where the go conn.Close() of the connection is           *)

vars == <<present, mapped, port, queueClosed, token, writer, closer>>

(* Close: close the port, close the queue, then onConnectionClosed. *)
CloseSteps == {"port", "queue", "unmap"}
WriterPcs == {"none", "wait", "check", "write"} \cup CloseSteps
CloserPcs == {"none"} \cup CloseSteps

Init ==
  /\ present = FALSE
  /\ mapped = NoConn
  /\ port = [c \in Conns |-> "closed"]
  /\ queueClosed = [c \in Conns |-> FALSE]
  /\ token = [c \in Conns |-> FALSE]
  /\ writer = [c \in Conns |-> "none"]
  /\ closer = [c \in Conns |-> "none"]

(* The connections whose queue is that of c. *)
QueueOf(c) == IF SharedQueue THEN Conns ELSE {c}

SetQueue(f, c, v) == [d \in Conns |-> IF d \in QueueOf(c) THEN v ELSE f[d]]

(* A goroutine blocked on a closed queue without a token never runs again. *)
Stuck(c) == writer[c] = "wait" /\ queueClosed[c] /\ ~ token[c]

Unused(c) ==
  /\ writer[c] = "none" \/ Stuck(c)
  /\ closer[c] = "none" /\ port[c] = "closed" /\ mapped # c
-----------------------------------------------------------------------------
PlugIn ==
  /\ ~ present
  /\ present' = TRUE
  /\ UNCHANGED <<mapped, port, queueClosed, token, writer, closer>>

(* The port stays open in the program; writes to it fail from now on. *)
Unplug ==
  /\ present
  /\ present' = FALSE
  /\ port' = [c \in Conns |-> IF port[c] = "open" THEN "stale" ELSE port[c]]
  /\ UNCHANGED <<mapped, queueClosed, token, writer, closer>>

(***************************************************************************)
(* One tick of serialOutWatcher that opens the device.  Whether the output *)
(* is disabled is no part of the guard: a Capability of 0 is turned into   *)
(* GDL90, in the watcher's copy of the settings, just before the test for  *)
(* it, which never holds.  A failed OpenPort changes nothing.              *)
(***************************************************************************)
WatcherOpens(c) ==
  /\ present
  /\ mapped = NoConn
  /\ Unused(c)
  /\ Prompt => \A d \in Conns : Unused(d)
  /\ mapped' = c
  /\ port' = [port EXCEPT ![c] = "open"]
  /\ writer' = [writer EXCEPT ![c] = "wait"]
  /\ IF SharedQueue
     THEN UNCHANGED <<queueClosed, token>>
     ELSE /\ queueClosed' = [queueClosed EXCEPT ![c] = FALSE]
          /\ token' = [token EXCEPT ![c] = FALSE]
  /\ UNCHANGED <<present, closer>>

(* Mutant: whether the device is in the map is not looked at.              *)
ChangeSettingsUnchecked ==
  /\ closer' = [c \in Conns \cup {mapped} |-> IF c = mapped THEN "port" ELSE closer[c]]
  /\ mapped' = NoConn
  /\ UNCHANGED <<present, port, queueClosed, token, writer>>

(* Mutant: the connection is taken out of the map but nobody closes it.    *)
ChangeSettingsForgets ==
  /\ mapped' = NoConn
  /\ UNCHANGED <<present, port, queueClosed, token, writer, closer>>

(* The settings page: Capability or Baud of the output, then closeSerial. *)
ChangeSettings ==
  /\ closer' = IF mapped = NoConn THEN closer ELSE [closer EXCEPT ![mapped] = "port"]
  /\ mapped' = NoConn
  /\ UNCHANGED <<present, port, queueClosed, token, writer>>

(* sendMsg: Put on the queue of the connection in the map. *)
SendMsg ==
  /\ mapped # NoConn
  /\ ~ queueClosed[mapped]
  /\ token' = SetQueue(token, mapped, TRUE)
  /\ UNCHANGED <<present, mapped, port, queueClosed, writer, closer>>
-----------------------------------------------------------------------------
WriterGoto(c, from, to) == writer[c] = from /\ writer' = [writer EXCEPT ![c] = to]

WriterWakes(c) ==
  /\ WriterGoto(c, "wait", "check")
  /\ token[c]
  /\ token' = SetQueue(token, c, FALSE)
  /\ UNCHANGED <<present, mapped, port, queueClosed, closer>>

(* The queue is closed: the goroutine ends.  Otherwise it collects messages. *)
WriterChecks(c) ==
  /\ WriterGoto(c, "check", IF queueClosed[c] THEN "none" ELSE "write")
  /\ UNCHANGED <<present, mapped, port, queueClosed, token, closer>>

(* The write succeeds, or there was nothing to write. *)
WriterWrites(c) ==
  /\ port[c] = "open"
  /\ WriterGoto(c, "write", "wait") \/ WriterGoto(c, "write", "check")
  /\ UNCHANGED <<present, mapped, port, queueClosed, token, closer>>

(* The write fails: OnError is Close, run by the writer. *)
WriterFails(c) ==
  /\ port[c] # "open"
  /\ WriterGoto(c, "write", "port")
  /\ UNCHANGED <<present, mapped, port, queueClosed, token, closer>>

(***************************************************************************)
(* The three steps of serialConnection.Close, run by the writer (w) or by  *)
(* a goroutine of its own; both may run it, one after the other or mixed,  *)
(* since the port of a connection is never nil.                            *)
(***************************************************************************)
CloserGoto(c, w, from, to) ==
  IF w THEN WriterGoto(c, from, to) /\ UNCHANGED closer
       ELSE /\ closer[c] = from
            /\ closer' = [closer EXCEPT ![c] = to]
            /\ UNCHANGED writer

ClosePort(c, w) ==
  /\ CloserGoto(c, w, "port", "queue")
  /\ port' = [port EXCEPT ![c] = "closed"]
  /\ UNCHANGED <<present, mapped, queueClosed, token>>

(* Mutant: a writer waiting for data is not told.                          *)
CloseQueueSilently(c, w) ==
  /\ CloserGoto(c, w, "queue", "unmap")
  /\ queueClosed' = SetQueue(queueClosed, c, TRUE)
  /\ UNCHANGED <<present, mapped, port, token>>

CloseQueue(c, w) ==
  /\ CloserGoto(c, w, "queue", "unmap")
  /\ queueClosed' = SetQueue(queueClosed, c, TRUE)
  /\ token' = IF queueClosed[c] THEN token ELSE SetQueue(token, c, TRUE)
  /\ UNCHANGED <<present, mapped, port>>

(* Mutant: the connection stays in the map.                                *)
OnConnectionClosedKeeps(c, w) ==
  /\ CloserGoto(c, w, "unmap", IF w THEN "check" ELSE "none")
  /\ UNCHANGED <<present, mapped, port, queueClosed, token>>

(* onConnectionClosed deletes the key, whichever connection it maps to. *)
OnConnectionClosed(c, w) ==
  /\ CloserGoto(c, w, "unmap", IF w THEN "check" ELSE "none")
  /\ mapped' = NoConn
  /\ UNCHANGED <<present, port, queueClosed, token>>

Close(c, w) == ClosePort(c, w) \/ CloseQueue(c, w) \/ OnConnectionClosed(c, w)

Writer(c) ==
  WriterWakes(c) \/ WriterChecks(c) \/ WriterWrites(c) \/ WriterFails(c) \/ Close(c, TRUE)

Closer(c) == Close(c, FALSE)

Next ==
  \/ PlugIn \/ Unplug \/ SendMsg \/ ChangeSettings
  \/ \E c \in Conns : WatcherOpens(c) \/ Writer(c) \/ Closer(c)

(***************************************************************************)
(* Goroutines run, the ticker of the watcher fires, messages are sent (the *)
(* heartbeat, every second).  Nothing is assumed of the user.              *)
(***************************************************************************)
Fairness ==
  /\ \A c \in Conns : WF_vars(Writer(c)) /\ WF_vars(Closer(c))
  /\ WF_vars(\E c \in Conns : WatcherOpens(c))
  /\ WF_vars(SendMsg)

Spec == Init /\ [][Next]_vars /\ Fairness
-----------------------------------------------------------------------------
(* Every variable has its type. *)
TypeOK ==
  /\ present \in BOOLEAN
  /\ mapped \in Conns \cup {NoConn}
  /\ port \in [Conns -> {"closed", "open", "stale"}]
  /\ queueClosed \in [Conns -> BOOLEAN]
  /\ token \in [Conns -> BOOLEAN]
  /\ writer \in [Conns -> WriterPcs]
  /\ closer \in [Conns -> CloserPcs]

Closing(c) == closer[c] # "none" \/ writer[c] \in CloseSteps

(***************************************************************************)
(* Nothing is forgotten: an open port is the one in the map, or somebody   *)
(* is about to close it.  Deleting by key could drop the successor of the  *)
(* connection that is being closed.                                        *)
(***************************************************************************)
NoOrphan == \A c \in Conns : port[c] # "closed" => mapped = c \/ Closing(c)

(***************************************************************************)
(* Each closed connection's goroutine ends, so its identity can be used    *)
(* again, whatever it was doing when the connection was closed.            *)
(***************************************************************************)
ClosedWritersEnd ==
  \A c \in Conns : closer[c] # "none" ~> (writer[c] = "none" /\ port[c] = "closed")

(* A goroutine serves the device through a port that works. *)
Served ==
  /\ mapped # NoConn
  /\ port[mapped] = "open" /\ ~ queueClosed[mapped] /\ writer[mapped] # "none"

(***************************************************************************)
(* A device that is there gets its output, also after it was unplugged and *)
(* after its settings changed: "autodetects serial adapters, opens them,   *)
(* and sends the configured protocol".                                     *)
(***************************************************************************)
ServedAgain == present ~> (Served \/ ~ present)
=============================================================================
