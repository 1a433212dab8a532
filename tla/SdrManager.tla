----------------------------- MODULE SdrManager -----------------------------
(***************************************************************************)
(* The radio receivers (main/sdr.go).  sdrWatcher looks once a second at   *)
(* the kill switch, at the four shutdown flags and at the settings, and    *)
(* shuts down, creates and assigns the devices of the four bands.  Each    *)
(* device has a read goroutine: UAT samples the dongle in the program, ES, *)
(* OGN and AIS run a child process that opens the dongle itself, and a     *)
(* second goroutine that kills the child when closeCh is closed.           *)
(*                                                                         *)
(* A device pointer is modelled by an instance: the band and one of two    *)
(* slots, so that a device of which something still runs and the next one  *)
(* of the band can be told apart.  `at' walks over the bands in the order  *)
(* of the code in the phases that look at devices, and over the dongles in *)
(* the phase that assigns the tagged ones.                                 *)
(***************************************************************************)
EXTENDS Integers, FiniteSets, Sequences

CONSTANTS
  MaxDongles,   (* dongles plugged in at most; the code uses the first 3    *)
  Tags,         (* what a serial number says: a band, or "anon"             *)
  UserBands,    (* the bands the user ever enables                          *)
  MaxFaults,    (* bound: crashes, failing starts, opens and reads, and     *)
                (*   lines on the stderr of a Ping's helper                 *)
  MaxChanges    (* bound: changes of the settings or of what is plugged in  *)

Bands == {"UAT", "ES", "OGN", "AIS"}
Order == <<"UAT", "ES", "OGN", "AIS">>
Dongles == 1..MaxDongles

ASSUME SdrAssumption ==
  /\ MaxDongles \in 1..4 /\ MaxFaults \in Nat /\ MaxChanges \in Nat
  /\ Tags \subseteq Bands \cup {"anon"} /\ Tags # {}
  /\ UserBands \subseteq Bands

VARIABLES
  want,         (* the settings and the hardware as they are now            *)
  tag,          (* the serial number of each dongle                         *)
  prev,         (* prevCount, prevUATEnabled, ... of the watcher            *)
  cap,          (* the settings captured in the pass under way              *)
  phase, at,    (* where the watcher is                                     *)
  unused,       (* unusedIDs of configDevices                               *)
  flag,         (* shutdownUAT, shutdownES, shutdownOGN, shutdownAIS        *)
  sdrShutdown,
  dev,          (* slot of UATDev, ESDev, OGNDev, AISDev; 0 is nil          *)
  inst,         (* the devices                                              *)
  faults, changes

vars == <<want, tag, prev, cap, phase, at, unused, flag, sdrShutdown, dev,
          inst, faults, changes>>
watcher == <<prev, cap, phase, at, unused, dev, sdrShutdown>>
environment == <<want, tag, changes>>

Instances == Bands \X {1, 2}
Band(i) == i[1]

(* idx: the dongle; closed: closeCh; wg: the WaitGroup; pc: the read       *)
(* goroutine; proc: the child runs; auto: autoRestart; open: the UAT       *)
(* handle.                                                                 *)
NoDevice == [idx |-> 0, closed |-> FALSE, wg |-> 0, pc |-> "none",
             proc |-> FALSE, auto |-> FALSE, open |-> FALSE]

Pcs == {"none", "poll", "sample", "clock", "start", "failed", "running",
        "exited", "backoff"}

(* tuned: the transmit switch of OGN and the gain of 1090 MHz, which the   *)
(* watcher only compares.                                                  *)
Unplugged == [enabled |-> {}, count |-> 0, radio |-> FALSE, tuned |-> FALSE]
Settings == [enabled : SUBSET UserBands, count : 0..MaxDongles,
             radio : BOOLEAN, tuned : BOOLEAN]

Init ==
  /\ want \in [enabled : {UserBands}, count : 0..MaxDongles,
              radio : {FALSE}, tuned : {FALSE}]
  /\ tag \in [Dongles -> Tags]
  /\ prev = Unplugged /\ cap = Unplugged
  /\ phase = "sleep" /\ at = 1 /\ unused = {}
  /\ flag = [b \in Bands |-> FALSE]
  /\ sdrShutdown = FALSE
  /\ dev = [b \in Bands |-> 0]
  /\ inst = [i \in Instances |-> NoDevice]
  /\ faults = 0 /\ changes = 0

Fault == faults < MaxFaults /\ faults' = faults + 1

(* Something of the device exists: a reader, a child, or an open handle. *)
Alive(i) == inst[i].pc # "none" \/ inst[i].proc \/ inst[i].open
Using(i) == inst[i].proc \/ inst[i].open
-----------------------------------------------------------------------------
(* One setting of the user, one dongle, or the 978 MHz serial radio. *)
OneChange(s) ==
  {[s EXCEPT !.enabled = (@ \cup {b}) \ (@ \cap {b})] : b \in UserBands}
    \cup {[s EXCEPT !.count = n] : n \in {s.count - 1, s.count + 1}}
    \cup {[s EXCEPT !.radio = ~ @], [s EXCEPT !.tuned = ~ @]}

Change ==
  /\ changes < MaxChanges /\ changes' = changes + 1
  /\ want' \in OneChange(want) \cap Settings
  /\ UNCHANGED <<tag, flag, inst, faults, watcher>>

(* sdrKill: set the switch; it then waits for the four pointers to be nil. *)
SdrKill ==
  /\ ~ sdrShutdown /\ sdrShutdown' = TRUE
  /\ UNCHANGED <<environment, prev, cap, phase, at, unused, flag, dev, inst,
                 faults>>

(* pingNetworkRepeater, pongNetworkRepeater: a line on the stderr of their *)
(* helper takes the 1090 MHz receiver down.                                *)
PingStderr ==
  /\ Fault /\ ~ flag["ES"]
  /\ flag' = [flag EXCEPT !["ES"] = TRUE]
  /\ UNCHANGED <<environment, inst, watcher>>
-----------------------------------------------------------------------------
(* The watcher. *)
Wake ==
  /\ phase = "sleep"
  /\ phase' = (IF sdrShutdown THEN "killing" ELSE "flags") /\ at' = 1
  /\ UNCHANGED <<environment, prev, cap, unused, flag, sdrShutdown, dev, inst,
                 faults>>

DevicePhases == {"killing", "flags", "closing"}
AfterDevices == [killing |-> "gone", flags |-> "capture", closing |-> "tagged"]

(* To the next band, or out of the phase. *)
NextBand ==
  IF at < Len(Order) THEN at' = at + 1 /\ phase' = phase
                     ELSE at' = 1 /\ phase' = AfterDevices[phase]

(* The band the watcher looks at, and its device. *)
Here == Order[at]
Device(b) == <<b, dev[b]>>
Asked == phase = "flags" => flag[Here]
ClearFlag == flag' = IF phase = "flags" THEN [flag EXCEPT ![Here] = FALSE]
                                        ELSE flag

(* No device to shut down, or nobody asked for it. *)
SkipBand ==
  /\ phase \in DevicePhases
  /\ dev[Here] = 0 \/ ~ Asked
  /\ NextBand /\ ClearFlag
  /\ UNCHANGED <<environment, prev, cap, unused, sdrShutdown, dev, inst, faults>>

(* shutdown: close(closeCh) ... *)
CloseChannel ==
  /\ phase \in DevicePhases /\ dev[Here] # 0 /\ Asked
  /\ ~ inst[Device(Here)].closed
  /\ inst' = [inst EXCEPT ![Device(Here)].closed = TRUE]
  /\ UNCHANGED <<environment, flag, faults, watcher>>

(* ... wg.Wait() ... *)
Waited(i) == inst[i].wg = 0

(* ... and, of UAT, dev.Close().  The pointer becomes nil, then the flag   *)
(* is cleared.                                                             *)
EndShutdown ==
  /\ phase \in DevicePhases /\ dev[Here] # 0
  /\ inst[Device(Here)].closed /\ Waited(Device(Here))
  /\ LET i == Device(Here) IN
       inst' = [inst EXCEPT ![i] =
                  IF @.pc = "none" /\ ~ @.proc THEN NoDevice
                                               ELSE [@ EXCEPT !.open = FALSE]]
  /\ dev' = [dev EXCEPT ![Here] = 0]
  /\ NextBand /\ ClearFlag
  /\ UNCHANGED <<environment, prev, cap, unused, sdrShutdown, faults>>
-----------------------------------------------------------------------------
(* The number of receivers that is compared with prevCount: the dongles    *)
(* and the serial radio together.                                          *)
InterfaceCount(s) == s.count + (IF s.radio THEN 1 ELSE 0)
Unchanged(s, t) ==
  /\ InterfaceCount(s) = InterfaceCount(t)
  /\ s.enabled = t.enabled /\ s.tuned = t.tuned

(* The settings are read once per pass and compared with the last pass's. *)
Capture ==
  /\ phase = "capture"
  /\ IF Unchanged(want, prev)
     THEN phase' = "sleep" /\ cap' = prev
     ELSE phase' = "closing" /\ cap' = want
  /\ UNCHANGED <<environment, prev, at, unused, flag, sdrShutdown, dev, inst,
                 faults>>

Enabled(b) == b \in cap.enabled /\ dev[b] = 0
FreeSlot(b) == CHOOSE s \in {1, 2} : ~ Alive(<<b, s>>)
FirstPc(b) == CASE b = "UAT" -> "poll" [] b = "OGN" -> "clock" [] OTHER -> "start"

(* createXDev.  Only sdrConfig of UAT, which opens the dongle, can fail.   *)
Create(b, d) ==
  LET i == <<b, FreeSlot(b)>>
  IN \/ /\ dev' = [dev EXCEPT ![b] = i[2]]
        /\ inst' = [inst EXCEPT ![i] =
                      [NoDevice EXCEPT !.idx = d, !.wg = 1, !.pc = FirstPc(b),
                                       !.open = (b = "UAT")]]
        /\ UNCHANGED faults
     \/ b = "UAT" /\ Fault /\ UNCHANGED <<dev, inst>>

(* Loop 1 takes the dongles in order; a dongle whose tag is that of an     *)
(* enabled band without a device goes to that band, also when creating the *)
(* device fails; one that is gone again is left out.                       *)
AssignTagged ==
  /\ phase = "tagged" /\ at <= cap.count /\ at <= 3
  /\ IF at > want.count
     THEN UNCHANGED <<dev, inst, faults, unused>>
     ELSE IF tag[at] \in Bands /\ Enabled(tag[at])
          THEN Create(tag[at], at) /\ UNCHANGED unused
          ELSE unused' = unused \cup {at} /\ UNCHANGED <<dev, inst, faults>>
  /\ at' = at + 1
  /\ UNCHANGED <<environment, prev, cap, phase, flag, sdrShutdown>>

AllTagged ==
  /\ phase = "tagged" /\ (at > cap.count \/ at > 3)
  /\ phase' = "spare" /\ at' = 1
  /\ UNCHANGED <<environment, prev, cap, unused, flag, sdrShutdown, dev, inst,
                 faults>>

(* The bands loop 2 would give dongle d to. *)
MayUse(b, d) ==
  /\ Enabled(b)
  /\ b = "UAT" => ~ want.radio /\ tag[d] \notin {"ES", "OGN"}
  /\ b = "ES" => tag[d] \notin {"UAT", "OGN"}

(* Loop 2 takes the others in the random order of a map; the first band of *)
(* the order that may have the dongle gets it.                             *)
AssignSpare ==
  /\ phase = "spare"
  /\ \E d \in unused :
       /\ unused' = unused \ {d}
       /\ LET k == {n \in DOMAIN Order : MayUse(Order[n], d)}
          IN IF k = {} THEN UNCHANGED <<dev, inst, faults>>
             ELSE Create(Order[CHOOSE n \in k : \A m \in k : n <= m], d)
  /\ UNCHANGED <<environment, prev, cap, phase, at, flag, sdrShutdown>>

EndPass ==
  /\ phase = "spare" /\ unused = {}
  /\ phase' = "sleep" /\ prev' = cap
  /\ UNCHANGED <<environment, cap, at, unused, flag, sdrShutdown, dev, inst,
                 faults>>
-----------------------------------------------------------------------------
(* The readers. *)
Set(i, r) == inst' = [inst EXCEPT ![i] = r]
Request(b) == flag' = [flag EXCEPT ![b] = TRUE]

(* The read goroutine returns: wg.Done(). *)
Ended(r) == [r EXCEPT !.pc = "none", !.wg = @ - 1]

(* Mutant: a reader whose child did not start does not look at closeCh. *)
SeeClosedUnlessFailed(i) ==
  /\ inst[i].pc \in {"poll", "clock"} /\ inst[i].closed
  /\ Set(i, Ended(inst[i]))
  /\ UNCHANGED <<environment, flag, faults, watcher>>

(* A closed closeCh ends the reader where it looks for it: that of OGN     *)
(* only while it waits for the clock.                                      *)
SeeClosed(i) ==
  /\ inst[i].pc \in {"poll", "clock", "failed"} /\ inst[i].closed
  /\ Set(i, Ended(inst[i]))
  /\ UNCHANGED <<environment, flag, faults, watcher>>

(* UAT: ReadSync, and the samples to godump978. *)
StartRead(i) ==
  /\ inst[i].pc = "poll" /\ ~ inst[i].closed
  /\ Set(i, [inst[i] EXCEPT !.pc = "sample"])
  /\ UNCHANGED <<environment, flag, faults, watcher>>

EndRead(i) ==
  /\ inst[i].pc = "sample"
  /\ Set(i, [inst[i] EXCEPT !.pc = "poll"])
  /\ UNCHANGED <<environment, flag, faults, watcher>>

FailRead(i) ==
  /\ inst[i].pc = "sample" /\ Fault
  /\ Set(i, [inst[i] EXCEPT !.pc = "poll"])
  /\ Request("UAT")
  /\ UNCHANGED <<environment, watcher>>

(* OGN: the time of the GPS is valid, or has become so.  A reader that     *)
(* finds it valid does not look at closeCh: it goes on to start a child    *)
(* also when its device is being shut down.                                *)
ClockValid(i) ==
  /\ inst[i].pc = "clock"
  /\ Set(i, [inst[i] EXCEPT !.pc = "start"])
  /\ UNCHANGED <<environment, flag, faults, watcher>>

StartChild(i) ==
  /\ inst[i].pc = "start"
  /\ Set(i, [inst[i] EXCEPT !.pc = "running", !.proc = TRUE, !.auto = TRUE])
  /\ UNCHANGED <<environment, flag, faults, watcher>>

(* The flag a reader sets when its child does not start; AIS sets ES's. *)
FlagOf(b) == IF b = "AIS" THEN "ES" ELSE b

FailStart(i) ==
  /\ inst[i].pc = "start" /\ Fault
  /\ Set(i, [inst[i] EXCEPT !.pc = "failed"])
  /\ Request(FlagOf(Band(i)))
  /\ UNCHANGED <<environment, watcher>>

Crash(i) ==
  /\ inst[i].proc /\ Fault
  /\ Set(i, [inst[i] EXCEPT !.proc = FALSE])
  /\ UNCHANGED <<environment, flag, watcher>>

(* The killing goroutine sees closeCh: autoRestart = false, Process.Kill. *)
(* It may see it after the child has ended by itself.                     *)
Kill(i) ==
  /\ inst[i].pc \in {"running", "exited"} /\ inst[i].closed /\ inst[i].auto
  /\ Set(i, [inst[i] EXCEPT !.auto = FALSE, !.proc = FALSE])
  /\ UNCHANGED <<environment, flag, faults, watcher>>

(* cmd.Wait returns, and done is closed. *)
ChildEnded(i) ==
  /\ inst[i].pc = "running" /\ ~ inst[i].proc
  /\ Set(i, [inst[i] EXCEPT !.pc = "exited"])
  /\ UNCHANGED <<environment, flag, faults, watcher>>

(* Mutant: copied to OGN without its restart, as it was to AIS. *)
RestartsOnlyEs(i) == Band(i) = "ES" /\ inst[i].auto /\ ~ flag[Band(i)]

(* A child that was not killed is restarted after 5 s, if no one has asked *)
(* for the device's end; that of AIS is not.                               *)
Restarts(i) == Band(i) # "AIS" /\ inst[i].auto /\ ~ flag[Band(i)]

AfterChild(i) ==
  /\ inst[i].pc = "exited"
  /\ Set(i, IF Restarts(i) THEN [inst[i] EXCEPT !.pc = "backoff"]
                           ELSE Ended(inst[i]))
  /\ UNCHANGED <<environment, flag, faults, watcher>>

(* Mutants: the restarted reader is not counted; the old one stays counted. *)
WgUncounted(wg) == wg - 1
WgCountedTwice(wg) == wg + 1

(* wg.Add(1), go read(), and the deferred wg.Done() of the old reader. *)
WgAfterRestart(wg) == wg + 1 - 1

Restart(i) ==
  /\ inst[i].pc = "backoff"
  /\ Set(i, [inst[i] EXCEPT !.pc = FirstPc(Band(i)),
                            !.wg = WgAfterRestart(@)])
  /\ UNCHANGED <<environment, flag, faults, watcher>>
-----------------------------------------------------------------------------
WatcherStep ==
  \/ Wake \/ SkipBand \/ CloseChannel \/ EndShutdown \/ Capture
  \/ AssignTagged \/ AllTagged \/ AssignSpare \/ EndPass

(* What the goroutines of a device do by themselves. *)
Progress(i) ==
  \/ SeeClosed(i) \/ StartRead(i) \/ EndRead(i) \/ StartChild(i)
  \/ Kill(i) \/ ChildEnded(i) \/ AfterChild(i) \/ Restart(i)

Next ==
  \/ WatcherStep \/ Change \/ SdrKill \/ PingStderr
  \/ \E i \in Instances :
       Progress(i) \/ FailRead(i) \/ ClockValid(i) \/ FailStart(i) \/ Crash(i)

(* The Go scheduler runs every goroutine that can run, a one-second sleep  *)
(* ends, ReadSync returns and the child dies of the signal.  Nothing makes *)
(* the user, a fault or the GPS clock happen.                              *)
Fairness ==
  /\ WF_vars(WatcherStep)
  /\ \A i \in Instances : WF_vars(Progress(i)) /\ WF_vars(Kill(i))

Spec == Init /\ [][Next]_vars /\ Fairness
-----------------------------------------------------------------------------
Devices ==
  [idx : 0..MaxDongles, closed : BOOLEAN, wg : 0..1, pc : Pcs,
   proc : BOOLEAN, auto : BOOLEAN, open : BOOLEAN]

TypeOK ==
  /\ want \in Settings /\ tag \in [Dongles -> Tags]
  /\ prev \in Settings /\ cap \in Settings
  /\ phase \in {"sleep", "flags", "capture", "closing", "tagged", "spare",
                "killing", "gone"}
  /\ at \in 1..5 /\ unused \subseteq Dongles
  /\ flag \in [Bands -> BOOLEAN] /\ sdrShutdown \in BOOLEAN
  /\ dev \in [Bands -> 0..2]
  /\ inst \in [Instances -> Devices]
  /\ faults \in 0..MaxFaults /\ changes \in 0..MaxChanges

(* Two receivers never have the same dongle or the same band: a device is  *)
(* created only when the child or the handle of the one before it is gone, *)
(* over restarts of crashed children, flags and changes of settings.       *)
ExclusiveUse ==
  \A i, j \in Instances : i # j /\ Using(i) /\ Using(j) =>
    inst[i].idx # inst[j].idx /\ Band(i) # Band(j)

(* After sdrKill the watcher ends, every device is shut down and no child  *)
(* or handle is left, whatever crashed, failed or restarted meanwhile.     *)
Stopped ==
  phase = "gone" /\ (\A b \in Bands : dev[b] = 0)
                 /\ \A i \in Instances : ~ Alive(i)
SdrKillEnds == sdrShutdown ~> []Stopped

(* A band whose child has crashed gets it back, has its device shut down,  *)
(* or waits for the GPS clock for good: once the clock is valid it is not  *)
(* left with a device and no child.                                        *)
ComesBack(b) ==
  \A s \in {1, 2} : LET i == <<b, s>> IN
    (dev[b] = s /\ inst[i].pc = "running" /\ ~ inst[i].proc)
      ~> (inst[i].proc \/ dev[b] # s \/ [](inst[i].pc = "clock"))

(* The child of ES or OGN that crashes is restarted.                       *)
CrashIsRepaired == ComesBack("ES") /\ ComesBack("OGN")
=============================================================================
