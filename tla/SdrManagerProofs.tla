-------------------------- MODULE SdrManagerProofs --------------------------
(***************************************************************************)
(* For any tags, settings, faults and changes, and up to four dongles: the *)
(* types of SdrManager, that no dongle or band has two receivers, and that *)
(* the end of the watcher leaves nothing running, for good.                *)
(***************************************************************************)
EXTENDS SdrManager, TLAPS

(* The device of its band, as the pointer has it. *)
Current(i) == dev[Band(i)] = i[2]

(* Nothing is left of a device the watcher has let go of: it waited for    *)
(* the readers, whose count tells whether one of them runs, and a child    *)
(* runs only under its reader.                                             *)
Counted(r) == (r.wg = 0 <=> r.pc = "none") /\ (r.proc => r.pc = "running")
AllCounted == \A i \in Instances : Counted(inst[i])
NothingLeft == \A i \in Instances : ~ Current(i) => inst[i] = NoDevice

(* Two devices never have the same dongle ... *)
Distinct ==
  \A i, j \in Instances :
    i # j /\ Current(i) /\ Current(j) => inst[i].idx # inst[j].idx

(* ... because a reconfiguration starts with none and goes over the        *)
(* dongles, first all in order and then those that are unused.             *)
Placed ==
  CASE phase = "closing" -> at \in 1..4 /\ \A k \in 1..at - 1 : dev[Order[k]] = 0
    [] phase = "tagged"  -> at \in 1..4 /\ unused \subseteq 1..at - 1
                            /\ \A i \in Instances : Current(i) => inst[i].idx < at
    [] phase \in {"killing", "flags"} -> at \in 1..4
    [] OTHER -> at = 1
Spared ==
  /\ phase \notin {"tagged", "spare"} => unused = {}
  /\ \A i \in Instances : Current(i) => inst[i].idx \notin unused

SdrInv == TypeOK /\ AllCounted /\ NothingLeft /\ Distinct /\ Placed /\ Spared
-----------------------------------------------------------------------------
LEMMA InstanceFacts ==
  ASSUME NEW i \in Instances
  PROVE  i[1] \in Bands /\ i[2] \in {1, 2} /\ i = <<i[1], i[2]>> /\ Band(i) = i[1]
  BY DEF Instances, Band

LEMMA SameBand ==
  ASSUME NEW i \in Instances, NEW j \in Instances, Current(i), Current(j),
         Band(i) = Band(j)
  PROVE  i = j
  BY InstanceFacts DEF Current

LEMMA DeviceFacts ==
  ASSUME TypeOK, NEW b \in Bands, dev[b] # 0
  PROVE  Device(b) \in Instances /\ Band(Device(b)) = b /\ Current(Device(b))
  BY DEF TypeOK, Device, Instances, Band, Current

LEMMA HereIsBand ==
  ASSUME at \in 1..4
  PROVE  Here \in Bands
<1>1. at = 1 \/ at = 2 \/ at = 3 \/ at = 4
  OBVIOUS
<1> QED BY <1>1 DEF Here, Order, Bands

(* What a step of a goroutine of device i does to the invariant: it changes *)
(* nothing but the device, and not its dongle.                              *)
Runs(i) ==
  /\ inst' \in [Instances -> Devices]
  /\ Current(i) /\ Counted(inst'[i]) /\ inst'[i].idx = inst[i].idx
  /\ \A j \in Instances : j # i => inst'[j] = inst[j]

LEMMA RunsKeeps ==
  ASSUME SdrInv, NEW i \in Instances, Runs(i),
         UNCHANGED <<want, tag, changes, prev, cap, phase, at, unused, dev, sdrShutdown>>,
         flag' \in [Bands -> BOOLEAN], faults' \in 0..MaxFaults
  PROVE  SdrInv'
<1> USE DEF SdrInv
<1>1. \A j \in Instances : Current(j)' = Current(j) /\ inst'[j].idx = inst[j].idx
  BY DEF Runs, Current
<1>2. TypeOK'
  BY DEF TypeOK, Runs
<1>3. AllCounted'
  BY DEF AllCounted, Runs
<1>4. NothingLeft'
  BY <1>1 DEF NothingLeft, Runs
<1>5. Distinct'
  BY <1>1 DEF Distinct
<1>6. Placed' /\ Spared'
  BY <1>1 DEF Placed, Spared
<1> QED BY <1>2, <1>3, <1>4, <1>5, <1>6

(* Steps of which the devices notice nothing. *)
LEMMA AsideKeeps ==
  ASSUME SdrInv, UNCHANGED <<inst, dev>>, TypeOK', Placed', Spared'
  PROVE  SdrInv'
<1>1. \A j \in Instances : Current(j)' = Current(j)
  BY DEF Current
<1> QED BY <1>1 DEF SdrInv, AllCounted, NothingLeft, Distinct
-----------------------------------------------------------------------------
(* The goroutines of a device. *)
LEMMA SetRuns ==
  ASSUME SdrInv, NEW i \in Instances, inst[i] # NoDevice,
         NEW r \in Devices, Counted(r), r.idx = inst[i].idx, Set(i, r)
  PROVE  Runs(i)
<1>1. inst' = [inst EXCEPT ![i] = r] /\ inst \in [Instances -> Devices]
  BY DEF Set, SdrInv, TypeOK
<1>2. Current(i)
  BY DEF SdrInv, NothingLeft
<1> QED BY <1>1, <1>2 DEF Runs

LEMMA DeviceTyped ==
  ASSUME SdrInv, NEW i \in Instances
  PROVE  inst[i] \in Devices /\ Counted(inst[i])
  BY DEF SdrInv, TypeOK, AllCounted

LEMMA FaultTyped ==
  ASSUME SdrAssumption, SdrInv, faults' = faults \/ Fault
  PROVE  faults' \in 0..MaxFaults
<1>1. faults \in 0..MaxFaults /\ MaxFaults \in Nat
  BY DEF SdrInv, TypeOK, SdrAssumption
<1> QED BY <1>1 DEF Fault

LEMMA RecountedFits ==
  ASSUME NEW r \in Devices, NEW c \in Pcs, NEW n \in 0..1
  PROVE  /\ [r EXCEPT !.pc = c, !.wg = n] \in Devices
         /\ [r EXCEPT !.pc = c, !.wg = n].idx = r.idx
<1>1. [r EXCEPT !.pc = c] \in Devices /\ [r EXCEPT !.pc = c].idx = r.idx
  BY DEF Devices
<1> DEFINE t == [r EXCEPT !.pc = c]
<1>2. [t EXCEPT !.wg = n] \in Devices /\ [t EXCEPT !.wg = n].idx = t.idx
  BY <1>1 DEF Devices
<1>3. [t EXCEPT !.wg = n] = [r EXCEPT !.pc = c, !.wg = n]
  OBVIOUS
<1> QED BY <1>1, <1>2, <1>3

LEMMA EndedFits ==
  ASSUME NEW r \in Devices, Counted(r), r.pc # "none", r.pc # "running"
  PROVE  Ended(r) \in Devices /\ Counted(Ended(r)) /\ Ended(r).idx = r.idx
<1>1. r.wg = 1 /\ r.proc = FALSE
  BY DEF Devices, Counted
<1>2. r.wg - 1 = 0
  BY <1>1
<1>3. Ended(r) = [r EXCEPT !.pc = "none", !.wg = 0]
  BY <1>2 DEF Ended
<1>4. Ended(r) \in Devices /\ Ended(r).idx = r.idx
  <2>1. "none" \in Pcs /\ 0 \in 0..1
    BY DEF Pcs
  <2>2. [r EXCEPT !.pc = "none", !.wg = 0] \in Devices
        /\ [r EXCEPT !.pc = "none", !.wg = 0].idx = r.idx
    BY <2>1, RecountedFits
  <2> QED BY <1>3, <2>2
<1>5. Ended(r).wg = 0 /\ Ended(r).pc = "none" /\ Ended(r).proc = FALSE
  BY <1>1, <1>3 DEF Devices
<1> QED BY <1>4, <1>5 DEF Counted

LEMMA MovedFits ==
  ASSUME NEW r \in Devices, Counted(r), r.pc # "none", r.pc # "running",
         NEW c \in Pcs \ {"none", "running"}
  PROVE  LET t == [r EXCEPT !.pc = c]
         IN  t \in Devices /\ Counted(t) /\ t.idx = r.idx
  BY DEF Devices, Counted, Pcs

LEMMA ReaderKeeps ==
  ASSUME SdrAssumption, SdrInv, NEW i \in Instances,
         Progress(i) \/ FailRead(i) \/ ClockValid(i) \/ FailStart(i) \/ Crash(i)
  PROVE  SdrInv'
<1>1. inst[i] \in Devices /\ Counted(inst[i])
  BY DeviceTyped
<1>2. flag \in [Bands -> BOOLEAN] /\ Band(i) \in Bands
  BY InstanceFacts DEF SdrInv, TypeOK
<1>3. flag' \in [Bands -> BOOLEAN] /\ faults' \in 0..MaxFaults
  <2>1. \A b \in Bands : Request(b) => flag' \in [Bands -> BOOLEAN]
    BY <1>2 DEF Request
  <2>2. FlagOf(Band(i)) \in Bands /\ "UAT" \in Bands
    BY <1>2 DEF FlagOf, Bands
  <2>3. faults' = faults \/ Fault
    BY DEF Progress, SeeClosed, StartRead, EndRead, StartChild, Kill, ChildEnded,
           AfterChild, Restart, FailRead, ClockValid, FailStart, Crash
  <2>4. flag' = flag \/ \E b \in Bands : Request(b)
    BY <2>2 DEF Progress, SeeClosed, StartRead, EndRead, StartChild, Kill, ChildEnded,
           AfterChild, Restart, FailRead, ClockValid, FailStart, Crash
  <2> QED BY <1>2, <2>1, <2>3, <2>4, FaultTyped
<1>4. UNCHANGED <<want, tag, changes, prev, cap, phase, at, unused, dev, sdrShutdown>>
  BY DEF Progress, SeeClosed, StartRead, EndRead, StartChild, Kill, ChildEnded,
         AfterChild, Restart, FailRead, ClockValid, FailStart, Crash, environment, watcher
<1>5. SUFFICES \E r \in Devices :
                 Counted(r) /\ r.idx = inst[i].idx /\ inst[i] # NoDevice /\ Set(i, r)
  BY <1>3, <1>4, SetRuns, RunsKeeps
<1>6. inst[i].pc # "none" => inst[i] # NoDevice
  BY DEF NoDevice
<1>7. inst[i].proc => inst[i] # NoDevice
  BY DEF NoDevice
<1>8. CASE SeeClosed(i)
  BY <1>1, <1>6, <1>8, EndedFits DEF SeeClosed
<1>9. CASE StartRead(i)
  BY <1>1, <1>6, <1>9, MovedFits DEF StartRead, Pcs
<1>10. CASE EndRead(i)
  BY <1>1, <1>6, <1>10, MovedFits DEF EndRead, Pcs
<1>11. CASE FailRead(i)
  BY <1>1, <1>6, <1>11, MovedFits DEF FailRead, Pcs
<1>12. CASE ClockValid(i)
  BY <1>1, <1>6, <1>12, MovedFits DEF ClockValid, Pcs
<1>13. CASE FailStart(i)
  BY <1>1, <1>6, <1>13, MovedFits DEF FailStart, Pcs
<1>14. CASE StartChild(i)
  <2> DEFINE r == [inst[i] EXCEPT !.pc = "running", !.proc = TRUE, !.auto = TRUE]
  <2>1. inst[i].pc = "start" /\ Set(i, r)
    BY <1>14 DEF StartChild
  <2>2. r \in Devices /\ Counted(r) /\ r.idx = inst[i].idx
    BY <1>1, <2>1 DEF Devices, Counted, Pcs
  <2> QED BY <1>6, <2>1, <2>2
<1>15. CASE Kill(i)
  <2> DEFINE r == [inst[i] EXCEPT !.auto = FALSE, !.proc = FALSE]
  <2>1. inst[i].pc \in {"running", "exited"} /\ Set(i, r)
    BY <1>15 DEF Kill
  <2>2. r \in Devices /\ Counted(r) /\ r.idx = inst[i].idx
    BY <1>1, <2>1 DEF Devices, Counted, Pcs
  <2> QED BY <1>6, <2>1, <2>2
<1>16. CASE ChildEnded(i)
  <2> DEFINE r == [inst[i] EXCEPT !.pc = "exited"]
  <2>1. inst[i].pc = "running" /\ ~ inst[i].proc /\ Set(i, r)
    BY <1>16 DEF ChildEnded
  <2>2. r \in Devices /\ Counted(r) /\ r.idx = inst[i].idx
    BY <1>1, <2>1 DEF Devices, Counted, Pcs
  <2> QED BY <1>6, <2>1, <2>2
<1>17. CASE AfterChild(i)
  <2>1. inst[i].pc = "exited"
        /\ (Set(i, [inst[i] EXCEPT !.pc = "backoff"]) \/ Set(i, Ended(inst[i])))
    BY <1>17 DEF AfterChild
  <2>2. CASE Set(i, [inst[i] EXCEPT !.pc = "backoff"])
    BY <1>1, <1>6, <2>1, <2>2, MovedFits DEF Pcs
  <2>3. CASE Set(i, Ended(inst[i]))
    BY <1>1, <1>6, <2>1, <2>3, EndedFits
  <2> QED BY <2>1, <2>2, <2>3
<1>18. CASE Restart(i)
  <2> DEFINE r == [inst[i] EXCEPT !.pc = FirstPc(Band(i)), !.wg = WgAfterRestart(@)]
  <2>1. inst[i].pc = "backoff" /\ Set(i, r)
    BY <1>18 DEF Restart
  <2>2. FirstPc(Band(i)) \in {"poll", "clock", "start"}
    BY DEF FirstPc
  <2>3. inst[i].wg = 1 /\ WgAfterRestart(inst[i].wg) = 1 /\ inst[i].proc = FALSE
    BY <1>1, <2>1 DEF Devices, Counted, WgAfterRestart
  <2>4. r = [inst[i] EXCEPT !.pc = FirstPc(Band(i)), !.wg = 1]
    BY <2>3
  <2>5. r \in Devices /\ r.idx = inst[i].idx
    <3>1. FirstPc(Band(i)) \in Pcs /\ 1 \in 0..1
      BY <2>2 DEF Pcs
    <3>2. [inst[i] EXCEPT !.pc = FirstPc(Band(i)), !.wg = 1] \in Devices
          /\ [inst[i] EXCEPT !.pc = FirstPc(Band(i)), !.wg = 1].idx = inst[i].idx
      <4> HIDE DEF r
      <4> QED BY <1>1, <3>1, RecountedFits
    <3> QED BY <2>4, <3>2
  <2>6. r.wg = 1 /\ r.pc # "none" /\ r.proc = FALSE
    BY <1>1, <2>2, <2>3, <2>4 DEF Devices
  <2>7. Counted(r)
    BY <2>6 DEF Counted
  <2> QED BY <1>6, <2>1, <2>5, <2>7
<1>19. CASE Crash(i)
  <2> DEFINE r == [inst[i] EXCEPT !.proc = FALSE]
  <2>1. inst[i].proc /\ Set(i, r)
    BY <1>19 DEF Crash
  <2>2. r \in Devices /\ Counted(r) /\ r.idx = inst[i].idx
    BY <1>1, <2>1 DEF Devices, Counted
  <2> QED BY <1>7, <2>1, <2>2
<1> QED BY <1>8, <1>9, <1>10, <1>11, <1>12, <1>13, <1>14, <1>15, <1>16, <1>17, <1>18,
           <1>19 DEF Progress
-----------------------------------------------------------------------------
(* The watcher walks over the bands. *)
LEMMA NextFacts ==
  ASSUME SdrInv, phase \in DevicePhases, NextBand
  PROVE  /\ at \in 1..4
         /\ \/ at \in 1..3 /\ at' = at + 1 /\ phase' = phase
            \/ /\ at = 4 /\ at' = 1
               /\ \/ phase = "killing" /\ phase' = "gone"
                  \/ phase = "flags" /\ phase' = "capture"
                  \/ phase = "closing" /\ phase' = "tagged"
<1>1. phase = "killing" \/ phase = "flags" \/ phase = "closing"
  BY DEF DevicePhases
<1>2. at \in 1..4
  BY <1>1 DEF SdrInv, Placed
<1>3. Len(Order) = 4
  BY DEF Order
<1>4. CASE at < 4
  BY <1>2, <1>3, <1>4 DEF NextBand
<1>5. CASE at = 4
  BY <1>1, <1>3, <1>5 DEF NextBand, AfterDevices
<1> QED BY <1>2, <1>4, <1>5

(* Going on keeps the devices apart from the unused dongles, and once all  *)
(* bands have been closed no device is left.                               *)
LEMMA NextPlaces ==
  ASSUME SdrInv, phase \in DevicePhases, NextBand, unused' = unused,
         phase = "closing" => dev'[Here] = 0,
         \A b \in Bands : dev'[b] = dev[b] \/ dev'[b] = 0,
         \A i \in Instances : Current(i)' => Current(i) /\ inst'[i] = inst[i]
  PROVE  /\ Placed' /\ Spared' /\ at' \in 1..5
         /\ phase' \in {"flags", "capture", "closing", "tagged", "killing", "gone"}
<1>1. at \in 1..4 /\ unused = {} /\ unused' = {}
  BY NextFacts DEF SdrInv, Spared, DevicePhases
<1>2. Spared'
  BY <1>1 DEF Spared
<1>3. phase' \in {"flags", "capture", "closing", "tagged", "killing", "gone"}
      /\ at' \in 1..5
  BY NextFacts DEF DevicePhases
<1>4. Placed'
  <2>1. CASE phase # "closing"
    BY <1>1, <2>1, NextFacts DEF Placed, DevicePhases
  <2>2. CASE phase = "closing"
    <3>1. \A k \in 1..at : dev'[Order[k]] = 0
      <4> TAKE k \in 1..at
      <4>1. k = at \/ k \in 1..at - 1
        BY <1>1
      <4>2. CASE k = at
        BY <2>2, <4>2 DEF Here
      <4>3. CASE k \in 1..at - 1
        <5>1. dev[Order[k]] = 0
          BY <2>2, <4>3 DEF SdrInv, Placed
        <5>2. k = 1 \/ k = 2 \/ k = 3
          BY <1>1, <4>3
        <5>3. Order[k] \in Bands
          BY <5>2 DEF Order, Bands
        <5> QED BY <5>1, <5>3
      <4> QED BY <4>1, <4>2, <4>3
    <3>2. CASE at \in 1..3 /\ at' = at + 1 /\ phase' = phase
      <4>1. at' \in 1..4 /\ 1..at' - 1 = 1..at
        BY <3>2
      <4> QED BY <2>2, <3>1, <3>2, <4>1 DEF Placed
    <3>3. CASE at = 4 /\ at' = 1 /\ phase' = "tagged"
      <4>1. dev'["UAT"] = 0 /\ dev'["ES"] = 0 /\ dev'["OGN"] = 0 /\ dev'["AIS"] = 0
        BY <3>1, <3>3 DEF Order
      <4>2. \A i \in Instances : ~ Current(i)'
        BY <4>1, InstanceFacts DEF Current, Bands
      <4> QED BY <1>1, <3>3, <4>2 DEF Placed
    <3> QED BY <2>2, <3>2, <3>3, NextFacts
  <2> QED BY <2>1, <2>2
<1> QED BY <1>2, <1>3, <1>4

LEMMA FlagTyped ==
  ASSUME SdrInv, phase \in DevicePhases, ClearFlag
  PROVE  flag' \in [Bands -> BOOLEAN]
  BY DEF SdrInv, TypeOK, ClearFlag

LEMMA SkipKeeps ==
  ASSUME SdrInv, SkipBand
  PROVE  SdrInv'
<1>1. phase \in DevicePhases /\ NextBand /\ UNCHANGED <<unused, dev, inst>>
  BY DEF SkipBand
<1>2. phase = "closing" => dev'[Here] = 0
  BY DEF SkipBand, Asked
<1>3. \A i \in Instances : Current(i)' = Current(i)
  BY <1>1 DEF Current
<1>4. Placed' /\ Spared' /\ at' \in 1..5
      /\ phase' \in {"flags", "capture", "closing", "tagged", "killing", "gone"}
  BY <1>1, <1>2, <1>3, NextPlaces
<1>5. TypeOK'
  BY <1>4, FlagTyped DEF SkipBand, SdrInv, TypeOK, environment
<1> QED BY <1>1, <1>4, <1>5, AsideKeeps

LEMMA CloseKeeps ==
  ASSUME SdrInv, CloseChannel
  PROVE  SdrInv'
<1>1. Here \in Bands
  BY HereIsBand DEF CloseChannel, DevicePhases, SdrInv, Placed
<1>2. PICK i \in Instances : i = Device(Here) /\ Current(i)
  BY <1>1, DeviceFacts DEF CloseChannel, SdrInv
<1>3. inst' = [inst EXCEPT ![i].closed = TRUE] /\ inst \in [Instances -> Devices]
  BY <1>2 DEF CloseChannel, SdrInv, TypeOK
<1>4. inst'[i] = [inst[i] EXCEPT !.closed = TRUE]
      /\ \A j \in Instances : j # i => inst'[j] = inst[j]
  BY <1>3
<1>5. inst[i] \in Devices /\ Counted(inst[i])
  BY DeviceTyped
<1>6. inst'[i] \in Devices /\ Counted(inst'[i]) /\ inst'[i].idx = inst[i].idx
  BY <1>4, <1>5 DEF Devices, Counted
<1>7. inst' \in [Instances -> Devices]
  BY <1>3, <1>4, <1>6
<1>8. Runs(i)
  BY <1>2, <1>4, <1>6, <1>7 DEF Runs
<1>9. flag' \in [Bands -> BOOLEAN] /\ faults' \in 0..MaxFaults
  BY DEF CloseChannel, SdrInv, TypeOK
<1> QED BY <1>8, <1>9, RunsKeeps DEF CloseChannel, environment, watcher

(* When no reader of a device is counted nothing of it runs, so that the   *)
(* pointer may be cleared.                                                 *)
LEMMA ShutdownKeeps ==
  ASSUME SdrInv, EndShutdown
  PROVE  SdrInv'
<1>1. Here \in Bands
  BY HereIsBand DEF EndShutdown, DevicePhases, SdrInv, Placed
<1>2. PICK h \in Bands : h = Here
  BY <1>1
<1>3. PICK i \in Instances : i = Device(Here) /\ Current(i) /\ Band(i) = h
  BY <1>2, DeviceFacts DEF EndShutdown, SdrInv
<1>4. inst[i].pc = "none" /\ ~ inst[i].proc
  <2>1. inst[i] \in Devices /\ Counted(inst[i]) /\ inst[i].wg = 0
    BY <1>3, DeviceTyped DEF EndShutdown, Waited
  <2> QED BY <2>1 DEF Counted
<1>5. inst' = [inst EXCEPT ![i] = NoDevice] /\ dev' = [dev EXCEPT ![h] = 0]
  BY <1>2, <1>3, <1>4 DEF EndShutdown
<1>6. inst \in [Instances -> Devices] /\ dev \in [Bands -> 0..2]
  BY DEF SdrInv, TypeOK
<1>7. \A j \in Instances :
        IF Band(j) = h THEN ~ Current(j)' /\ inst'[j] = NoDevice
                       ELSE Current(j)' = Current(j) /\ inst'[j] = inst[j]
  <2> TAKE j \in Instances
  <2>1. Band(j) \in Bands /\ j[2] \in {1, 2}
    BY InstanceFacts
  <2>2. CASE Band(j) = h
    <3>1. ~ Current(j)'
      BY <1>5, <1>6, <2>1, <2>2 DEF Current
    <3>2. CASE j = i
      BY <1>5, <1>6, <3>1, <3>2, <2>2
    <3>3. CASE j # i
      <4>1. ~ Current(j)
        BY <1>3, <2>2, <3>3, SameBand
      <4>2. inst[j] = NoDevice
        BY <4>1 DEF SdrInv, NothingLeft
      <4> QED BY <1>5, <1>6, <3>1, <3>3, <4>2, <2>2
    <3> QED BY <3>2, <3>3
  <2>3. CASE Band(j) # h
    <3>1. j # i
      BY <1>3, <2>3
    <3> QED BY <1>5, <1>6, <2>1, <2>3, <3>1 DEF Current
  <2> QED BY <2>2, <2>3
<1>8. phase \in DevicePhases /\ NextBand /\ ClearFlag /\ unused' = unused
  BY DEF EndShutdown
<1>9. dev'[Here] = 0 /\ \A b \in Bands : dev'[b] = dev[b] \/ dev'[b] = 0
  BY <1>2, <1>5, <1>6
<1>10. Placed' /\ Spared' /\ at' \in 1..5
       /\ phase' \in {"flags", "capture", "closing", "tagged", "killing", "gone"}
  BY <1>7, <1>8, <1>9, NextPlaces
<1>11. NoDevice \in Devices /\ Counted(NoDevice)
  BY SdrAssumption DEF NoDevice, Devices, Counted, Pcs, SdrAssumption
<1>12. inst' \in [Instances -> Devices] /\ dev' \in [Bands -> 0..2]
  BY <1>5, <1>6, <1>11
<1>13. TypeOK'
  BY <1>8, <1>10, <1>12, FlagTyped DEF EndShutdown, SdrInv, TypeOK, environment
<1>14. AllCounted'
  BY <1>7, <1>11 DEF SdrInv, AllCounted
<1>15. NothingLeft'
  BY <1>7 DEF SdrInv, NothingLeft
<1>16. Distinct'
  BY <1>7 DEF SdrInv, Distinct
<1> QED BY <1>10, <1>13, <1>14, <1>15, <1>16 DEF SdrInv
-----------------------------------------------------------------------------
(* A new device: of band b, with a dongle no other device has. *)
Placing(i, d) ==
  /\ inst' \in [Instances -> Devices] /\ dev' \in [Bands -> 0..2]
  /\ Counted(inst'[i]) /\ inst'[i].idx = d
  /\ \A j \in Instances :
       IF j = i THEN Current(j)' ELSE Current(j)' = Current(j) /\ inst'[j] = inst[j]

LEMMA FreeSlotFacts ==
  ASSUME SdrInv, NEW b \in Bands, dev[b] = 0
  PROVE  /\ FreeSlot(b) \in {1, 2}
         /\ \A s \in {1, 2} : <<b, s>> \in Instances /\ ~ Current(<<b, s>>)
<1>1. \A s \in {1, 2} : <<b, s>> \in Instances /\ ~ Current(<<b, s>>)
  BY DEF Instances, Current, Band
<1>2. inst[<<b, 1>>] = NoDevice
  BY <1>1 DEF SdrInv, NothingLeft
<1>3. ~ Alive(<<b, 1>>)
  BY <1>2 DEF Alive, NoDevice
<1> QED BY <1>1, <1>3 DEF FreeSlot

LEMMA CreatePlaces ==
  ASSUME SdrInv, NEW b \in Bands, dev[b] = 0, NEW d \in Dongles, Create(b, d)
  PROVE  \/ UNCHANGED <<dev, inst>> /\ faults' \in 0..MaxFaults
         \/ UNCHANGED faults /\ \E i \in Instances : Placing(i, d)
<1>1. CASE Fault /\ UNCHANGED <<dev, inst>>
  BY <1>1, FaultTyped, SdrAssumption
<1>2. CASE ~ (Fault /\ UNCHANGED <<dev, inst>>)
  <2>1. PICK n \in {1, 2} : n = FreeSlot(b)
    BY FreeSlotFacts
  <2>2. PICK i \in Instances : i = <<b, n>>
    BY FreeSlotFacts
  <2>3. PICK r : r = [NoDevice EXCEPT !.idx = d, !.wg = 1, !.pc = FirstPc(b),
                                      !.open = (b = "UAT")]
    OBVIOUS
  <2>4. i[2] = n /\ Band(i) = b
    BY <2>2 DEF Band
  <2>5. dev' = [dev EXCEPT ![b] = n] /\ inst' = [inst EXCEPT ![i] = r] /\ UNCHANGED faults
    BY <1>2, <2>1, <2>2, <2>3, <2>4 DEF Create
  <2>6. r = [idx |-> d, closed |-> FALSE, wg |-> 1, pc |-> FirstPc(b),
             proc |-> FALSE, auto |-> FALSE, open |-> (b = "UAT")]
    BY <2>3 DEF NoDevice
  <2>7. FirstPc(b) \in {"poll", "clock", "start"}
    BY DEF FirstPc
  <2>8. r \in Devices /\ r.idx = d
    <3>1. FirstPc(b) \in Pcs /\ 1 \in 0..1 /\ d \in 0..MaxDongles
      BY <2>7, SdrAssumption DEF Pcs, Dongles, SdrAssumption
    <3>2. [idx |-> d, closed |-> FALSE, wg |-> 1, pc |-> FirstPc(b), proc |-> FALSE,
           auto |-> FALSE, open |-> (b = "UAT")] \in Devices
      <4>1. (b = "UAT") \in BOOLEAN
        OBVIOUS
      <4> QED BY <3>1, <4>1 DEF Devices
    <3> QED BY <2>6, <3>2
  <2>9. Counted(r)
    <3>1. r.wg = 1 /\ r.pc # "none" /\ r.proc = FALSE
      <4>1. r.wg = 1 /\ r.pc = FirstPc(b) /\ r.proc = FALSE
        BY <2>6
      <4> QED BY <2>7, <4>1
    <3> QED BY <3>1 DEF Counted
  <2>10. inst \in [Instances -> Devices] /\ dev \in [Bands -> 0..2]
    BY DEF SdrInv, TypeOK
  <2>11. inst' \in [Instances -> Devices] /\ dev' \in [Bands -> 0..2]
    BY <2>5, <2>8, <2>10
  <2>12. inst'[i] = r
    BY <2>5, <2>10
  <2>13. ASSUME NEW j \in Instances
         PROVE  IF j = i THEN Current(j)' ELSE Current(j)' = Current(j) /\ inst'[j] = inst[j]
    <3>1. CASE Band(j) = b
      <4>1. ~ Current(j) /\ (j # i => j[2] # n)
        <5>1. j = <<b, j[2]>> /\ j[2] \in {1, 2}
          BY <3>1, InstanceFacts
        <5>2. ~ Current(j)
          <6>1. PICK s \in {1, 2} : j = <<b, s>>
            BY <5>1
          <6>2. ~ Current(<<b, s>>)
            BY FreeSlotFacts
          <6> QED BY <6>1, <6>2
        <5> QED BY <2>2, <5>1, <5>2
      <4>2. dev'[b] = n
        BY <2>5, <2>10
      <4>3. Current(j)' <=> j[2] = n
        BY <3>1, <4>2 DEF Current
      <4>4. CASE j = i
        BY <2>4, <4>3, <4>4
      <4>5. CASE j # i
        BY <2>5, <2>10, <4>1, <4>3, <4>5 DEF Current
      <4> QED BY <4>4, <4>5
    <3>2. CASE Band(j) # b
      BY <2>4, <2>5, <2>10, <3>2, InstanceFacts DEF Current
    <3> QED BY <3>1, <3>2
  <2> QED BY <2>5, <2>8, <2>9, <2>11, <2>12, <2>13 DEF Placing
<1> QED BY <1>1, <1>2

LEMMA PlacingKeeps ==
  ASSUME SdrInv, NEW i \in Instances, NEW d \in Dongles, Placing(i, d),
         \A j \in Instances : Current(j) => inst[j].idx # d
  PROVE  /\ AllCounted' /\ NothingLeft' /\ Distinct'
         /\ \A j \in Instances :
              Current(j)' => inst'[j].idx = d \/ (Current(j) /\ inst'[j].idx = inst[j].idx)
<1>1. AllCounted'
  BY DEF SdrInv, AllCounted, Placing
<1>2. NothingLeft'
  BY DEF SdrInv, NothingLeft, Placing
<1>3. Distinct'
  BY DEF SdrInv, Distinct, Placing
<1>4. \A j \in Instances :
        Current(j)' => inst'[j].idx = d \/ (Current(j) /\ inst'[j].idx = inst[j].idx)
  BY DEF Placing
<1> QED BY <1>1, <1>2, <1>3, <1>4

(* The dongles are all different, in loop 1 because the order is strict ... *)
LEMMA TaggedKeeps ==
  ASSUME SdrInv, AssignTagged
  PROVE  SdrInv'
<1>1. at \in 1..3 /\ at' = at + 1 /\ phase = "tagged" /\ phase' = "tagged"
  BY DEF AssignTagged, SdrInv, Placed
<1>2. /\ unused \subseteq 1..at - 1
      /\ \A i \in Instances : Current(i) => inst[i].idx < at /\ inst[i].idx \notin unused
  BY <1>1 DEF SdrInv, Placed, Spared
<1>3. \A i \in Instances : inst[i].idx \in 0..MaxDongles
  BY DeviceTyped DEF Devices
<1>4. MaxDongles \in 1..4 /\ MaxFaults \in Nat /\ want.count \in 0..MaxDongles
      /\ faults \in 0..MaxFaults
  BY SdrAssumption DEF SdrAssumption, SdrInv, TypeOK, Settings
<1>5. /\ at' \in 1..4 /\ at' \in 1..5
      /\ \A n \in 0..MaxDongles : n < at => n < at'
      /\ 1..at - 1 \subseteq 1..at' - 1 /\ at \in 1..at' - 1 /\ at < at' /\ at \notin 1..at - 1
  BY <1>1, <1>4
<1>6. CASE UNCHANGED <<dev, inst>> /\ faults' \in 0..MaxFaults /\ UNCHANGED unused
  <2>1. \A i \in Instances : Current(i)' = Current(i)
    BY <1>6 DEF Current
  <2>2. Placed' /\ Spared'
    BY <1>1, <1>2, <1>3, <1>5, <1>6, <2>1 DEF Placed, Spared
  <2>3. TypeOK'
    BY <1>1, <1>5, <1>6 DEF AssignTagged, SdrInv, TypeOK, environment
  <2> QED BY <1>6, <2>2, <2>3, AsideKeeps
<1>7. CASE unused' = unused \cup {at} /\ at \in Dongles /\ UNCHANGED <<dev, inst, faults>>
  <2>1. \A i \in Instances : Current(i)' = Current(i)
    BY <1>7 DEF Current
  <2>2. unused' \subseteq 1..at' - 1
    BY <1>2, <1>5, <1>7
  <2>3. \A i \in Instances : Current(i)' => inst'[i].idx < at' /\ inst'[i].idx \notin unused'
    <3> SUFFICES ASSUME NEW i \in Instances, Current(i)
                 PROVE  inst[i].idx < at' /\ inst[i].idx \notin unused'
      BY <1>7, <2>1
    <3>1. inst[i].idx < at /\ inst[i].idx \notin unused /\ inst[i].idx \in 0..MaxDongles
      BY <1>2, <1>3
    <3> QED BY <1>1, <1>4, <1>7, <3>1
  <2>4. Placed' /\ Spared'
    BY <1>1, <1>5, <2>2, <2>3 DEF Placed, Spared
  <2>5. TypeOK'
    BY <1>1, <1>5, <1>7 DEF AssignTagged, SdrInv, TypeOK, environment
  <2> QED BY <1>7, <2>4, <2>5, AsideKeeps
<1>8. CASE \E i \in Instances : Placing(i, at) /\ UNCHANGED <<faults, unused>> /\ at \in Dongles
  <2>1. PICK d \in Dongles : d = at
    BY <1>8
  <2>2. PICK i \in Instances : Placing(i, d) /\ UNCHANGED <<faults, unused>>
    BY <1>8, <2>1
  <2>3. \A j \in Instances : Current(j) => inst[j].idx # d
    BY <1>2, <1>3, <1>1, <1>4, <2>1
  <2>4. /\ AllCounted' /\ NothingLeft' /\ Distinct'
        /\ \A j \in Instances :
             Current(j)' => inst'[j].idx = d \/ (Current(j) /\ inst'[j].idx = inst[j].idx)
    BY <2>2, <2>3, PlacingKeeps
  <2>5. d < at' /\ d \notin unused
    BY <1>2, <1>5, <2>1
  <2>6. \A j \in Instances : Current(j)' => inst'[j].idx < at' /\ inst'[j].idx \notin unused'
    BY <1>2, <1>3, <1>5, <2>2, <2>4, <2>5
  <2>7. Placed' /\ Spared'
    BY <1>1, <1>2, <1>5, <2>2, <2>6 DEF Placed, Spared
  <2>8. TypeOK'
    BY <1>1, <1>5, <2>2 DEF Placing, AssignTagged, SdrInv, TypeOK, environment
  <2> QED BY <2>4, <2>7, <2>8 DEF SdrInv
<1>9. CASE at > want.count
  BY <1>4, <1>6, <1>9 DEF AssignTagged
<1>10. CASE ~ (at > want.count)
  <2>1. at \in Dongles
    BY <1>1, <1>4, <1>10 DEF Dongles
  <2>2. CASE tag[at] \in Bands /\ Enabled(tag[at])
    <3>1. PICK b \in Bands : b = tag[at]
      BY <2>2
    <3>2. PICK d \in Dongles : d = at
      BY <2>1
    <3>3. dev[b] = 0 /\ Create(b, d) /\ UNCHANGED unused
      BY <1>10, <2>2, <3>1, <3>2 DEF AssignTagged, Enabled
    <3>4. \/ UNCHANGED <<dev, inst>> /\ faults' \in 0..MaxFaults
          \/ UNCHANGED faults /\ \E i \in Instances : Placing(i, d)
      BY <3>3, CreatePlaces
    <3> QED BY <1>6, <1>8, <2>1, <3>2, <3>3, <3>4
  <2>3. CASE ~ (tag[at] \in Bands /\ Enabled(tag[at]))
    BY <1>7, <1>10, <2>1, <2>3 DEF AssignTagged
  <2> QED BY <2>2, <2>3
<1> QED BY <1>9, <1>10

LEMMA Least ==
  ASSUME NEW k \in SUBSET (1..4), k # {}
  PROVE  \E n \in k : \A m \in k : n <= m
<1>1. 1 \in k \/ 2 \in k \/ 3 \in k \/ 4 \in k
  <2>1. PICK n \in k : n \in 1..4
    OBVIOUS
  <2>2. n = 1 \/ n = 2 \/ n = 3 \/ n = 4
    BY <2>1
  <2> QED BY <2>1, <2>2
<1>2. CASE 1 \in k
  BY <1>2
<1>3. CASE 1 \notin k /\ 2 \in k
  BY <1>3
<1>4. CASE 1 \notin k /\ 2 \notin k /\ 3 \in k
  BY <1>4
<1>5. CASE 1 \notin k /\ 2 \notin k /\ 3 \notin k /\ 4 \in k
  BY <1>5
<1> QED BY <1>1, <1>2, <1>3, <1>4, <1>5

(* ... and in loop 2 because a dongle is taken out of the unused ones. *)
LEMMA SpareKeeps ==
  ASSUME SdrInv, AssignSpare
  PROVE  SdrInv'
<1>1. phase = "spare" /\ phase' = "spare" /\ at = 1 /\ at' = 1
  BY DEF AssignSpare, SdrInv, Placed
<1>2. PICK d \in unused :
        /\ unused' = unused \ {d}
        /\ LET k == {n \in DOMAIN Order : MayUse(Order[n], d)}
           IN IF k = {} THEN UNCHANGED <<dev, inst, faults>>
              ELSE Create(Order[CHOOSE n \in k : \A m \in k : n <= m], d)
  BY DEF AssignSpare
<1>3. d \in Dongles /\ \A j \in Instances : Current(j) => inst[j].idx \notin unused
  BY DEF SdrInv, TypeOK, Spared
<1>4. CASE UNCHANGED <<dev, inst>> /\ faults' \in 0..MaxFaults
  <2>1. \A i \in Instances : Current(i)' = Current(i)
    BY <1>4 DEF Current
  <2>2. Placed' /\ Spared'
    BY <1>1, <1>2, <1>3, <1>4, <2>1 DEF Placed, Spared
  <2>3. TypeOK'
    BY <1>1, <1>2, <1>4 DEF AssignSpare, SdrInv, TypeOK, environment
  <2> QED BY <1>4, <2>2, <2>3, AsideKeeps
<1>5. CASE UNCHANGED faults /\ \E i \in Instances : Placing(i, d)
  <2>1. PICK i \in Instances : Placing(i, d)
    BY <1>5
  <2>2. \A j \in Instances : Current(j) => inst[j].idx # d
    BY <1>3
  <2>3. /\ AllCounted' /\ NothingLeft' /\ Distinct'
        /\ \A j \in Instances :
             Current(j)' => inst'[j].idx = d \/ (Current(j) /\ inst'[j].idx = inst[j].idx)
    BY <1>3, <2>1, <2>2, PlacingKeeps
  <2>4. \A j \in Instances : Current(j)' => inst'[j].idx \notin unused'
    BY <1>2, <1>3, <2>3
  <2>5. Placed' /\ Spared'
    BY <1>1, <2>4 DEF Placed, Spared
  <2>6. TypeOK'
    BY <1>1, <1>2, <1>5, <2>1 DEF Placing, AssignSpare, SdrInv, TypeOK, environment
  <2> QED BY <2>3, <2>5, <2>6 DEF SdrInv
<1> DEFINE k == {n \in 1..4 : MayUse(Order[n], d)}
           first == CHOOSE n \in k : \A m \in k : n <= m
<1>6. DOMAIN Order = 1..4
  BY DEF Order
<1>7. IF k = {} THEN UNCHANGED <<dev, inst, faults>> ELSE Create(Order[first], d)
  BY <1>2, <1>6
<1>8. CASE k = {}
  BY <1>4, <1>7, <1>8 DEF SdrInv, TypeOK
<1>9. CASE k # {}
  <2>1. \E n \in k : \A m \in k : n <= m
    BY <1>9, Least
  <2>2. first \in k
    <3> HIDE DEF k
    <3> QED BY <2>1
  <2>3. PICK n \in 1..4 : n = first /\ MayUse(Order[n], d)
    BY <2>2
  <2>4. PICK b \in Bands : b = Order[n]
    <3>1. n = 1 \/ n = 2 \/ n = 3 \/ n = 4
      BY <2>3
    <3> QED BY <3>1 DEF Order, Bands
  <2>5. Create(Order[n], d) /\ dev[Order[n]] = 0
    <3>1. dev[Order[n]] = 0
      BY <2>3 DEF MayUse, Enabled
    <3>2. Create(Order[first], d)
      <4> HIDE DEF k, first
      <4> QED BY <1>7, <1>9
    <3> HIDE DEF k, first
    <3> QED BY <2>3, <3>1, <3>2
  <2>6. dev[b] = 0 /\ Create(b, d)
    BY <2>4, <2>5
  <2> QED BY <1>3, <1>4, <1>5, <2>6, CreatePlaces
<1> QED BY <1>8, <1>9

(* The rest of a pass, and the environment. *)
LEMMA PassKeeps ==
  ASSUME SdrInv, Wake \/ Capture \/ AllTagged \/ EndPass
  PROVE  SdrInv'
<1>1. UNCHANGED <<want, tag, changes, flag, inst, dev, faults, sdrShutdown, unused>>
  BY DEF Wake, Capture, AllTagged, EndPass, environment
<1>2. \A i \in Instances : Current(i)' = Current(i)
  BY <1>1 DEF Current
<1>3. CASE Wake
  BY <1>1, <1>2, <1>3, AsideKeeps DEF Wake, SdrInv, TypeOK, Placed, Spared
<1>4. CASE Capture
  <2>1. at = 1 /\ at' = 1 /\ phase = "capture" /\ phase' \in {"sleep", "closing"} /\ prev' = prev
        /\ (cap' = prev \/ cap' = want)
    BY <1>4 DEF Capture, SdrInv, Placed
  <2>2. Placed' /\ Spared'
    BY <1>1, <1>2, <2>1 DEF Placed, Spared, SdrInv
  <2>3. TypeOK'
    BY <1>1, <2>1 DEF SdrInv, TypeOK
  <2> QED BY <1>1, <2>2, <2>3, AsideKeeps
<1>5. CASE AllTagged
  BY <1>1, <1>2, <1>5, AsideKeeps DEF AllTagged, SdrInv, TypeOK, Placed, Spared
<1>6. CASE EndPass
  BY <1>1, <1>2, <1>6, AsideKeeps DEF EndPass, SdrInv, TypeOK, Placed, Spared
<1> QED BY <1>3, <1>4, <1>5, <1>6

LEMMA OutsideKeeps ==
  ASSUME SdrInv, Change \/ SdrKill \/ PingStderr \/ UNCHANGED vars
  PROVE  SdrInv'
<1>1. UNCHANGED <<tag, prev, cap, phase, at, unused, inst, dev>>
  BY DEF Change, SdrKill, PingStderr, environment, watcher, vars
<1>2. \A i \in Instances : Current(i)' = Current(i)
  BY <1>1 DEF Current
<1>3. Placed' /\ Spared'
  BY <1>1, <1>2 DEF SdrInv, Placed, Spared
<1>4. want' \in Settings /\ sdrShutdown' \in BOOLEAN
  BY DEF Change, SdrKill, PingStderr, environment, watcher, vars, SdrInv, TypeOK
<1>5. flag' \in [Bands -> BOOLEAN]
  BY DEF Change, SdrKill, PingStderr, vars, SdrInv, TypeOK
<1>6. faults' \in 0..MaxFaults
  BY FaultTyped, SdrAssumption DEF Change, SdrKill, PingStderr, vars
<1>7. changes' \in 0..MaxChanges
  BY SdrAssumption
  DEF Change, SdrKill, PingStderr, environment, vars, SdrInv, TypeOK, SdrAssumption
<1>8. TypeOK'
  BY <1>1, <1>4, <1>5, <1>6, <1>7 DEF SdrInv, TypeOK
<1> QED BY <1>1, <1>3, <1>8, AsideKeeps
-----------------------------------------------------------------------------
LEMMA Initially ==
  Init => SdrInv
<1> SUFFICES ASSUME Init
             PROVE  SdrInv
  OBVIOUS
<1>1. NoDevice \in Devices /\ Counted(NoDevice)
  BY SdrAssumption DEF NoDevice, Devices, Counted, Pcs, SdrAssumption
<1>2. \A i \in Instances : inst[i] = NoDevice /\ ~ Current(i)
  BY InstanceFacts DEF Init, Current
<1>3. AllCounted /\ NothingLeft /\ Distinct /\ Placed /\ Spared
  BY <1>1, <1>2 DEF Init, AllCounted, NothingLeft, Distinct, Placed, Spared
<1>4. Unplugged \in Settings /\ want \in Settings
  <2>1. {} \in SUBSET UserBands /\ UserBands \in SUBSET UserBands /\ 0 \in 0..MaxDongles
        /\ FALSE \in BOOLEAN
    BY SdrAssumption DEF SdrAssumption
  <2>2. Unplugged \in Settings
    BY <2>1 DEF Unplugged, Settings
  <2>3. PICK n \in 0..MaxDongles :
          want = [enabled |-> UserBands, count |-> n, radio |-> FALSE, tuned |-> FALSE]
    <3>1. want \in [enabled : {UserBands}, count : 0..MaxDongles,
                    radio : {FALSE}, tuned : {FALSE}]
      BY DEF Init
    <3> QED BY <3>1
  <2>4. want \in Settings
    BY <2>1, <2>3 DEF Settings
  <2> QED BY <2>2, <2>4
<1>5. faults \in 0..MaxFaults /\ changes \in 0..MaxChanges
  BY SdrAssumption DEF Init, SdrAssumption
<1>6. inst \in [Instances -> Devices] /\ dev \in [Bands -> 0..2]
  BY <1>1 DEF Init
<1>7. flag \in [Bands -> BOOLEAN] /\ tag \in [Dongles -> Tags]
  BY DEF Init
<1>8. prev \in Settings /\ cap \in Settings
  BY <1>4 DEF Init
<1>9. /\ phase \in {"sleep", "flags", "capture", "closing", "tagged", "spare", "killing", "gone"}
      /\ at \in 1..5 /\ unused \subseteq Dongles /\ sdrShutdown \in BOOLEAN
  <2>1. phase = "sleep" /\ at = 1
    BY DEF Init
  <2>2. unused \subseteq Dongles
    BY DEF Init
  <2>3. sdrShutdown \in BOOLEAN
    BY DEF Init
  <2> QED BY <2>1, <2>2, <2>3
<1>10. TypeOK
  BY <1>4, <1>5, <1>6, <1>7, <1>8, <1>9 DEF TypeOK
<1> QED BY <1>3, <1>10 DEF SdrInv

LEMMA StepKeeps ==
  SdrInv /\ [Next]_vars => SdrInv'
<1> SUFFICES ASSUME SdrInv, [Next]_vars
             PROVE  SdrInv'
  OBVIOUS
<1>1. CASE Change \/ SdrKill \/ PingStderr \/ UNCHANGED vars
  BY <1>1, OutsideKeeps
<1>2. CASE Wake \/ Capture \/ AllTagged \/ EndPass
  BY <1>2, PassKeeps
<1>3. CASE SkipBand
  BY <1>3, SkipKeeps
<1>4. CASE CloseChannel
  BY <1>4, CloseKeeps
<1>5. CASE EndShutdown
  BY <1>5, ShutdownKeeps
<1>6. CASE AssignTagged
  BY <1>6, TaggedKeeps
<1>7. CASE AssignSpare
  BY <1>7, SpareKeeps
<1>8. ASSUME NEW i \in Instances,
             Progress(i) \/ FailRead(i) \/ ClockValid(i) \/ FailStart(i) \/ Crash(i)
      PROVE  SdrInv'
  BY <1>8, ReaderKeeps, SdrAssumption
<1> QED BY <1>1, <1>2, <1>3, <1>4, <1>5, <1>6, <1>7, <1>8 DEF Next, WatcherStep

LEMMA Invariance ==
  Spec => []SdrInv
  BY Initially, StepKeeps, PTL DEF Spec

(* Whatever is plugged in, enabled, crashing or asked to end, the watcher, *)
(* the readers and the children stay within the types: the WaitGroup of a  *)
(* device is 0 or 1, over every restart of its child.                      *)
THEOREM TypeCorrect ==
  Spec => []TypeOK
<1>1. SdrInv => TypeOK
  BY DEF SdrInv
<1> QED BY <1>1, Invariance, PTL

(* Whatever is plugged in, enabled, crashing or asked to end, no dongle    *)
(* and no band is used by two receivers: sdrWatcher lets go of a device    *)
(* only when nothing of it runs, and gives each dongle away once.          *)
THEOREM ExclusiveUseKept ==
  Spec => []ExclusiveUse
<1>1. SdrInv => ExclusiveUse
  <2> SUFFICES ASSUME SdrInv, NEW i \in Instances, NEW j \in Instances,
                      i # j, Using(i), Using(j)
               PROVE  inst[i].idx # inst[j].idx /\ Band(i) # Band(j)
    BY DEF ExclusiveUse
  <2>1. inst[i] # NoDevice /\ inst[j] # NoDevice
    BY DEF Using, NoDevice
  <2>2. Current(i) /\ Current(j)
    BY <2>1 DEF SdrInv, NothingLeft
  <2>3. Band(i) # Band(j)
    BY <2>2, SameBand
  <2> QED BY <2>2, <2>3 DEF SdrInv, Distinct
<1> QED BY <1>1, Invariance, PTL
-----------------------------------------------------------------------------
(* sdrKill takes the devices down in order, and gives none out afterwards. *)
KilledSoFar ==
  /\ phase = "killing" => \A k \in 1..at - 1 : dev[Order[k]] = 0
  /\ phase = "gone" => \A b \in Bands : dev[b] = 0

(* No step of the watcher, of a reader or of the user undoes that. *)
LEMMA KilledStepKeeps ==
  ASSUME SdrInv, KilledSoFar, [Next]_vars
  PROVE  KilledSoFar'
<1>1. CASE UNCHANGED <<phase, at, dev>>
  BY <1>1 DEF KilledSoFar
<1>2. CASE phase' \notin {"killing", "gone"}
  BY <1>2 DEF KilledSoFar
<1>3. CASE Wake
  <2>1. at' = 1 /\ phase' \in {"killing", "flags"}
    BY <1>3 DEF Wake
  <2> QED
    BY <2>1 DEF KilledSoFar
<1>4. CASE SkipBand \/ EndShutdown
  <2>1. phase \in DevicePhases /\ NextBand
    BY <1>4 DEF SkipBand, EndShutdown
  <2>2. at \in 1..4 /\ dev \in [Bands -> 0..2]
    BY <2>1, NextFacts DEF SdrInv, TypeOK
  <2>3. Here \in Bands /\ Here = Order[at]
    BY <2>2, HereIsBand DEF Here
  <2>4. dev'[Here] = 0 \/ phase # "killing"
    BY <1>4, <2>2, <2>3 DEF SkipBand, EndShutdown, Asked
  <2>5. \A b \in Bands : dev[b] = 0 => dev'[b] = 0
    BY <1>4, <2>2, <2>3 DEF SkipBand, EndShutdown
  <2>6. CASE phase = "killing"
    <3>1. ASSUME NEW k \in 1..at PROVE dev'[Order[k]] = 0
      <4>1. Order[k] \in Bands
        <5>1. k = 1 \/ k = 2 \/ k = 3 \/ k = 4
          BY <2>2
        <5> QED BY <5>1 DEF Order, Bands
      <4>2. k = at \/ k \in 1..at - 1
        BY <2>2
      <4> QED BY <2>3, <2>4, <2>5, <2>6, <4>1, <4>2 DEF KilledSoFar
    <3>2. CASE at \in 1..3 /\ at' = at + 1 /\ phase' = phase
      <4>1. 1..at' - 1 = 1..at
        BY <3>2
      <4> QED BY <2>6, <3>1, <3>2, <4>1 DEF KilledSoFar
    <3>3. CASE at = 4 /\ phase' = "gone"
      <4>1. dev'["UAT"] = 0 /\ dev'["ES"] = 0 /\ dev'["OGN"] = 0 /\ dev'["AIS"] = 0
        BY <3>1, <3>3 DEF Order
      <4> QED BY <3>3, <4>1 DEF KilledSoFar, Bands
    <3> QED BY <2>1, <2>6, <3>2, <3>3, NextFacts
  <2>7. CASE phase # "killing"
    <3>1. phase' \notin {"killing", "gone"}
      BY <2>1, <2>7, NextFacts DEF DevicePhases
    <3> QED BY <1>2, <3>1
  <2> QED BY <2>6, <2>7
<1>5. CASE CloseChannel \/ Change \/ SdrKill \/ PingStderr \/ UNCHANGED vars
  BY <1>1, <1>5 DEF CloseChannel, Change, SdrKill, PingStderr, environment, watcher, vars
<1>6. CASE Capture \/ AssignTagged \/ AllTagged \/ AssignSpare \/ EndPass
  BY <1>2, <1>6 DEF Capture, AssignTagged, AllTagged, AssignSpare, EndPass
<1>7. ASSUME NEW i \in Instances,
             Progress(i) \/ FailRead(i) \/ ClockValid(i) \/ FailStart(i) \/ Crash(i)
      PROVE  KilledSoFar'
  BY <1>1, <1>7 DEF Progress, SeeClosed, StartRead, EndRead, StartChild, Kill, ChildEnded,
     AfterChild, Restart, FailRead, ClockValid, FailStart, Crash, environment, watcher
<1> QED BY <1>3, <1>4, <1>5, <1>6, <1>7 DEF Next, WatcherStep

(* Once the watcher has ended it stays so. *)
LEMMA GoneForGood ==
  ASSUME SdrInv, phase = "gone", [Next]_vars
  PROVE  phase' = "gone"
<1>1. phase \notin DevicePhases
  BY DEF DevicePhases
<1>2. ~ WatcherStep
  BY <1>1 DEF WatcherStep, Wake, SkipBand, CloseChannel, EndShutdown, Capture, AssignTagged,
     AllTagged, AssignSpare, EndPass
<1>3. CASE Change \/ SdrKill \/ PingStderr \/ UNCHANGED vars
  BY <1>3 DEF Change, SdrKill, PingStderr, environment, watcher, vars
<1>4. ASSUME NEW i \in Instances,
             Progress(i) \/ FailRead(i) \/ ClockValid(i) \/ FailStart(i) \/ Crash(i)
      PROVE  phase' = "gone"
  BY <1>4 DEF Progress, SeeClosed, StartRead, EndRead, StartChild, Kill, ChildEnded,
     AfterChild, Restart, FailRead, ClockValid, FailStart, Crash, environment, watcher
<1> QED BY <1>2, <1>3, <1>4 DEF Next

(***************************************************************************)
(* When the four pointers are nil nothing runs of any receiver: a device   *)
(* is let go of only when its reader, its child and its handle are gone.   *)
(* This is what sdrKill waits for.                                         *)
(***************************************************************************)
NilMeansNothingRuns ==
  (\A b \in Bands : dev[b] = 0) => \A i \in Instances : ~ Alive(i)

(* The invariant says so of every device that is not the current one. *)
LEMMA InvNilMeansNothingRuns == SdrInv => NilMeansNothingRuns
<1> SUFFICES ASSUME SdrInv, \A b \in Bands : dev[b] = 0, NEW i \in Instances
             PROVE  ~ Alive(i)
  BY DEF NilMeansNothingRuns
<1>1. ~ Current(i)
  BY InstanceFacts DEF Current
<1>2. inst[i] = NoDevice
  BY <1>1 DEF SdrInv, NothingLeft
<1> QED BY <1>2 DEF Alive, NoDevice

(* At the moment sdrKill sees the four pointers nil no child, reader or    *)
(* handle is left, whatever is enabled, plugged in or crashing.            *)
THEOREM NilMeansNothingRunsKept ==
  Spec => []NilMeansNothingRuns
  BY InvNilMeansNothingRuns, Invariance, PTL

(***************************************************************************)
(* When the watcher has ended nothing of any receiver is left and nothing  *)
(* comes back.  Together with SdrKillEnds, which says that it ends, this   *)
(* is what the shutdown of the radios promises.                            *)
(***************************************************************************)
THEOREM StoppedForGood ==
  Spec => [](phase = "gone" => []Stopped)
<1>1. Init => KilledSoFar
  BY DEF Init, KilledSoFar
<1>2. SdrInv /\ KilledSoFar /\ phase = "gone" => Stopped
  <2> SUFFICES ASSUME SdrInv, KilledSoFar, phase = "gone"
               PROVE  Stopped
    OBVIOUS
  <2>1. \A b \in Bands : dev[b] = 0
    BY DEF KilledSoFar
  <2>2. \A i \in Instances : ~ Alive(i)
    BY <2>1, InvNilMeansNothingRuns DEF NilMeansNothingRuns
  <2> QED BY <2>1, <2>2 DEF Stopped
<1>3. SdrInv /\ KilledSoFar /\ [Next]_vars => KilledSoFar'
  BY KilledStepKeeps
<1>4. SdrInv /\ phase = "gone" /\ [Next]_vars => (phase = "gone")'
  BY GoneForGood
<1> QED BY <1>1, <1>2, <1>3, <1>4, Invariance, PTL DEF Spec
=============================================================================
