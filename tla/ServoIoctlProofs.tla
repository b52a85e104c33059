--------------------------- MODULE ServoIoctlProofs ---------------------------
(***************************************************************************)
(* The invariants of ServoIoctl for any number of servos and processes, any  *)
(* order of plugging, probing and unplugging.                                *)
(***************************************************************************)
EXTENDS ServoIoctl, TLAPS

\* Servos are with the driver only while it is loaded, and one of them has set device.
Served == {s \in Servos : interface[s] \in {"probing", "bound", "refused"}}
DeviceSet == Served # {} => loaded /\ device # None

\* device is the servo's that was probed last, before it is bound and after.
PointsToBound ==
    \A s \in Servos : interface[s] \in {"probing", "bound"} /\ since[s] = {} => device = s

\* A file belongs to a servo that was bound and can only go away; the open file keeps
\* the module, and so the servo's registration.
OwnerBound ==
    \A p \in Files : owner[p] \in Servos /\ interface[owner[p]] \in {"bound", "gone"}

IInv == IoctlTypeOK /\ DeviceSet /\ PointsToBound /\ OwnerBound /\ CodeStays /\ ReachesItsServo

-----------------------------------------------------------------------------
LEMMA InitInv == Init => IInv
<1> SUFFICES ASSUME Init PROVE IInv
  OBVIOUS
<1>1. DriverTypeOK /\ ProcessTypeOK
  BY DEF Init, DriverTypeOK, ProcessTypeOK
<1>2. loaded \in BOOLEAN
  BY Zenon DEF Init
<1>3. DeviceSet /\ PointsToBound
  BY DEF Init, DeviceSet, Served, PointsToBound
<1>4. Files = {}
  BY DEF Init, Files
<1>5. OwnerBound /\ CodeStays
  BY <1>4 DEF OwnerBound, CodeStays
<1>6. ReachesItsServo
  BY DEF Init, ReachesItsServo
<1> QED BY <1>1, <1>2, <1>3, <1>5, <1>6 DEF IInv, IoctlTypeOK

\* What a step must do to the devices for the files to stay right.
LEMMA DevicesMove ==
    ASSUME IInv, UNCHANGED processVars, DeviceSet', IoctlTypeOK', PointsToBound',
           Files # {} => loaded' /\ device' # None,
           \A s \in Servos : interface[s] \in {"bound", "gone"} /\ Files # {}
                                => interface'[s] \in {interface[s], "gone"},
           \A s \in Servos : interface'[s] = "bound" /\ since'[s] = {} => since[s] = {}
    PROVE  IInv'
<1>1. Files' = Files /\ owner' = owner /\ target' = target /\ pc' = pc
  BY DEF processVars, Files
<1>2. OwnerBound'
  BY <1>1 DEF IInv, OwnerBound
<1>3. CodeStays'
  BY <1>1 DEF IInv, CodeStays
<1>4. ReachesItsServo'
  <2> SUFFICES ASSUME NEW p \in Processes, pc[p] \in {"ioctl", "waiting"},
                      interface'[owner[p]] = "bound", since'[owner[p]] = {}
               PROVE  target[p] = owner[p]
    BY <1>1 DEF ReachesItsServo
  <2>1. p \in Files
    BY DEF Files
  <2>2. owner[p] \in Servos /\ interface[owner[p]] = "bound"
    BY <2>1 DEF IInv, OwnerBound
  <2>3. since[owner[p]] = {}
    BY <2>2
  <2> QED BY <2>2, <2>3 DEF IInv, ReachesItsServo
<1> QED BY <1>2, <1>3, <1>4 DEF IInv

LEMMA LoadStep == ASSUME IInv, MydriverInit PROVE IInv'
<1> DriverTypeOK /\ ProcessTypeOK
  BY DEF IInv, IoctlTypeOK
<1>1. Served = {} /\ Files = {}
  BY DEF MydriverInit, IInv, DeviceSet, CodeStays
<1>2. IoctlTypeOK'
  <2>1. (DriverTypeOK /\ ProcessTypeOK)'
    BY DEF MydriverInit, DriverTypeOK, ProcessTypeOK, processVars
  <2>2. loaded' \in BOOLEAN
    BY Zenon DEF MydriverInit
  <2> QED BY <2>1, <2>2 DEF IoctlTypeOK
<1>3. Served' = {} /\ interface' = interface /\ since' = since /\ UNCHANGED processVars
  BY <1>1 DEF MydriverInit, Served
<1>4. DeviceSet' /\ PointsToBound'
  BY <1>1, <1>3 DEF DeviceSet, PointsToBound, Served
<1> QED BY <1>1, <1>2, <1>3, <1>4, DevicesMove

LEMMA UnloadStep == ASSUME IInv, MydriverExit PROVE IInv'
<1> DriverTypeOK /\ ProcessTypeOK
  BY DEF IInv, IoctlTypeOK
<1>1. Files = {}
  BY DEF MydriverExit, ModuleRefs
<1>2. IoctlTypeOK'
  <2>1. (DriverTypeOK /\ ProcessTypeOK)'
    BY DEF MydriverExit, DriverTypeOK, ProcessTypeOK, processVars
  <2>2. loaded' \in BOOLEAN
    BY Zenon DEF MydriverExit
  <2> QED BY <2>1, <2>2 DEF IoctlTypeOK
<1>3. \A s \in Servos : interface'[s] \notin {"probing", "bound", "refused"}
  BY DEF MydriverExit, DriverTypeOK
<1>4. DeviceSet' /\ PointsToBound'
  BY <1>3 DEF DeviceSet, PointsToBound, Served
<1>5. since' = since /\ UNCHANGED processVars
  BY DEF MydriverExit
<1> QED BY <1>1, <1>2, <1>4, <1>5, DevicesMove

LEMMA PlugStep == ASSUME IInv, NEW s \in Servos, Plug(s) \/ Unplug(s) PROVE IInv'
<1> DriverTypeOK /\ ProcessTypeOK
  BY DEF IInv, IoctlTypeOK
<1>1. /\ UNCHANGED <<loaded, device, since, angle, processVars>>
      /\ \/ interface' = interface
         \/ interface[s] = "absent" /\ interface' = [interface EXCEPT ![s] = "idle"]
  BY DEF Plug, Unplug, driverVars, processVars
<1>2. IoctlTypeOK'
  <2>1. attached' \subseteq Servos
    BY DEF Plug, Unplug, DriverTypeOK
  <2>2. (DriverTypeOK /\ ProcessTypeOK)'
    BY <1>1, <2>1 DEF DriverTypeOK, ProcessTypeOK, processVars
  <2>3. loaded' \in BOOLEAN
    BY <1>1, Zenon DEF IInv, IoctlTypeOK
  <2> QED BY <2>2, <2>3 DEF IoctlTypeOK
<1>3. \A t \in Servos : interface'[t] = interface[t] \/ (interface[t] = "absent" /\ interface'[t] = "idle")
  BY <1>1 DEF DriverTypeOK
<1>4. DeviceSet' /\ PointsToBound'
  BY <1>1, <1>3 DEF IInv, DeviceSet, PointsToBound, Served
<1> QED BY <1>1, <1>2, <1>3, <1>4, DevicesMove DEF IInv, CodeStays

LEMMA ProbeStep == ASSUME IInv, NEW s \in Servos, MyProbe(s) PROVE IInv'
<1> DriverTypeOK /\ ProcessTypeOK
  BY DEF IInv, IoctlTypeOK
<1>1. /\ loaded /\ UNCHANGED <<loaded, attached, angle, processVars>>
      /\ device' = s /\ s # None
      /\ interface[s] = "idle" /\ interface' = [interface EXCEPT ![s] = "probing"]
      /\ since' = [t \in Servos |-> IF t = s THEN {} ELSE since[t] \cup {s}]
  BY IoctlAssumption DEF MyProbe, Probed
<1>2. IoctlTypeOK'
  <2>1. (DriverTypeOK /\ ProcessTypeOK)'
    BY <1>1 DEF DriverTypeOK, ProcessTypeOK, processVars
  <2>2. loaded' \in BOOLEAN
    BY <1>1, Zenon DEF IInv, IoctlTypeOK
  <2> QED BY <2>1, <2>2 DEF IoctlTypeOK
<1>3. \A t \in Servos : t # s => interface'[t] = interface[t] /\ since'[t] # {}
  BY <1>1 DEF DriverTypeOK
<1>4. interface'[s] = "probing"
  BY <1>1 DEF DriverTypeOK
<1>5. DeviceSet' /\ PointsToBound'
  BY <1>1, <1>3, <1>4 DEF DeviceSet, PointsToBound
<1> QED BY <1>1, <1>2, <1>3, <1>4, <1>5, DevicesMove

LEMMA RegisterStep ==
    ASSUME IInv, NEW s \in Servos, UsbRegisterDev(s) \/ MyDisconnect(s) PROVE IInv'
<1> DriverTypeOK /\ ProcessTypeOK
  BY DEF IInv, IoctlTypeOK
<1>1. PICK state \in {"bound", "refused", "gone"} :
        /\ interface' = [interface EXCEPT ![s] = state]
        /\ UNCHANGED <<loaded, device, since, attached, angle, processVars>>
        /\ interface[s] \in {"probing", "idle", "bound", "refused"}
        /\ state # "gone" => interface[s] = "probing"
  BY DEF UsbRegisterDev, MyDisconnect
<1>2. IoctlTypeOK'
  <2>1. (DriverTypeOK /\ ProcessTypeOK)'
    BY <1>1 DEF DriverTypeOK, ProcessTypeOK, processVars
  <2>2. loaded' \in BOOLEAN
    BY <1>1, Zenon DEF IInv, IoctlTypeOK
  <2> QED BY <2>1, <2>2 DEF IoctlTypeOK
<1>3. DeviceSet'
  BY <1>1 DEF IInv, DeviceSet, Served, DriverTypeOK
<1>4. PointsToBound'
  BY <1>1 DEF IInv, PointsToBound, DriverTypeOK
<1> QED BY <1>1, <1>2, <1>3, <1>4, DevicesMove DEF IInv, CodeStays, DriverTypeOK

\* A process that has no file afterwards, and none before or one that it closes.
LEMMA EndStep ==
    ASSUME IInv, NEW p \in Processes, NEW label \in {"done", "returned"}, To(p, label),
           label = "returned" => p \in Files,
           UNCHANGED <<driverVars, attached, command, target, owner>>,
           angle' \in [Servos -> 0..255]
    PROVE  IInv'
<1> DriverTypeOK /\ ProcessTypeOK
  BY DEF IInv, IoctlTypeOK
<1>1. /\ UNCHANGED <<loaded, interface, device, since, attached, target, owner>>
      /\ \A q \in Processes : pc'[q] = IF q = p THEN label ELSE pc[q]
  BY DEF driverVars, To, ProcessTypeOK
<1>2. IoctlTypeOK'
  <2>1. (DriverTypeOK /\ ProcessTypeOK)'
    BY DEF DriverTypeOK, ProcessTypeOK, driverVars, To
  <2>2. loaded' \in BOOLEAN
    BY <1>1, Zenon DEF IInv, IoctlTypeOK
  <2> QED BY <2>1, <2>2 DEF IoctlTypeOK
<1>3. (DeviceSet /\ PointsToBound)'
  BY <1>1 DEF IInv, DeviceSet, PointsToBound, Served
<1>4. Files' \subseteq Files
  BY <1>1 DEF Files
<1>5. (OwnerBound /\ CodeStays)'
  <2>1. OwnerBound'
    BY <1>1, <1>4 DEF IInv, OwnerBound
  <2>2. ASSUME NEW q \in Files' PROVE q \in Files /\ (pc'[q] \in {"ioctl", "waiting"} => pc'[q] = pc[q])
    BY <1>1, <1>4 DEF Files
  <2>3. \A q \in Files : loaded /\ device # None /\ (pc[q] \in {"ioctl", "waiting"} => target[q] # None)
    BY Zenon DEF IInv, CodeStays
  <2>4. CodeStays'
    BY <1>1, <2>2, <2>3, Zenon DEF CodeStays
  <2> QED BY <2>1, <2>4
<1>6. ReachesItsServo'
  BY <1>1 DEF IInv, ReachesItsServo
<1> QED BY <1>2, <1>3, <1>5, <1>6 DEF IInv, IoctlTypeOK

\* usb_open finds the bound servo; that it is bound means that device was set.
LEMMA OpenStep == ASSUME IInv, NEW p \in Processes, Open(p) PROVE IInv'
<1> DriverTypeOK /\ ProcessTypeOK
  BY DEF IInv, IoctlTypeOK
<1>1. CASE loaded /\ Bound # {}
  <2>1. PICK s \in Bound : owner' = [owner EXCEPT ![p] = s]
    BY <1>1 DEF Open
  <2>2. /\ UNCHANGED <<loaded, interface, device, since, attached, angle, command, target>>
        /\ pc' = [pc EXCEPT ![p] = "open"]
    BY <1>1 DEF Open, driverVars, To
  <2>3. IoctlTypeOK'
    <3>1. (DriverTypeOK /\ ProcessTypeOK)'
      BY <2>1, <2>2 DEF DriverTypeOK, ProcessTypeOK, Bound
    <3>2. loaded' \in BOOLEAN
      BY <2>2, Zenon DEF IInv, IoctlTypeOK
    <3> QED BY <3>1, <3>2 DEF IoctlTypeOK
  <2>4. (DeviceSet /\ PointsToBound)'
    BY <2>2 DEF IInv, DeviceSet, PointsToBound, Served
  <2>5. loaded /\ device # None
    BY <2>1 DEF IInv, DeviceSet, Served, Bound
  <2>6. \A q \in Processes : q # p => pc'[q] = pc[q] /\ owner'[q] = owner[q]
    BY <2>1, <2>2 DEF ProcessTypeOK
  <2>7. pc'[p] = "open" /\ owner'[p] = s
    BY <2>1, <2>2 DEF ProcessTypeOK
  <2>8. OwnerBound'
    BY <2>1, <2>2, <2>6, <2>7 DEF IInv, OwnerBound, Files, Bound
  <2>9. CodeStays'
    BY <2>2, <2>5, <2>6, <2>7 DEF IInv, CodeStays, Files
  <2>10. ReachesItsServo'
    BY <2>2, <2>6, <2>7 DEF IInv, ReachesItsServo
  <2> QED BY <2>3, <2>4, <2>8, <2>9, <2>10 DEF IInv, IoctlTypeOK
<1>2. CASE ~(loaded /\ Bound # {})
  BY <1>2, EndStep DEF Open, DriverTypeOK
<1> QED BY <1>1, <1>2

\* Within a file: the pointer is loaded, the message sent.
LEMMA CallStep ==
    ASSUME IInv, NEW p \in Files, NEW t \in Servos, NEW label \in {"ioctl", "waiting"},
           To(p, label), target' = [target EXCEPT ![p] = t],
           interface[owner[p]] = "bound" /\ since[owner[p]] = {} => t = owner[p],
           UNCHANGED <<driverVars, attached, angle, command, owner>>
    PROVE  IInv'
<1> DriverTypeOK /\ ProcessTypeOK /\ p \in Processes
  BY DEF IInv, IoctlTypeOK, Files
<1>1. UNCHANGED <<loaded, interface, device, since, attached, owner>>
  BY DEF driverVars
<1>2. \A q \in Processes : q # p => pc'[q] = pc[q] /\ target'[q] = target[q]
  BY DEF To, ProcessTypeOK
<1>3. pc'[p] = label /\ target'[p] = t
  BY DEF To, ProcessTypeOK
<1>4. IoctlTypeOK'
  <2>1. (DriverTypeOK /\ ProcessTypeOK)'
    BY DEF DriverTypeOK, ProcessTypeOK, driverVars, To
  <2>2. loaded' \in BOOLEAN
    BY <1>1, Zenon DEF IInv, IoctlTypeOK
  <2> QED BY <2>1, <2>2 DEF IoctlTypeOK
<1>5. (DeviceSet /\ PointsToBound)'
  BY <1>1 DEF IInv, DeviceSet, PointsToBound, Served
<1>6. Files' = Files
  BY <1>2, <1>3 DEF Files
<1>7. OwnerBound'
  BY <1>1, <1>6 DEF IInv, OwnerBound
<1>8. CodeStays'
  <2>1. \A q \in Files : loaded /\ device # None /\ (pc[q] \in {"ioctl", "waiting"} => target[q] # None)
    BY Zenon DEF IInv, CodeStays
  <2>2. t # None
    BY IoctlAssumption
  <2>3. \A q \in Files : pc'[q] \in {"ioctl", "waiting"} => target'[q] # None
    BY <1>2, <1>3, <2>1, <2>2 DEF Files
  <2> QED BY <1>1, <1>6, <2>1, <2>3, Zenon DEF CodeStays
<1>9. ReachesItsServo'
  BY <1>1, <1>2, <1>3 DEF IInv, ReachesItsServo
<1> QED BY <1>4, <1>5, <1>7, <1>8, <1>9 DEF IInv, IoctlTypeOK

LEMMA IoctlStep == ASSUME IInv, NEW p \in Processes, Ioctl(p) PROVE IInv'
<1> DriverTypeOK /\ ProcessTypeOK
  BY DEF IInv, IoctlTypeOK
<1>1. p \in Files
  BY DEF Ioctl, Files
<1>2. device \in Servos
  BY <1>1 DEF IInv, CodeStays, DriverTypeOK
<1>3. CASE command[p].word \in {"set", "status"}
  <2>1. interface[owner[p]] = "bound" /\ since[owner[p]] = {} => device = owner[p]
    BY <1>1 DEF IInv, PointsToBound, OwnerBound
  <2> QED BY <1>1, <1>2, <1>3, <2>1, CallStep DEF Ioctl
<1>4. CASE command[p].word \notin {"set", "status"}
  BY <1>1, <1>4, EndStep DEF Ioctl, DriverTypeOK
<1> QED BY <1>3, <1>4

\* Only a device that is gone is mistaken for another, and a bound one is not gone.
LEMMA SubmitStep == ASSUME IInv, NEW p \in Processes, Submit(p) \/ SubmitFreed(p) PROVE IInv'
<1> DriverTypeOK /\ ProcessTypeOK
  BY DEF IInv, IoctlTypeOK
<1>1. p \in Files /\ pc[p] = "ioctl"
  BY DEF Submit, SubmitFreed, Files
<1>2. target[p] \in Servos
  BY <1>1 DEF IInv, CodeStays, ProcessTypeOK
<1>3. interface[owner[p]] = "bound" /\ since[owner[p]] = {} => target[p] = owner[p]
  BY <1>1 DEF IInv, ReachesItsServo
<1>4. UNCHANGED <<driverVars, attached, angle, command, owner>>
  BY DEF Submit, SubmitFreed
<1>5. CASE \E label \in {"returned", "done"} : To(p, label) /\ UNCHANGED target
  BY <1>1, <1>4, <1>5, EndStep DEF DriverTypeOK
<1>6. CASE To(p, "waiting") /\ UNCHANGED target
  <2>1. target' = [target EXCEPT ![p] = target[p]]
    BY <1>6 DEF ProcessTypeOK
  <2> QED BY <1>1, <1>2, <1>3, <1>4, <1>6, <2>1, CallStep
<1>7. ASSUME interface[target[p]] = "gone", To(p, "waiting"),
             NEW s \in attached, target' = [target EXCEPT ![p] = s]
      PROVE  IInv'
  <2>1. s \in Servos /\ ~(interface[owner[p]] = "bound" /\ since[owner[p]] = {})
    BY <1>3, <1>7 DEF DriverTypeOK
  <2> QED BY <1>1, <1>4, <1>7, <2>1, CallStep
<1> QED BY <1>5, <1>6, <1>7 DEF Submit, SubmitFreed

LEMMA CompleteStep == ASSUME IInv, NEW p \in Processes, Complete(p) PROVE IInv'
<1> DriverTypeOK /\ ProcessTypeOK
  BY DEF IInv, IoctlTypeOK
<1>1. p \in Files
  BY DEF Complete, Files
<1>2. command[p].arg \in Int
  BY IoctlAssumption DEF ProcessTypeOK
<1>3. Angle(command[p].arg) \in 0..255
  BY <1>2 DEF Angle, Lo
<1>4. angle' \in [Servos -> 0..255]
  BY <1>3 DEF Complete, DriverTypeOK
<1> QED BY <1>1, <1>4, EndStep DEF Complete

LEMMA NextInv == IInv /\ [Next]_ioctlVars => IInv'
<1> SUFFICES ASSUME IInv, [Next]_ioctlVars PROVE IInv'
  OBVIOUS
<1>1. CASE MydriverInit \/ MydriverExit
  BY <1>1, LoadStep, UnloadStep
<1>2. ASSUME NEW s \in Servos, Plug(s) \/ Unplug(s) \/ MyProbe(s) \/ UsbRegisterDev(s) \/ MyDisconnect(s)
      PROVE  IInv'
  BY <1>2, PlugStep, ProbeStep, RegisterStep
<1>3. ASSUME NEW p \in Processes, Process(p) PROVE IInv'
  <2> angle \in [Servos -> 0..255]
    BY DEF IInv, IoctlTypeOK, DriverTypeOK
  <2>1. CASE UserappEnds(p) \/ Close(p)
    BY <2>1, EndStep DEF UserappEnds, Close
  <2>2. CASE Fails(p)
    <3>1. p \in Files
      BY <2>2 DEF Fails, Files
    <3> QED BY <2>2, <3>1, EndStep DEF Fails
  <2> QED BY <1>3, <2>1, <2>2, OpenStep, IoctlStep, SubmitStep, CompleteStep DEF Process
<1>4. CASE UNCHANGED ioctlVars
  <2>1. UNCHANGED <<driverVars, processVars, attached, angle, loaded, interface, device, since, command, pc, target, owner>>
    BY <1>4 DEF ioctlVars, driverVars, processVars
  <2>2. (DriverTypeOK /\ ProcessTypeOK)'
    BY <2>1 DEF IInv, IoctlTypeOK, DriverTypeOK, ProcessTypeOK
  <2>3. loaded' \in BOOLEAN
    BY <2>1, Zenon DEF IInv, IoctlTypeOK
  <2>4. (DeviceSet /\ PointsToBound /\ OwnerBound /\ CodeStays /\ ReachesItsServo)'
    BY <2>1 DEF IInv, DeviceSet, PointsToBound, OwnerBound, CodeStays, ReachesItsServo, Served, Files
  <2> QED BY <2>2, <2>3, <2>4 DEF IInv, IoctlTypeOK
<1> QED BY <1>1, <1>2, <1>3, <1>4 DEF Next

LEMMA Invariance == Spec => []IInv
BY InitInv, NextInv, PTL DEF Spec

-----------------------------------------------------------------------------
\* Every variable keeps its range; an angle is a byte whatever number is passed on.
THEOREM IoctlTypes == Spec => []IoctlTypeOK
<1>1. IInv => IoctlTypeOK
  BY DEF IInv
<1> QED BY <1>1, Invariance, PTL

\* However often the module is loaded and whatever is unplugged, no open file is without
\* the driver and no ioctl finds a NULL pointer.
THEOREM CodeAlwaysStays == Spec => []CodeStays
<1>1. IInv => CodeStays
  BY DEF IInv
<1> QED BY <1>1, Invariance, PTL

\* A single pointer is enough as long as no second servo is probed.
THEOREM CallsReachTheirServo == Spec => []ReachesItsServo
<1>1. IInv => ReachesItsServo
  BY DEF IInv
<1> QED BY <1>1, Invariance, PTL
=============================================================================
