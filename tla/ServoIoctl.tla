------------------------------ MODULE ServoIoctl ------------------------------
(***************************************************************************)
(* The kernel driver (commandline-ioctl/servo_ioctl.c) and its user program  *)
(* (userapp.c).  One pointer, device, serves every servo and every open      *)
(* file: probing sets it, nothing clears it, each ioctl reads it once.       *)
(*                                                                          *)
(* Plugging in makes a new device, so an element of Servos is plugged in     *)
(* once.  The memory of a device is free as soon as it is disconnected.      *)
(***************************************************************************)
EXTENDS UsbRequests

CONSTANTS
    Servos,         \* devices with the IDs of my_id_table
    Answering,      \* those that answer; the others NAK for ever
    Processes,
    Apps,           \* the processes that run userapp; the others make an ioctl as they like
    Commands,       \* records: argc, word (argv[1]), arg (what atoi makes of argv[2])
    None

ASSUME IoctlAssumption ==
    /\ Answering \subseteq Servos /\ Apps \subseteq Processes
    /\ None \notin Servos
    /\ \A r \in Commands : r.argc \in Nat /\ r.arg \in Int

VARIABLES
    loaded,         \* the module
    attached,       \* servos that are plugged in
    interface,      \* what the USB core and the driver know of each
    device,         \* the driver's pointer
    angle,          \* of each servo
    command, pc,    \* of each process
    target,         \* the device its ioctl has loaded
    owner,          \* history: the servo whose file it has opened
    since           \* history: the servos probed since this one was

driverVars  == <<loaded, interface, device, since>>
processVars == <<command, pc, target, owner>>
ioctlVars   == <<driverVars, attached, angle, processVars>>

Init ==
    /\ loaded = FALSE /\ attached = {} /\ device = None
    /\ interface = [s \in Servos |-> "absent"]
    /\ angle = [s \in Servos |-> 0]
    /\ command \in [Processes -> Commands]
    /\ pc = [p \in Processes |-> "start"]
    /\ target = [p \in Processes |-> None]
    /\ owner = [p \in Processes |-> None]
    /\ since = [s \in Servos |-> {}]

Files == {p \in Processes : pc[p] \in {"open", "ioctl", "waiting", "returned"}}
Bound == {s \in Servos : interface[s] = "bound"}

-----------------------------------------------------------------------------
(* The module and the devices *)

\* mydriver_init returns 0 whatever usb_register says; a failure would leave a module
\* that is never asked anything.  The statics are those of a fresh module.
MydriverInit ==
    /\ ~loaded
    /\ loaded' = TRUE /\ device' = None
    /\ UNCHANGED <<attached, interface, since, angle, processVars>>

\* Mutant: no owner in fops, so that open files do not count.
ModuleRefs_NoOwner == {}
ModuleRefs == Files

\* mydriver_exit: usb_deregister waits for a probe and takes the driver off every device.
MydriverExit ==
    /\ loaded /\ ModuleRefs = {}
    /\ \A s \in Servos : interface[s] # "probing"
    /\ loaded' = FALSE
    /\ interface' = [s \in Servos |-> IF interface[s] \in {"bound", "refused"} THEN "idle" ELSE interface[s]]
    /\ UNCHANGED <<attached, device, since, angle, processVars>>

Plug(s) ==
    /\ interface[s] = "absent"
    /\ interface' = [interface EXCEPT ![s] = "idle"]
    /\ attached' = attached \cup {s}
    /\ UNCHANGED <<loaded, device, since, angle, processVars>>

Unplug(s) ==
    /\ s \in attached
    /\ attached' = attached \ {s}
    /\ UNCHANGED <<driverVars, angle, processVars>>

\* Mutant: the first servo is kept.
Probed_First(s) == IF device = None THEN s ELSE device
Probed(s) == s

\* my_probe.  Servos at different hubs, or found by the hub and by loading, interleave.
MyProbe(s) ==
    /\ loaded /\ interface[s] = "idle" /\ s \in attached
    /\ device' = Probed(s)
    /\ interface' = [interface EXCEPT ![s] = "probing"]
    /\ since' = [t \in Servos |-> IF t = s THEN {} ELSE since[t] \cup {s}]
    /\ UNCHANGED <<loaded, attached, angle, processVars>>

\* usb_register_dev: the name "servo" can be taken once; the loser is left without a driver.
UsbRegisterDev(s) ==
    /\ interface[s] = "probing"
    /\ interface' = [interface EXCEPT ![s] = IF Bound = {} THEN "bound" ELSE "refused"]
    /\ UNCHANGED <<loaded, device, since, attached, angle, processVars>>

\* my_disconnect, and the end of the device: messages in flight have failed before.
MyDisconnect(s) ==
    /\ s \notin attached /\ interface[s] \in {"idle", "bound", "refused"}
    /\ \A p \in Processes : ~(pc[p] = "waiting" /\ target[p] = s)
    /\ interface' = [interface EXCEPT ![s] = "gone"]
    /\ UNCHANGED <<loaded, device, since, attached, angle, processVars>>

-----------------------------------------------------------------------------
(* A process *)

To(p, label) == pc' = [pc EXCEPT ![p] = label]

\* userapp without arguments, with an unknown word, and with no angle (atoi of NULL).
UserappEnds(p) ==
    /\ pc[p] = "start" /\ p \in Apps
    /\ command[p].argc < 3 \/ command[p].word # "set"
    /\ To(p, "done")
    /\ UNCHANGED <<driverVars, attached, angle, command, target, owner>>

\* /dev/servo leads to the bound servo's minor, if there is one.
Open(p) ==
    /\ pc[p] = "start"
    /\ p \in Apps => command[p].argc >= 3 /\ command[p].word = "set"
    /\ IF loaded /\ Bound # {}
       THEN To(p, "open") /\ \E s \in Bound : owner' = [owner EXCEPT ![p] = s]
       ELSE To(p, "done") /\ UNCHANGED owner
    /\ UNCHANGED <<driverVars, attached, angle, command, target>>

\* servo_ioctl up to the call; other commands than the two do nothing.
Ioctl(p) ==
    /\ pc[p] = "open"
    /\ IF command[p].word \in {"set", "status"}
       THEN To(p, "ioctl") /\ target' = [target EXCEPT ![p] = device]
       ELSE To(p, "returned") /\ UNCHANGED target
    /\ UNCHANGED <<driverVars, attached, angle, command, owner>>

\* usb_control_msg to a device that is there, or still known.
Submit(p) ==
    /\ pc[p] = "ioctl" /\ interface[target[p]] # "gone"
    /\ To(p, IF target[p] \in attached THEN "waiting" ELSE "returned")
    /\ UNCHANGED <<driverVars, attached, angle, command, target, owner>>

\* ... to one whose memory is free: an error, the end of the process, or whatever device
\* has its place now.
SubmitFreed(p) ==
    /\ pc[p] = "ioctl" /\ interface[target[p]] = "gone"
    /\ \/ \E label \in {"returned", "done"} : To(p, label) /\ UNCHANGED target
       \/ To(p, "waiting") /\ \E s \in attached : target' = [target EXCEPT ![p] = s]
    /\ UNCHANGED <<driverVars, attached, angle, command, owner>>

\* The servo takes the low byte of wValue; neither userapp nor servo_ioctl checks a range.
\* Mutant: it takes all of wValue.
Angle_Word(arg) == arg % 65536
Angle(arg) == Lo(arg)

\* CMD_GET changes nothing.
Complete(p) ==
    /\ pc[p] = "waiting" /\ target[p] \in attached \cap Answering
    /\ angle' = IF command[p].word = "set" THEN [angle EXCEPT ![target[p]] = Angle(command[p].arg)] ELSE angle
    /\ To(p, "returned")
    /\ UNCHANGED <<driverVars, attached, command, target, owner>>

\* The timeout of CMD_SET is 0: it waits as long as the servo is there.
\* Mutant: CMD_GET waits like this too.
TimesOut_Never(word) == FALSE
TimesOut(word) == word = "status"

Fails(p) ==
    /\ pc[p] = "waiting"
    /\ target[p] \notin attached \/ TimesOut(command[p].word)
    /\ To(p, "returned")
    /\ UNCHANGED <<driverVars, attached, angle, command, target, owner>>

\* The ioctl has returned 0 whatever happened; the process closes the file.
Close(p) ==
    /\ pc[p] = "returned"
    /\ To(p, "done")
    /\ UNCHANGED <<driverVars, attached, angle, command, target, owner>>

Process(p) ==
    \/ UserappEnds(p) \/ Open(p) \/ Ioctl(p) \/ Submit(p) \/ SubmitFreed(p)
    \/ Complete(p) \/ Fails(p) \/ Close(p)

Next ==
    \/ MydriverInit \/ MydriverExit
    \/ \E s \in Servos : Plug(s) \/ Unplug(s) \/ MyProbe(s) \/ UsbRegisterDev(s) \/ MyDisconnect(s)
    \/ \E p \in Processes : Process(p)

\* Processes run, answers and timeouts come.
Spec == Init /\ [][Next]_ioctlVars /\ \A p \in Processes : WF_ioctlVars(Process(p))

-----------------------------------------------------------------------------
DriverTypeOK ==
    /\ attached \subseteq Servos /\ device \in Servos \cup {None}
    /\ interface \in [Servos -> {"absent", "idle", "probing", "bound", "refused", "gone"}]
    /\ angle \in [Servos -> 0..255]
    /\ since \in [Servos -> SUBSET Servos]

ProcessTypeOK ==
    /\ command \in [Processes -> Commands]
    /\ pc \in [Processes -> {"start", "open", "ioctl", "waiting", "returned", "done"}]
    /\ target \in [Processes -> Servos \cup {None}]
    /\ owner \in [Processes -> Servos \cup {None}]

\* Everything keeps its range; whatever number userapp is given, an angle is a byte.
IoctlTypeOK == DriverTypeOK /\ ProcessTypeOK /\ loaded \in BOOLEAN

\* While a file is open its code and the pointer's memory are there (owner in fops): no
\* ioctl is left without a module, none finds device still NULL.
CodeStays ==
    \A p \in Files :
        /\ loaded /\ device # None
        /\ pc[p] \in {"ioctl", "waiting"} => target[p] # None

\* The call of an open file goes to the servo whose file it is, as long as that one is
\* bound and no other servo has been probed since.  (With another one it goes wrong.)
ReachesItsServo ==
    \A p \in Processes :
        pc[p] \in {"ioctl", "waiting"} /\ interface[owner[p]] = "bound" /\ since[owner[p]] = {}
            => target[p] = owner[p]

\* Every ioctl returns, but for a set to a device that neither answers nor goes away.
CallsReturn ==
    \A p \in Processes :
        pc[p] = "open" ~>
            \/ pc[p] = "done"
            \/ pc[p] = "waiting" /\ command[p].word = "set" /\ target[p] \in attached \ Answering
=============================================================================
