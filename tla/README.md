# The USB servo, checked and proved

TLA+ models of the software in this repository: the firmware of a USB servo (an
AVR microcontroller with a USB driver in software) and the host programs that
drive it. TLC checks the models on small instances, TLAPS proves theorems
about them for every value of the constants.

    tlc -workers 2 -config MCUsbDrv.cfg MCUsbDrv      # a run
    tlapm UsbDrvProofs.tla                            # the proofs

`PROJECT.json` lists runs, properties, the source lines each definition
models, the hazards the properties are aimed at, and for every property a
mutant: a plausible bug that breaks it. A mutant is a definition of its own
(`IsLast_Never`) in front of the one it would replace (`IsLast`); no
specification uses it.

In what follows `fw/` is `src/Project_Servomotor_libusb_ioctl/firmware/`.

## 1. The system

| Component | Source | State | Operations | Modelled in |
|---|---|---|---|---|
| USB interrupt routine | `fw/usbdrv/usbdrvasm.S` | receive buffers, current token, transmit length, device address | one per received packet | `UsbDrv` (`Interrupt`); its bits: `UsbWire`, `UsbLink` |
| USB driver main loop | `fw/usbdrv/usbdrv.c` | message pointer/length/flags, new address, reset flag | `usbPoll`, `usbProcessRx`, `usbBuildTxBlock`, `usbRead`, `usbInit` | `UsbDrv` (`Main`) |
| Servo application | `fw/main.c`, `common/usbservo.h` | `angle`, `replyBuffer`, the timer's overflow flag | `usbFunctionSetup` (echo, get, set), `timerInterrupt`, `main` | `UsbDrv` (`ProcessVendor`), `ServoRegister`; the pulse: `ServoPwm` |
| Requests and descriptors | `usbdrv.h`, `usbservo.h`, `usbconfig.h`, `usbdrv.c` | none | what each request and each descriptor answers | `UsbRequests`, `UsbDescriptors` |
| libusb client | `commandline-libusb/` | none across calls | open by name, `dev_test`, `dev_set`, `dev_status` | `UsbClient`, `UsbServoTool`; its transfers packet by packet: `MCServoBus` |
| X pointer client | `commandline-libusb/xservopointer.c` | last position | `update` every 100 ms | `XServoPointer` |
| ioctl kernel driver and its user program | `commandline-ioctl/` | `device`, registration, open files | init, probe, disconnect, open, `servo_ioctl`, close, exit | `ServoIoctl`; its transfers packet by packet: `MCServoBus` |
| USB host controller, `usb_control_msg` | outside `src/` | control transfer in progress | setup, data and status stage; reset | `ServoBus` (external) |
| Accelerometer driver and its user program | `Assignment-1_ADXL/` | nodes, ranges in the kernel's map, the global `i` | init with error paths, open, read, exit | `Adxl` |
| RAM disk driver | `Assignment-2_DOF/` | disk contents with partition table, request queue, kernel objects | init, transfer, exit | `MyDisk`, `SectorStore` |
| Block layer | outside `src/` | queue, plug, open devices | open, submit, merge, unplug | `MyDisk` (external) |
| Debug output, generated and licence files, binaries | `fw/usbdrv/oddebug.*`, ... | - | - | not modelled |

How they interact. The host controller sends packets; every packet raises
INT0. The interrupt routine runs with interrupts disabled and answers within
the packet's time, so it is atomic towards the main loop. The main loop calls
`usbPoll`, which never disables interrupts. The two share `usbRxBuf`,
`usbRxLen`, `usbRxToken`, `usbAppBuf`, `usbTxBuf`, `usbTxLen` and the addresses,
with two hand-shakes and no lock:

* *receive*: `usbRxLen = 0` means the interrupt routine owns both buffers; it
  stores a packet, swaps the buffers and sets `usbRxLen`; `usbPoll` processes
  the packet and sets it back to 0. Meanwhile data are answered with NAK.
* *transmit*: `usbTxLen` with bit 4 set is a handshake token, and the main loop
  owns `usbTxBuf`; with bit 4 clear it is a length, and the next IN token sends the
  packet. The interrupt routine sets it back when it sends, and also when a
  SETUP or OUT token arrives.

What is hard about it: packets between any two steps of the main loop; a SETUP
token that aborts a transmission the main loop is just preparing; the address
that must change exactly with the status stage of `SET_ADDRESS`; packets counted
as sent although the host dropped them; a reset noticed only while it lasts;
clients that time out and start again; counters of eight bits that share
a byte with flags. `PROJECT.json` lists them under "hazards", each at its line.

What makes each component correct:

* interrupt routine and `usbPoll`: neither ever reads what the other is writing;
  what is acknowledged is processed once, unchanged, under its own token.
* replies: whole, in order, with alternating data PIDs from DATA1, no longer
  than asked for; to the request being made and no other.
* addresses: device and host agree whenever a token is on the wire.
* application: to one client at a time a register for the angle.
* libusb programs: among devices with the same IDs they find the servo, whatever else is there, and
  hold nothing else open; what they report as set was set; the servo ends up pointing at the mouse.
* kernel driver: code and pointer are there while a file is open; a call reaches the servo whose file
  it is, as far as one pointer can; calls return.
* accelerometer: ten bits to each reader; every node leads to the driver, however often it was loaded.
* RAM disk: what was written is read back; what is written to one partition stays out of the other; nothing is freed
  that is in use; everybody is served.
* main loop: once it runs, `usbPoll` comes round in time and sees every bus reset; no pulse is late.

## 2. Modules

| Module | What it is |
|---|---|
| `UsbRequests` | request numbers, and how long the answer to each is |
| `UsbDrv` | the device: interrupt routine, `usbPoll`, `usbFunctionSetup`, on a bus that may carry anything |
| `UsbWire` | its bits: NRZI, bit stuffing, receive buffer and CRC against the definitions of USB 1.1 |
| `UsbLink` | EXTENDS `UsbWire`: its sender and its receiver at a wire, one bit per step |
| `UsbLinkProofs` | what is sent arrives: packets of at least a PID, of any bytes and length |
| `MCUsbDrv` | constants for TLC |
| `UsbDrvProofs` | the inductive invariant of `UsbDrv` and the theorems |
| `ServoBus` | EXTENDS `UsbDrv`: a host that makes control transfers, resets the bus, talks to others |
| `ServoBusProofs` | the bus implements `UsbDrv`; types; the order of requests; with clean traffic: fresh and complete replies, agreed addresses, and that the bus implements `ServoRegister` |
| `ServoRegister` | abstract: what the servo promises a client |
| `ServoBusRegister` | EXTENDS `ServoBus`: the refinement mapping to `ServoRegister` |
| `MCServoBus` | the requests of this repository's clients, and five configurations |
| `ServoPwm`, `MCServoPwm` | the firmware in time: the second before the main loop, then pulses, overflows, bus resets |
| `ServoPwmProofs` | its inductive invariant and theorems |
| `UsbDescriptors` | the descriptors byte by byte, and `usbGetStringAscii` |
| `UsbClient` | `usbOpenDevice` among devices that may be unplugged; what the two programs share |
| `UsbServoTool`, `XServoPointer` | EXTEND `UsbClient`: the command line tool, the X pointer client |
| `ServoClients`, `MCServoClients` | both programs at one servo |
| `ServoClientsProofs` | its inductive invariant and theorems |
| `ServoIoctl`, `MCServoIoctl` | the kernel driver, its devices and files, and `userapp` |
| `ServoIoctlProofs` | its inductive invariant and theorems |
| `Adxl`, `MCAdxl` | the accelerometer driver from loading to unloading, its readers and `useradxl` |
| `AdxlProofs` | its inductive invariant and theorems |
| `MyDisk` | the RAM disk driver under the block layer, from loading to unloading |
| `MyDiskProofs` | its inductive invariant and theorems; that it implements `SectorStore` |
| `SectorStore` | abstract: what a disk promises, and what this driver promises of merged requests |
| `MyDiskStore`, `MCMyDisk` | the refinement mapping; jobs at the borders of the partitions |

### UsbDrv: state and actions against the code

Variables have the names of the source. Those that differ:

* `usbTxBuf` is a record: the PID in `usbTxBuf[0]`; where the data came from (`loc`, `off`),
  how many (`len`) and what number they make (`val`); whether the two bytes behind
  them are their CRC (`crc`); and, as history, the message they belong to (`ans`).
* `scratch` is `usbTxBuf[9]`, which `usbProcessRx` uses as `replyData[0]`. With seven
  or eight bytes of data it is one of the CRC bytes.
* `usbMsgPtr` names what it points to and how far it has advanced.
* `replyBuffer` is the number its first two bytes make.
* `pc`, `len` and `block` are the main loop's place and locals; `se0` is the state
  of the wire; `msgFor` and `acked` are history: the packet being answered, and
  the packet last acknowledged.
* a received packet is a record of the fields the driver looks at, with the number
  of its bytes and an `id` that names the transfer; `Junk` is anything else.

The interrupt routine is one action per way through it, in the order of its
tests: `RxIgnored` (too short, overflow, unknown PID), `IsSetupOrOut`,
`OtherOutOrSetup`, `DataIgnored`, `DataNaked`, `DataZeroLength`, `DataAccepted`,
`InIgnored`, `InHandshake`, `InData`. A token and its data are two interrupts (or
one with a shortcut, `usbdrvasm.S:462-464`), hence two actions between which the
main loop may run.

`usbPoll` is split at every access to shared memory: `Poll` (reads `usbRxLen`),
`ProcessStandard`, `ProcessVendor` or `ProcessOther` (`usbProcessRx`; the interrupt
routine cannot reach what it reads, which `MessageIntact` shows, and of what it
writes reads only `usbTxBuf` and `usbNewDeviceAddr`), `Release`, `TxSkip` or
`BuildTxBlock`, `UsbRead`, `Crc16Append`, `SetToken`, `Arm`, and the reset check with
the two assignments of addresses apart (`ResetSeen`, `ResetAddress`).

Left out: options `usbconfig.h` does not select (interrupt endpoints, own read and
write functions, flow control, `USB_CFG_IMPLEMENT_HALT`); `type` 3, which is
reserved by USB; reordering by the compiler (see the hazard at `usbdrv.c:484`).

### UsbWire

`UsbDrv` takes for granted that a packet arrives as it was sent. `UsbWire` is what that rests on: functions
for one step of the sender (`TxBit`), of the receiver (`RxBit`, which is the unrolled loop of
`usbdrvasm.S` with the mask it leaves in `shift`, the correction it keeps in `x3` and the bits it does not look at) and of
the CRC, each against what USB 1.1 defines (`Stuffed`, `Nrzi`, `PolynomialCrc`). There is no state, hence no
run of its own: the four assumptions at its end are evaluated in the run of `MCUsbDrv`.

`UsbLink` makes a state machine of the first two, so that what they do with a whole packet is an invariant and not a
recursive function, of which nothing could be proved. `SendBit` is one pass of `txLoop` (`TxBit`) and what `rxLoop` makes of
the one or two levels it puts on the wire (`RxStep`); the receiver starts behind the sync byte. `ones` is the count by which
USB defines stuffing. `SendEop` ends the packet; of the two bit times of SE0 a hub may spoil the first. The firmware's own sender stands for
the host's: `SendsByTheStandard` says that it sends what any device would. Its three properties are proved
(`UsbLinkProofs`) and need no run: `UsbWire`'s assumptions evaluate the same steps for the packets that a run could have.

### ServoBus

The host makes one control transfer at a time: SETUP, data stage, status stage.
Its packets are the interrupt actions of `UsbDrv`, conjoined with the change
of the host's own state. It repeats what gets a NAK or no answer, drops a packet
with a bad CRC or the wrong toggle, and takes the transfer for finished when a short
packet or the last byte asked for has come. `Call`, `Abort` and the requests are taken from the clients
in `src/`; the rest is the USB standard as far as the driver relies on it, and marked external.

It begins with the main loop running. In the second before it (`fw/main.c:98-103`) the device is already on the bus, acknowledges a
SETUP that it will not process for up to a second, and does not see resets; that second is in `ServoPwm` only.

Assumptions about the host: a reset lasts until `usbPoll` has noticed it, and the next one
waits until `usbPoll` has noticed its end (`HostReset`, `HostResetEnds`). `ServoPwm` shows from
which lengths on that is so.

### ServoPwm

`ServoBus` has no time; `ServoPwm` has nothing else. Its unit is one round of the
second delay loop, 70 us at the `F_CPU` of the firmware's Makefile; loops and timer
share the clock, so their ratio is right for any crystal (`usbdrv.h:32` asks for one of
12 MHz, where a unit is 93 us, a pulse up to 33 ms and the host's 50 ms are
536 units). `UsbPoll` takes any of `PollTimes`, a pulse its time plus
what interrupts steal (`Stolen`). It begins when `usbInit` and `sei` have put the device on the bus. What follows are ten delays of 100 ms in which nobody
looks at the bus (`Delay`, with `i` counting them). `TimerInterrupt` and `UsbPoll` are the two things the main loop then does,
each with the time that passes; `HostReset` may come between any two of all these.

What the three properties promise begins with the main loop. During the delays a SETUP waits for up to a second, there are no pulses, and a reset that
is over before the loop is seen by nobody: then `noticed` stays FALSE until the next reset. `due` says which resets the loop has
to see, and `ResetNoticed` is about those: the ones that begin in the loop, and the ones that last into it for
longer than one `usbPoll`. The comment in `main.c` gives the reason for the delays and says nothing about resets in them; after power-up the address
is 0 anyway, but a SETUP acknowledged before such a reset is still processed after it.

The assumption on the host (`HostAssumption`) is not met by every host: a pulse takes up to 25 ms, and a
reset that fits into one is not noticed. Root hubs keep up a reset for 50 ms; the
minimum a hub behind them must keep up is 10 ms. The comment that pulses come every 20 ms (`fw/main.c:22-25`)
does not hold for the largest angles, whose pulse alone is longer; `PulsesInTime` is the bound that does hold.

### The libusb programs

In `UsbClient` a control message is one action; what `ServoBus` shows of it is kept: it is executed once, and after a
set with a data stage the next answer may be something old (`leftover`). One action per device opened or refused and per
string read, in the order of `usbOpenDevice`; a device may be pulled out in between. The strings are those of
`UsbDescriptors`, computed from the bytes as `usbGetStringAscii` does, with its uninitialised buffer. `UsbServoTool` has `main`'s
tests of its arguments and the three commands; `XServoPointer` has `update` in two halves, since the mouse and others go
on between `XQueryPointer` and the message. The angle for a position is the constant `Aim`: its arc tangent is left out.

### ServoIoctl

`interface` follows a device through the USB core and the driver: idle, probing (`my_probe` has set `device`,
`usb_register_dev` is to come), bound or refused, gone. A process opens, loads `device` (`Ioctl`), submits
(`Submit`, or `SubmitFreed` once the memory is free), waits, returns, closes. A file keeps the module (`owner` in `fops`), but not the
device. `ReachesItsServo` has two conditions, and both are needed: with a second servo probed, or the own one pulled out, the
one pointer leads to another device. That is a defect of the driver, and the hazards name its lines.

### Adxl

`step` is the call of `mychar_init` or `mychar_exit` that is next. The kernel's map (`mapped`) keeps, with its load, every range that
`cdev_add` has added; `CdevDel` takes away what the kernel can find again, and so leaves one behind each time: `c_dev_x` was added
twice, and only the second place is known. `Leads` and `Stale` say where an open ends up. A read is four actions,
since all readers share `i`.

### MyDisk

`pc` is where `mydisk_init` or `mydisk_exit` is, `held` what it has obtained from the kernel: one action per
object, each with its failure. `dev_data` keeps only `Tracked` sectors, those that some job reaches and
the two the driver fills; the contents of a sector are who wrote it and which sector of his
memory it was. A request is a sequence of bios, the segments of `rq_for_each_segment`.

`MydiskTransfer` puts all segments where the request begins, as the code does; `Written`
and `Read` say what that makes of disk and memory. A round of the loop of
`mydisk_request` is one action; the queue's lock is held throughout (`running`), so `Submit` waits.

The block layer checks a bio against partition and capacity, appends or prepends it to a request it
touches or queues it, and calls `mydisk_request` once when the task unplugs. The I/O scheduler may serve in any order.

`PartitionsIsolated` has two halves. A sector changes only if a write of the request under way names it, and the client of that write has the sector's
partition open and no other. Whose data come to lie there is another matter: a request that was merged across the border between the partitions has
bios of both, and its segments all go to its first sector, so that one client's data land in a sector of the
other's partition. That is the defect that `disk_segments` shows (`start_sector` does not advance), at the border. Therefore the second half, about whose data are written
and what is read, is about requests all of whose bios are of one device (`OneDevice`); without that condition TLC finds the case at once.

`SectorStore` states what clients get. `StoreSpec` is what the driver keeps to: exact for a
bio alone in its request, and for merged ones only that other sectors are left alone.
`ExactSpec` is a disk; `disk_segments` shows that the driver is none.

## 3. Runs

| Run | Configuration | Expectation | Properties | What it shows |
|---|---|---|---|---|
| `usb_drv` | `MCUsbDrv.cfg` | pass | `TypeOK`, `MessageIntact`, `PacketWhole`, `Toggled`, `WithinLength`, `AddressAfterReset`, `OnlySetupActs` | The device on a bus where any packet may arrive between any two steps of usbPoll: what interrupt routine and main loop hand each other without locks stays consistent. |
| `servo_bus` | `MCServoBus.cfg` | pass | `BusTypeOK`, `NoStaleReply`, `NothingDropped`, `ReplyComplete`, `AddressAgreed`, `SetupNotNaked`, `CallsReturn`, `ImplementsRegister` | Enumeration and the kernel driver's requests, which leave no packet behind, with bus resets and traffic for another device: every call returns, with the reply to itself, and the servo is a register for the angle. |
| `servo_bus_timeouts` | `MCServoBusTimeouts.cfg` | pass | `RequestsInOrder`, `SetTakesEffect` | With dev_set's data stage, replies that leave packets behind, client timeouts and resets: what was acknowledged is still executed once, in order, and a set still takes effect. |
| `stale_reply` | `MCServoBusStale.cfg` | violation | `NoStaleReply` | dev_set followed by another command: a zero-length packet prepared for the data stage is waiting when the next SETUP has been acknowledged. |
| `setup_naked` | `MCServoBusNak.cfg` | violation | `SetupNotNaked` | The early zero-length packet lets the host finish while the data of dev_set still occupy the buffer: the next SETUP is NAKed. |
| `address_early` | `MCServoBusAddress.cfg` | violation | `AddressAgreed` | A descriptor of which the host asked for the first eight bytes leaves a zero-length packet pending; it is sent as, or with, a later packet and the address changes before the status stage of SET_ADDRESS. |
| `servo_pwm` | `MCServoPwm.cfg` | pass | `PwmTypeOK`, `PolledInTime`, `ResetNoticed`, `PulsesInTime` | Start-up and main loop with pulses of every length. In the loop usbPoll comes round in time for SETUPs, sees every bus reset that begins there or reaches into it from the second before for a whole usbPoll, and the servo gets its pulses although overflows are kept in a single bit. Resets that are over before the loop go unseen. |
| `my_disk` | `MCMyDisk.cfg` | pass | `DiskTypeOK`, `WithinDisk`, `NothingFreedInUse`, `PartitionsFound`, `PartitionsIsolated`, `Served`, `ImplementsStore` | Loading with every failure, clients at the border of the partitions, merged and reordered requests, unloading: transfers stay within the disk, a client of one partition changes and reads no sector of the other unless bios of both are merged, everybody is served, a bio served alone is read or written exactly. |
| `disk_segments` | `MCMyDiskSegments.cfg` | violation | `ImplementsDisk` | Two adjacent writes merged into one request: the second is written over the first, and its own sector stays as it was. |
| `servo_clients` | `MCServoClients.cfg` | pass | `ClientsTypeOK`, `OpensCounterpart`, `FindsServo`, `SetsWhatWasAsked`, `PointsAtPointer` | Command line tool and X pointer client on a bus with look-alikes of the servo, one of which may be pulled out at any moment: they find the servo and no other, an angle that is reported as set was set, and the servo ends up pointing at the mouse. |
| `servo_ioctl` | `MCServoIoctl.cfg` | pass | `IoctlTypeOK`, `CodeStays`, `ReachesItsServo`, `CallsReturn` | The kernel driver with two devices plugged in and out and probed at the same time, and two processes: code and pointer are there while a file is open, calls go to the file's servo until another is probed, and all but a set to a device that never answers return. |
| `adxl` | `MCAdxl.cfg` | pass | `AdxlTypeOK`, `TenBits`, `NodesLead` | The accelerometer driver loaded twice, with every failure, and three readers: values have ten bits as long as reads do not overlap, and every node leads to the driver although x is added twice. |

Bounds. `MCUsbDrv` has three packets: a descriptor of three packets cut short by
`wLength`, a change of address, and an angle; nothing counts, so there is no
other bound, and the state space is complete. Two addresses are enough, since the
driver only compares for equality, and three on a bus with another device.
`MCServoBus` bounds the number of transfers plus resets (`MaxOperations`, in the guards
of `Call` and `HostReset`): two transfers are needed for one to disturb the next,
three to see the effect of a reset in between. No run has a `CONSTRAINT`.
`MCServoPwm` has the shortest, a middle and the longest pulse, with interrupts stealing 36 units or nothing, usbPoll
times of 9 and 18 units; delays of 100 and 105 ms, whose sums let the loop begin at many phases of the timer; resets of 50, 100 and 126 ms, so that some are over before the loop, some
reach into it for less than a `usbPoll` and some for more. Apart from the ten delays nothing
counts, so all behaviours are covered; other times are a matter of the proofs.
`MCMyDisk` has two clients with one bio each, enough to merge and to fill a request of two
segments; the jobs lie on both sides of the border between the partitions, two of
them reach beyond it or beyond the disk. It has the real capacity and partition table. `CHECK_DEADLOCK` is off there because a NULL
pointer ends `mydisk_init` for good.
`MCServoClients` has four devices with the servo's IDs (the same manufacturer, the same product name, one that must not be
opened, the servo) and one without, one of them pulled out at any moment (`MaxUnplugs`), eight command lines that reach every branch of
`main`, two positions of the mouse and one movement (`MaxMoves`; what a second would do, the first does). `Iterations` is 2 instead of the 1000 of
`dev_test`: the loop has one state per count and nothing else depends on it. Programs end, so `CHECK_DEADLOCK` is off.
`MCServoIoctl` has a servo and a device with the same IDs that never answers, and a process that runs `userapp` beside one
that calls as it likes; each device is plugged in once, each process runs once. Two are enough for one to take
`device` away from the other. Angles are 300 and -1, which lose bits. `MCAdxl` has three users who are alike (`SYMMETRY`; the run
checks invariants only), random numbers below and at 1024, two loads (`MaxLoads`), the second of which meets what the first has left, and two files (`MaxFiles`).
An error pointer that is dereferenced ends it for good: `CHECK_DEADLOCK` is off.
`UsbWire` evaluates packets of three bytes with runs of ones that begin and end anywhere, every byte behind each of them, and
packets as long as the buffer and one longer; the history that stuffing depends on is six bits long. The CRC
is compared for every byte, and for pairs and packets of eight bytes out of those runs.

The four "violation" runs show disagreements of the code with its own comments and documents:

* `stale_reply`, `setup_naked`: the SETUP of `dev_set`, a request with a data
  stage, is itself answered with an empty packet, and its data with another. The first can end the transfer
  too early for the host, the second is left over.
* `address_early`: a left-over packet can carry the change of address.
* `disk_segments`: merged requests lose data; see `MyDisk` above.

With only requests that leave nothing behind (`CleanTraffic`) the first three hold: `servo_bus` checks it, and `ServoBusProofs` proves it for any such requests.

Some things go wrong outside the properties; the models contain them, and a property excludes the case by a condition:

* the scratch bytes of `usbProcessRx` overlap the CRC of a packet of seven or eight bytes: a packet that
  waits while a SETUP is processed is sent with a wrong CRC, and the host drops it. `NothingDropped` says that no packet meets
  this, or a wrong toggle, while requests leave nothing behind;
* a bus reset that is over before the main loop begins is noticed by nobody (`ServoPwm`, `due`), and a SETUP then waits;
* of bios merged across the border of the partitions one client's data end up in the other's sectors (`OneDevice`);
* the kernel driver's `device` belongs to whoever was probed last, and stays when that device has gone (`ReachesItsServo`);
* unloading the accelerometer driver leaves a range of minors in the kernel's map that points into freed memory
  (`Stale`); loading it again hides the range from the driver's nodes;
* readers of the accelerometer that overlap may get more than ten bits, because all share `i` (`TenBits`);
* its comparisons with NULL and -1 notice no failure (`failed`, `oops`);
* `useradxl` never closes a file before it ends, and `userapp` without an angle ends with `atoi(NULL)`.

Fairness (`FairBusSpec`): WF of the main loop, which never blocks; SF of the host's next
packet, because the host controller schedules a started transfer again and
again among other traffic, while the device may answer NAK in between; WF of the
end of a reset and of the data that follow another device's token. Nobody has to
start a transfer. Under this `CallsReturn` says every transfer of the clean traffic ends.
`FairDiskSpec`: WF of the unplugging, which a task does before it sleeps, and of `mydisk_request`, which runs
with the lock held until it returns. Clients owe nothing.
`ClientsSpec`: WF of each program, which the system schedules; nobody has to move the mouse or pull anything out.
`ServoIoctl`'s `Spec`: WF of each process, including that answers and timeouts come. The wait of `CMD_SET` has no timeout, and `CallsReturn` makes that
exception. `Adxl` has no liveness: its readers never wait.

## 4. Proofs

`UsbDrvProofs` proves, for every set of packets and addresses and every order of
packets and steps:

| Theorem | States |
|---|---|
| `TypeCorrect` | `Spec => []TypeOK` |
| `MessageStaysIntact` | `Spec => []MessageIntact` |
| `PacketsAreWhole` | `Spec => []PacketWhole` |
| `TokensToggle` | `Spec => []Toggled` |
| `RepliesWithinLength` | `Spec => []WithinLength` |
| `SetupActs` | `Spec => OnlySetupActs` |
| `ResetClearsAddress` | `Spec => AddressAfterReset` |

Assumptions: the packets have the fields of a SETUP packet in their ranges
(`PacketsAssumption`), `Junk` is not one of them, addresses have seven bits.

None of the properties is inductive. `Toggled`, for instance, speaks of a packet ready to be
sent; whether the next packet is right depends on a block under construction,
and that on the message, its pointer and its flags. The invariant `IInv` follows the
data: `RxInv` (the two buffers differ; from `DataAccepted` to `Release` the
message is what was acknowledged), `MsgInv` (pointer offset, rest of the message and
packets counted in the flags agree with the reply's length), `TxInv` (while
a block is built the interrupt routine does not own `usbTxBuf`; from `UsbRead` to
`Arm`, and from then on, its contents are one block), `ResetInv` (between the two
assignments of a reset the new address is 0). `MsgInv` is also where the limit of eight bits is
used: at most six packets per reply keep `usbMsgFlags` away from the ROM flag.

There is one lemma per action, with one step per part of the invariant, `NextInv`
puts them together, and each theorem is `IInv => property` with `Invariance`. `IInv` was
model-checked on the instance of `MCUsbDrv` before it was proved; no run repeats that.


`UsbLinkProofs` proves, for packets of any bytes and of any length but none (`Payloads \subseteq Seq(Bytes) \ {<<>>}`; the first bits of a packet
are not tested for its end, and every packet has a PID) and any history in `x2`:

| Theorem | States |
|---|---|
| `SenderStuffs` | `LinkSpec => []StuffsByTheStandard` |
| `PacketsArrive` | `LinkSpec => []ReceivedAsSent` |
| `NothingBehindTheBuffer` | `LinkSpec => []StaysWithinBuffer` |

`LinkInv` says what both ends know of the ones sent last. The sender has them in the upper places of `x2`, with a zero behind (`TxOnes`).
The receiver has them in `shift`, whose places go round: `Ago` is how many bits ago each was written, and `RxOnes` says that the last
`ones % 6` are clear and the one before is set; in the first byte, where `shift` has nothing of the sync byte, only that its last
one was counted. From that `StuffedNextIs` shows that the masks, one for each place, find six ones exactly when there are six. `Decoded` says that `x3` and
`shift` together hold the bits of the byte under way, whatever was corrected meanwhile, and the rest of `RxInv` how `cnt` follows the
bytes stored: at bit 3 of the twelfth byte it reaches zero. `LinkInv` was model-checked before it was proved, with the packets of `UsbWire`'s assumptions.

`ServoPwmProofs` proves, for every duration of the delays before the loop, of `usbPoll` and of interrupted pulses, every
angle and every length of a reset within `LoopAssumption` and `HostAssumption`:

| Theorem | States |
|---|---|
| `PwmTypes` | `PwmSpec => []PwmTypeOK` |
| `AlwaysPolledInTime` | `PwmSpec => []PolledInTime` |
| `EveryResetNoticed` | `PwmSpec => []ResetNoticed` |
| `AlwaysPulsesInTime` | `PwmSpec => []PulsesInTime` |

All three speak of the time from the beginning of the main loop on, and `NotYet` says that before it no bus was sampled and no pulse is late. `ResetNoticed` says nothing while a reset lasts, so it is not inductive; `PwmIInv` bounds what
the main loop may still do first. An unnoticed reset that is due has more time left than the pulse under way and the next
`usbPoll` take (`ResetWillBeNoticed`), and the flag of the one before was taken back meanwhile, because
it is never older than the last `usbPoll` (`FlagIsRecent`) and the host pauses longer than that.
For the pulses, `OverflowsAreKept` relates the time since the last pulse to the timer's phase: as
long as the flag is clear, the timer has counted all of it.

`ServoBusProofs` proves, for every set of requests, addresses and any number of operations:

| Theorem | States |
|---|---|
| `BusImplementsUsbDrv` | `BusSpec => Spec` |
| `BusTypes` | `BusSpec => []BusTypeOK` |
| `RequestsStayInOrder` | `BusSpec => RequestsInOrder` |

The first says that the host's packets are ones `UsbDrv` was ready for; with it all theorems of `UsbDrvProofs` hold on the bus. It needs the
assumptions about requests (`RequestsAssumption`, `AddressRequestsAssumption`): their fields have their ranges, and `SET_ADDRESS` asks for
addresses there are. `RequestsInOrder` is not inductive: it speaks of the message being processed and of the packet last acknowledged. `XferInv`
relates the transfer under way to the number of operations, `TokenInv` the packet on the wire to that transfer, and `OrderInv`
says that nothing the device has is younger than the transfer.

About clients that wait for the end of their transfers and make only requests that leave no packet behind (`CleanTraffic`), it also proves

| Theorem | States |
|---|---|
| `RepliesAreFresh` | `BusSpec => []NoStaleReply` |
| `NothingGetsLost` | `BusSpec => []NothingDropped` |
| `RepliesAreComplete` | `BusSpec => []ReplyComplete` |
| `AddressesAgree` | `BusSpec => []AddressAgreed` |
| `SetupIsTaken` | `BusSpec => SetupNotNaked` |
| `ServoIsRegister` | `BusSpec => Register!RegisterSafety` |

`CleanTraffic` is a hypothesis of each theorem and not an assumption of the module, because the clients of this repository do not all keep to it: the violation
runs `stale_reply`, `setup_naked` and `address_early` are what happens without it. Enumeration and the kernel driver do keep to it; TLC evaluates that for
the requests of `servo_bus` (`CleanRequestsAssumption`). `LeavesNothing` has one condition for each way in which the driver leaves something over: data for the
device (its SETUP is answered with an empty packet), a reply whose last packet is full and also the last one asked for (the driver
adds an empty one), and an address that changes before the end. Resets and traffic with other devices may come at any time.

None of the five is inductive, since host and device count packets each on its own: the host by bytes received and the toggle it expects, the device by
`usbMsgLen`, the packets in `usbMsgFlags` and the PID in `usbTxBuf`. `CleanInv` says how the counts agree at every step of the main loop:

* `SilentInv`: before the device has the SETUP, nothing is ready to be sent and nothing is left of an earlier message;
* `AckedInv`: from the acknowledgement of the SETUP to `Release` nothing is ready to be sent, and once processed the reply is whole;
* `ServedInv`: what it sends belongs to this transfer; what the host has received and what the device has still to send are the reply, and the toggle is that
  of the next packet (`Replying`);
* `StageInv`: the host reads data only of a request that has some, and sends tokens of its own only for the SETUP and for the status stage;
* `AddressInv`: outside a reset a new address that is not yet the device's is that of the `SET_ADDRESS` in progress; during a reset both go back to 0.

`LastPacket` is the arithmetic: when the host takes a packet for the last one, so does the device. `CleanStages` and `CallReplies` say which stages
a clean request has and how long its reply is.

For `ServoIsRegister` who reads must ask for all of the value (`ClientsAskEnough`; `IoctlGet` asks for exactly two bytes). A call of the register is `Call`, its service is the `usbProcessRx`
of its own SETUP, its return the last packet of the status stage; every other step is a stutter (`CallIsCall`,
`ProcessIsServe`, `StatusIsReturn`, `RegisterStutters`). `ValueInv` carries the value from `replyBuffer` through
`usbTxBuf` to the host. The steps are proved; that calls are served and return is liveness and stays with TLC (`ImplementsRegister`).

`ServoIoctlProofs` proves, for any servos, processes and commands:

| Theorem | States |
|---|---|
| `IoctlTypes` | `Spec => []IoctlTypeOK` |
| `CodeAlwaysStays` | `Spec => []CodeStays` |
| `CallsReachTheirServo` | `Spec => []ReachesItsServo` |

`IInv` adds `DeviceSet` (while the driver has a servo it is loaded and `device` is not NULL), `PointsToBound` (who was probed last is who
`device` points to) and `OwnerBound` (the servo of an open file is bound or gone, never back without a driver). The angle that a servo takes is a byte whatever number
`userapp` was given: `IoctlAssumption` asks no more than that it is an integer.

`AdxlProofs` proves, for any number of users and loads and whatever `get_random_bytes` delivers:

| Theorem | States |
|---|---|
| `AdxlTypes` | `Spec => []AdxlTypeOK` |
| `ReadsTenBits` | `Spec => []TenBits` |
| `NodesLeadToDriver` | `Spec => []NodesLead` |

For `TenBits` the invariant says where a larger number in `i` can come from (`AxisOrBusy`). For `NodesLead` it says how much of its ranges a load has
added by each step (`FirstRange`), that what is under way is a load (`LoadCounted`), that nodes are there only meanwhile (`NodesWhileLoaded`), and that files
keep the module (`FilesKeepModule`).

`ServoClientsProofs` proves, for any devices on the bus and any order in which libusb lists them, any number of programs of
both kinds, any command lines and positions of the mouse:

| Theorem | States |
|---|---|
| `ClientsTypes` | `ClientsSpec => []ClientsTypeOK` |
| `OpensTheServo` | `ClientsSpec => []OpensCounterpart` |
| `FindsTheServo` | `ClientsSpec => []FindsServo` |
| `SetsTheAngle` | `ClientsSpec => SetsWhatWasAsked` |

Assumptions: devices with the servo's IDs send string descriptors, and no other that can be opened has both of its names
(`NamesAssumption`: the condition of `USBID-License.txt:40-50`). That the servo's own names come out of its descriptors
(`NamesArrive`) is an assumption too, because `usbGetStringAscii` is a fold over the bytes; it has no parameter, and TLC evaluates it in the run
`servo_clients`. `OneInv` follows one program through `usbOpenDevice`: what it has open at each step (nothing while it searches, the servo
from `opened` on); that a device whose product is being asked for has the servo's manufacturer, so that a second match leaves the servo only; and that the
servo is still in `rest` as long as it is there and has not misled the program. A step of one program leaves those of the others alone (`Kept`,
`AllKeep`); `SetsWhatWasAsked` then follows from `DevSetKeeps`, since a tool that sends has the servo open.

`MyDiskProofs` proves, for any clients, jobs and number of segments (`ClientsAssumption`, `JobsAssumption`):

| Theorem | States |
|---|---|
| `DiskTypes` | `DiskSpec => []DiskTypeOK` |
| `TransfersStayWithin` | `DiskSpec => []WithinDisk` |
| `NothingFreed` | `DiskSpec => []NothingFreedInUse` |
| `PartitionsAreFound` | `DiskSpec => []PartitionsFound` |
| `PartitionsStayApart` | `DiskSpec => PartitionsIsolated` |

Sectors, capacity and partition table are those of the code. The heart of `DiskIInv` is the shape of a request (`Shape`): its
segments are of one kind, follow one another without a gap, and every sector from the first to the last belongs to one of them. Appending and
prepending keep it (`AppendShape`, `PrependShape`). Although `mydisk_transfer` puts all segments where the request begins, each of them ends
before the request does, so a sector it writes is named by some segment (`NamedSector`), whose client has it open (`Owned`). Whose data it then has
is that of the last segment that reaches it, which there is because segments are finitely many (`LastOne`); that may be somebody else's. If all are of one
device, the sector is that device's too (`SharedSector`); so are the sectors a read delivers. `WritesStayApart` and `ReadsStayApart` put
this together for `PartitionsStayApart`. No job of the run merges reads of one device; what they deliver is proved only. `HeldInv` and `UseInv`
relate the place in `mydisk_init` or `mydisk_exit` to what is held and who may be there; `FoundInv` follows the boot record to the scan.

Under the same assumptions it proves

| Theorem | States |
|---|---|
| `DiskImplementsStore` | `DiskSpec => ImplementsStore` |

with `OneEach` (nobody has two bios in the queue) and `MediumInv` added to the invariant. There is one lemma per group of actions. Loading and
unloading are the medium going in and out; a bio queued is one more call wherever it is merged (`QueuedCalls`); a round of
`mydisk_request` serves the bios of one request and no others (`ServedCalls`), exactly if it is one (`AloneExactly`), and leaving the sectors of
others alone if they are several (`MergedTogether`).

## 5. Only model-checked

* Liveness (`CallsReturn`, `Served`, `PointsAtPointer`, `SetTakesEffect`) and the fairness half of `ImplementsRegister`: out of the
  prover's reach.
* `UsbWire`: that its CRC is the remainder, and that levels change as USB defines (`Nrzi`), is evaluated for the packets listed above; the functions are recursive, and
  induction over data is out of the prover's reach. Stuffing and reception are proved, in `UsbLinkProofs`.

## 6. Not modelled

* The cycles of the interrupt routine, and how it finds the sync byte: time below a bit does not occur. That it
  answers within a packet's time is taken from the comments that count its cycles.
* Options `usbconfig.h` does not select: interrupt endpoints, `usbFunctionRead` and `usbFunctionWrite`, flow
  control, `USB_CFG_IMPLEMENT_HALT`, the configurations of `usbconfig-prototype.h`.
* Reordering by the compiler: `usbTxBuf` is not volatile (`usbdrv.c:483`). Whether it happens depends on the build.
* Debug output (`oddebug.*`), compiler portability (`iarcompat.h`), build files, licences, documents, binaries.
* What the programs print, and the arc tangent of the X pointer client.
* The kernel, libusb, X and the host controller are modelled as far as this code uses them, and marked external in `PROJECT.json`.

## 7. What could come next

The modules were written in this order: `UsbDrv` and its proofs, `ServoBus` with `ServoRegister`, `ServoPwm`, `MyDisk` with
`SectorStore`, then `UsbWire`, the libusb programs, `ServoIoctl`, `Adxl`, the proofs about `ServoBus`, `MyDisk`, `ServoIoctl`,
`Adxl` and the libusb programs, those about clean traffic, and last `UsbLink` and its proofs. Worth doing next:

1. `UsbOpenDevice` with devices that answer with something that is no string descriptor: `string` then keeps what the device before has
   sent, which `NamesAssumption` excludes.
