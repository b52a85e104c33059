------------------------------ MODULE UsbClient ------------------------------
(***************************************************************************)
(* What the libusb programs share: usbOpenDevice (commandline-libusb/        *)
(* usbdrv.c) looks for the servo by name among devices that have the same    *)
(* IDs, while devices may be unplugged and other programs talk to the servo. *)
(*                                                                          *)
(* A control message is one action.  What ServoBus shows of the servo is     *)
(* kept: a request is executed once, but a set with a data stage may leave    *)
(* something behind that answers the next request instead (stale_reply).    *)
(***************************************************************************)
EXTENDS UsbDescriptors, FiniteSets

CONSTANTS
    Clients,        \* programs that run
    Devices,        \* on all busses
    Order,          \* where libusb lists each of them
    Servo,
    Matching,       \* devices with the IDs 16C0:05DC
    Accessible,     \* devices these users may open
    Strings,        \* manufacturer and product strings of the matching ones, as sent
    MaxUnplugs,     \* bound: devices pulled out
    None

ASSUME BusAssumption ==
    /\ MaxUnplugs \in Nat
    /\ Order \in [Devices -> Nat] /\ \A d, e \in Devices : Order[d] = Order[e] => d = e
    /\ Servo \in Matching /\ Matching \subseteq Devices /\ None \notin Devices
    /\ Strings[Servo] = <<Descriptor(769), Descriptor(770)>>

vendorName  == USB_CFG_VENDOR_NAME
productName == USB_CFG_DEVICE_NAME
Uninitialised == <<0>>

\* Devices with these IDs send string descriptors; of those that can be opened, only the
\* servo has both of its names, as USBID-License.txt:40-50 asks of whoever shares the IDs.
ASSUME NamesAssumption ==
    /\ \A d \in Matching : \A n \in 1..2 :
          Len(Strings[d][n]) >= 2 /\ Strings[d][n][2] = USBDESCR_STRING
    /\ \A d \in (Matching \cap Accessible) \ {Servo} :
          Ascii(Strings[d][1]) # vendorName \/ Ascii(Strings[d][2]) # productName

\* The servo's names come out of its descriptors as the client has them.
ASSUME NamesArrive ==
    /\ Ascii(Descriptor(769)) = vendorName /\ Ascii(Descriptor(770)) = productName
    /\ \A wValue \in {769, 770} : Len(Descriptor(wValue)) >= 2

USB_ERROR_NOTFOUND == 1
USB_ERROR_ACCESS   == 2
USB_ERROR_IO       == 3

VARIABLES
    plugged,        \* devices that are there
    angle,          \* the servo's register
    leftover,       \* the servo may answer with something old
    setter,         \* history: who set the angle last
    pc,
    rest,           \* listed devices that have not been looked at
    handle, open, string, errorCode, exit,
    misled          \* history: clients that got something old while they searched

deviceVars == <<plugged, angle, leftover, setter>>
searchVars == <<rest, open, string, errorCode, misled>>
clientVars == <<pc, handle, exit, searchVars>>

ClientInit ==
    /\ plugged = Devices
    /\ angle = 0 /\ leftover = FALSE /\ setter = None
    /\ pc = [c \in Clients |-> "start"]
    /\ rest = [c \in Clients |-> {}]
    /\ handle = [c \in Clients |-> None]
    /\ open = [c \in Clients |-> {}]
    /\ string = [c \in Clients |-> Uninitialised]
    /\ errorCode = [c \in Clients |-> USB_ERROR_NOTFOUND]
    /\ exit = [c \in Clients |-> -1]
    /\ misled = {}

-----------------------------------------------------------------------------
(* The devices *)

Unplug(d) ==
    /\ d \in plugged
    /\ Cardinality(Devices \ plugged) < MaxUnplugs
    /\ plugged' = plugged \ {d}
    /\ UNCHANGED <<angle, leftover, setter, clientVars>>

\* A request that reads: d's answer, or what an earlier transfer of the servo has left:
\* an empty packet, or a part of what was not fetched then.
Reads(c, d, answer, reply) ==
    /\ d \in plugged
    /\ \/ reply = answer /\ leftover' = (leftover /\ d # Servo) /\ UNCHANGED misled
       \/ d = Servo /\ leftover
          /\ reply \in {<<>>, SubSeq(answer, 9, Len(answer))}
          /\ misled' = misled \cup {c}
          /\ UNCHANGED leftover
    /\ UNCHANGED <<plugged, angle, setter>>

\* CMD_SET with the eight bytes of data that both programs send along.
Sets(c, wValue) ==
    /\ handle[c] \in plugged
    /\ angle' = IF handle[c] = Servo THEN Lo(wValue) ELSE angle
    /\ leftover' = TRUE
    /\ setter' = c
    /\ UNCHANGED plugged

-----------------------------------------------------------------------------
(* usbOpenDevice *)

\* Mutant: every device is a candidate.
HasIds_Any(d) == TRUE
HasIds(d) == d \in Matching

\* usb_find_busses and usb_find_devices list what is plugged in now; the loops over them
\* stop at devices with the servo's IDs only.
FindDevices(c) ==
    /\ pc[c] = "start"
    /\ rest' = [rest EXCEPT ![c] = {d \in plugged : HasIds(d)}]
    /\ pc' = [pc EXCEPT ![c] = "search"]
    /\ UNCHANGED <<deviceVars, handle, open, string, errorCode, exit, misled>>

\* The end of the loop over the devices.
NotFound(c) ==
    /\ pc[c] = "search" /\ rest[c] = {}
    /\ pc' = [pc EXCEPT ![c] = "done"]
    /\ exit' = [exit EXCEPT ![c] = 1]
    /\ UNCHANGED <<deviceVars, handle, searchVars>>

Foremost(c) == {d \in rest[c] : \A e \in rest[c] : Order[d] <= Order[e]}

\* Mutant: the first device that cannot be opened ends the search.
CannotOpen_Break(c) ==
    /\ pc[c] = "search" /\ Foremost(c) \ (Accessible \cap plugged) # {}
    /\ errorCode' = [errorCode EXCEPT ![c] = USB_ERROR_ACCESS]
    /\ rest' = [rest EXCEPT ![c] = {}]
    /\ UNCHANGED <<deviceVars, pc, handle, open, string, exit, misled>>

CannotOpen(c) ==
    /\ pc[c] = "search"
    /\ errorCode' = [errorCode EXCEPT ![c] = USB_ERROR_ACCESS]
    /\ \E d \in Foremost(c) \ (Accessible \cap plugged) : rest' = [rest EXCEPT ![c] = @ \ {d}]
    /\ UNCHANGED <<deviceVars, pc, handle, open, string, exit, misled>>

UsbOpen(c) ==
    /\ pc[c] = "search"
    /\ \E d \in Foremost(c) \cap Accessible \cap plugged :
          /\ handle' = [handle EXCEPT ![c] = d]
          /\ open' = [open EXCEPT ![c] = @ \cup {d}]
    /\ pc' = [pc EXCEPT ![c] = "vendor"]
    /\ UNCHANGED <<deviceVars, rest, string, errorCode, exit, misled>>

\* usb_close, and on to the next device.
Rejects(c, error) ==
    /\ open' = [open EXCEPT ![c] = @ \ {handle[c]}]
    /\ handle' = [handle EXCEPT ![c] = None]
    /\ errorCode' = [errorCode EXCEPT ![c] = error]
    /\ rest' = [rest EXCEPT ![c] = @ \ {handle[c]}]
    /\ pc' = [pc EXCEPT ![c] = "search"]

\* A string that cannot be read: the device is gone, or it refuses.
Unreadable(d) == d \notin plugged \/ d # Servo

QueryFails(c) ==
    /\ pc[c] \in {"vendor", "product"}
    /\ Unreadable(handle[c])
    /\ Rejects(c, USB_ERROR_IO)
    /\ UNCHANGED <<deviceVars, string, misled, exit>>

\* A string is read and compared with a name; label next is where a match leads.
Compares(c, index, name, next) ==
    LET answer == Strings[handle[c]][index]
        Match(s) ==
            /\ s = name
            /\ pc' = [pc EXCEPT ![c] = next]
            /\ errorCode' = [errorCode EXCEPT ![c] = IF next = "opened" THEN 0 ELSE USB_ERROR_NOTFOUND]
            /\ UNCHANGED <<rest, open, handle>>
    IN  /\ \E reply \in {answer, <<>>, SubSeq(answer, 9, Len(answer))} :
            /\ Reads(c, handle[c], answer, reply)
            /\ \E s \in StringAfter(reply, string[c]) :
                /\ Match(s) \/ (s # name /\ Rejects(c, USB_ERROR_NOTFOUND))
                /\ string' = [string EXCEPT ![c] = IF s = name /\ next = "opened" THEN Uninitialised ELSE s]
        /\ UNCHANGED exit

\* Mutant: the manufacturer will do.
QueryManufacturer_Only(c) == pc[c] = "vendor" /\ Compares(c, 1, vendorName, "opened")

QueryManufacturer(c) == pc[c] = "vendor" /\ Compares(c, 1, vendorName, "product")
QueryProduct(c)      == pc[c] = "product" /\ Compares(c, 2, productName, "opened")

UsbOpenDevice(c) ==
    \/ NotFound(c) \/ CannotOpen(c) \/ UsbOpen(c)
    \/ QueryFails(c) \/ QueryManufacturer(c) \/ QueryProduct(c)

\* The program ends, by itself or by exit: the system closes what is open.
Exits(c, code) ==
    /\ pc' = [pc EXCEPT ![c] = "done"]
    /\ exit' = [exit EXCEPT ![c] = code]
    /\ handle' = [handle EXCEPT ![c] = None]
    /\ open' = [open EXCEPT ![c] = {}]
    /\ UNCHANGED <<rest, string, errorCode>>

-----------------------------------------------------------------------------
\* Among devices with the same IDs, however their strings and errors come, a program
\* ends up with the servo and with nothing else open (usbdrv.h:39-49).
OpensCounterpart ==
    \A c \in Clients :
        /\ open[c] = (IF handle[c] = None THEN {} ELSE {handle[c]})
        /\ pc[c] \in {"opened", "aiming"} => handle[c] = Servo /\ errorCode[c] = 0
        /\ errorCode[c] = 0 => pc[c] \in {"opened", "aiming", "done"}

\* A search that ends without the servo has a reason: it was not there, must not be opened,
\* or answered with something old.  Other devices, in whatever order, are none.
FindsServo ==
    \A c \in Clients :
        pc[c] = "search" /\ rest[c] = {} /\ Servo \in plugged \cap Accessible => c \in misled
=============================================================================
