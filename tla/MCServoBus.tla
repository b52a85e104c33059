----------------------------- MODULE MCServoBus -----------------------------
(* ServoBus with the requests of this project's clients. *)
EXTENDS ServoBusRegister

Setup(dir, type, request, wValue, wLength) ==
    [dir |-> dir, type |-> type, recipient |-> 0, request |-> request,
     wValue |-> wValue, wLength |-> wLength, size |-> 8, id |-> 0]

GetDevice  == Setup("in", "standard", USBRQ_GET_DESCRIPTOR, 256, 64)
GetDevice8 == Setup("in", "standard", USBRQ_GET_DESCRIPTOR, 256, 8)
GetVendor  == Setup("in", "standard", USBRQ_GET_DESCRIPTOR, 769, 255)
GetStatus  == Setup("in", "standard", USBRQ_GET_STATUS, 0, 2)
SetAddress == Setup("out", "standard", USBRQ_SET_ADDRESS, 5, 0)
SetConfiguration == Setup("out", "standard", USBRQ_SET_CONFIGURATION, 1, 0)
Echo       == Setup("in", "vendor", CMD_ECHO, 258, 8)
Get        == Setup("in", "vendor", CMD_GET, 0, 8)
IoctlGet   == Setup("in", "vendor", CMD_GET, 0, 2)
IoctlSet   == Setup("out", "vendor", CMD_SET, 3, 0)   \* servo_ioctl: no data stage
DevSet     == Setup("out", "vendor", CMD_SET, 3, 8)   \* dev_set: eight bytes of data

DevSet4    == Setup("out", "vendor", CMD_SET, 4, 8)
IoctlSet4  == Setup("out", "vendor", CMD_SET, 4, 0)

\* Enumeration and the kernel driver's requests: nobody sends data, no reply ends
\* on a full packet that is also the last one asked for.
CleanRequests == {GetDevice, GetVendor, GetStatus, SetAddress, SetConfiguration, Echo, IoctlSet, IoctlSet4, IoctlGet, Get}

ASSUME CleanRequestsAssumption == \A r \in CleanRequests : LeavesNothing(r) /\ AsksEnough(r)

\* The commands of the libusb client.
ClientRequests == {DevSet, Get, Echo}

\* The uninitialised buffer of dev_set happens to look like a request.
MCOutData == {Setup("out", "vendor", CMD_SET, 7, 0)}

MCAddresses == {0, 5, 9}
\* A reply that ends on a full packet, and the change of address.
EightBytes == {GetDevice8, GetDevice, SetAddress}

\* Everything, from clients that give up.
DirtyRequests == {GetDevice8, SetAddress, DevSet, DevSet4, Get}

MCPackets ==
    {[r EXCEPT !.id = n] :
        r \in CleanRequests \cup ClientRequests \cup EightBytes \cup DirtyRequests \cup MCOutData,
        n \in 1..MaxOperations}
=============================================================================
