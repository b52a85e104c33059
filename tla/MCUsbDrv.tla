------------------------------ MODULE MCUsbDrv ------------------------------
(* UsbDrv against a bus that may carry any packet at any time; the bits of the packets *)
(* are the assumptions of UsbWire, which TLC evaluates at the start.                   *)
EXTENDS UsbDrv, UsbWire

Setup(dir, type, request, wValue, wLength) ==
    [dir |-> dir, type |-> type, recipient |-> 0, request |-> request,
     wValue |-> wValue, wLength |-> wLength, size |-> 8, id |-> 0]

\* A descriptor in three packets, cut short, an address, and an angle that comes with data.
MCPackets == { Setup("in", "standard", USBRQ_GET_DESCRIPTOR, 256, 17),
               Setup("out", "standard", USBRQ_SET_ADDRESS, 5, 0),
               Setup("out", "vendor", CMD_SET, 3, 8) }

MCAddresses == {0, 5}
=============================================================================
