--------------------------- MODULE UsbDescriptors ---------------------------
(***************************************************************************)
(* What the servo answers to GET_DESCRIPTOR (usbdrv.c, usbconfig.h), byte    *)
(* by byte, and what the client makes of a string (usbGetStringAscii).      *)
(* Nothing here has state; UsbClient finds the servo with it.               *)
(***************************************************************************)
EXTENDS UsbRequests, Sequences

\* Characters are numbers, as the compiler sees them.
USB_CFG_VENDOR_NAME     == <<119, 119, 119, 46, 115, 99, 104, 97, 116, 101, 110,
                             115, 101, 105, 116, 101, 46, 100, 101>>    \* www.schatenseite.de
USB_CFG_VENDOR_NAME_LEN == 19
USB_CFG_DEVICE_NAME     == <<85, 83, 66, 45, 83, 101, 114, 118, 111>>   \* USB-Servo
USB_CFG_DEVICE_NAME_LEN == 9
USB_CFG_VENDOR_ID       == <<192, 22>>
USB_CFG_DEVICE_ID       == <<220, 5>>
USB_CFG_DEVICE_VERSION  == <<0, 1>>
USB_CFG_DEVICE_CLASS    == 255
USB_CFG_IS_SELF_POWERED == 1
USB_CFG_MAX_BUS_POWER   == 20

USBDESCR_DEVICE    == 1
USBDESCR_CONFIG    == 2
USBDESCR_STRING    == 3
USBDESCR_INTERFACE == 4
USBATTR_BUSPOWER   == 128
USBATTR_SELFPOWER  == 64

\* An array of int in flash, read byte by byte: the AVR stores the low byte first.
Bytes(ints) ==
    [k \in 1..2 * Len(ints) |-> LET n == ints[(k + 1) \div 2] IN IF k % 2 = 1 THEN Lo(n) ELSE Hi(n)]

USB_STRING_DESCRIPTOR_HEADER(length) == 2 * length + 2 + 256 * USBDESCR_STRING

usbDescriptorString0 == <<4, USBDESCR_STRING, 9, 4>>
usbDescriptorStringVendor ==
    Bytes(<<USB_STRING_DESCRIPTOR_HEADER(USB_CFG_VENDOR_NAME_LEN)>> \o USB_CFG_VENDOR_NAME)
usbDescriptorStringDevice ==
    Bytes(<<USB_STRING_DESCRIPTOR_HEADER(USB_CFG_DEVICE_NAME_LEN)>> \o USB_CFG_DEVICE_NAME)

\* Manufacturer and product have the strings 1 and 2, there is no serial number.
usbDescriptorDevice ==
    <<18, USBDESCR_DEVICE, 1, 1, USB_CFG_DEVICE_CLASS, 0, 0, 8>>
        \o USB_CFG_VENDOR_ID \o USB_CFG_DEVICE_ID \o USB_CFG_DEVICE_VERSION \o <<1, 2, 0, 1>>

\* One configuration with one interface, which follows inline and has no endpoint.
usbDescriptorConfiguration ==
    <<9, USBDESCR_CONFIG, 18, 0, 1, 1, 0,
      IF USB_CFG_IS_SELF_POWERED = 1 THEN USBATTR_SELFPOWER ELSE USBATTR_BUSPOWER,
      USB_CFG_MAX_BUS_POWER \div 2,
      9, USBDESCR_INTERFACE, 0, 0, 0, 0, 0, 0, 0>>

\* What usbMsgPtr is set to; descriptors the servo does not have are empty.
Descriptor(wValue) ==
    CASE Hi(wValue) = USBDESCR_DEVICE -> usbDescriptorDevice
      [] Hi(wValue) = USBDESCR_CONFIG -> usbDescriptorConfiguration
      [] wValue = 256 * USBDESCR_STRING -> usbDescriptorString0
      [] wValue = 256 * USBDESCR_STRING + 1 -> usbDescriptorStringVendor
      [] wValue = 256 * USBDESCR_STRING + 2 -> usbDescriptorStringDevice
      [] OTHER -> <<>>

-----------------------------------------------------------------------------
(* The client.  A C string is the sequence of its characters, without the 0. *)

\* usbGetStringAscii on a reply of type STRING (buffers of 256 bytes hold any): the shorter of what has come and of what
\* the descriptor claims, two bytes to a character, the header being the first.
Ascii(reply) ==
    LET rval == IF Len(reply) = 0 THEN 0 ELSE IF reply[1] < Len(reply) THEN reply[1] ELSE Len(reply)
    IN  [i \in 1..(rval \div 2) - 1 |->
            IF reply[2 * i + 2] # 0 THEN 63 ELSE reply[2 * i + 1]]

\* What the string may be afterwards.  A reply of another type leaves it as it was;
\* of an empty reply the type is whatever was on the stack.
StringAfter(reply, string) ==
    IF Len(reply) < 2 THEN {string, <<>>}
    ELSE IF reply[2] # USBDESCR_STRING THEN {string} ELSE {Ascii(reply)}

-----------------------------------------------------------------------------
(* Checked by TLC whenever a module that extends this one is run. *)

\* UsbDrv works with lengths only: they are those of the descriptors, and every
\* descriptor states its own length (the configuration's, with the interface in it).
ASSUME LengthsAgree ==
    /\ \A type \in 0..4, index \in 0..4 :
            Len(Descriptor(256 * type + index)) = DescriptorLength(256 * type + index)
    /\ \A type \in {USBDESCR_DEVICE, USBDESCR_STRING}, index \in 0..2 :
            Descriptor(256 * type + index)[1] = Len(Descriptor(256 * type + index))
    /\ usbDescriptorConfiguration[3] = Len(usbDescriptorConfiguration)
    /\ \A type \in 1..3 : Descriptor(256 * type)[2] = type

=============================================================================
