--------------------------- MODULE MCServoClients ---------------------------
(***************************************************************************)
(* ServoClients on a bus with devices that share the servo's IDs: a LED      *)
(* fader of the same manufacturer, a foreign device whose product has the    *)
(* servo's name, one that must not be opened; and one with other IDs.        *)
(***************************************************************************)
EXTENDS ServoClients

StringDescriptor(chars) == Bytes(<<USB_STRING_DESCRIPTOR_HEADER(Len(chars))>> \o chars)

MCOrder == [fader |-> 1, locked |-> 2, foreign |-> 3, disk |-> 4, servo |-> 5]
MCStrings ==
    [d \in {"fader", "locked", "foreign", "servo"} |->
        CASE d \in {"servo", "locked"} -> <<Descriptor(769), Descriptor(770)>>
          [] d = "fader"   -> <<usbDescriptorStringVendor, StringDescriptor(<<70, 97, 100, 101, 114>>)>>
          [] d = "foreign" -> <<StringDescriptor(<<111, 98, 100, 8364, 118>>), usbDescriptorStringDevice>>]

MCCommandLines ==
    {[argc |-> 1, cmd |-> "none", arg |-> 0], [argc |-> 2, cmd |-> "help", arg |-> 0],
     [argc |-> 2, cmd |-> "set", arg |-> 0], [argc |-> 3, cmd |-> "test", arg |-> 0],
     [argc |-> 2, cmd |-> "status", arg |-> 0], [argc |-> 2, cmd |-> "test", arg |-> 0],
     [argc |-> 3, cmd |-> "set", arg |-> 200], [argc |-> 3, cmd |-> "set", arg |-> 256]}

\* On a screen of 1920 by 1080: to the left of the servo, at the top and at the bottom.
MCPositions == {<<0, 0>>, <<0, 1079>>}
MCAim == [p \in MCPositions |-> IF p = <<0, 0>> THEN 242 ELSE 181]
=============================================================================
