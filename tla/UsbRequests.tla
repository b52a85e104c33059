----------------------------- MODULE UsbRequests -----------------------------
(***************************************************************************)
(* What requests mean and how much the servo has to say to each: the        *)
(* constants of usbdrv.h and usbservo.h that device and clients share.      *)
(***************************************************************************)
EXTENDS Integers

USBRQ_GET_STATUS        == 0
USBRQ_SET_ADDRESS       == 5
USBRQ_GET_DESCRIPTOR    == 6
USBRQ_GET_CONFIGURATION == 8
USBRQ_SET_CONFIGURATION == 9
USBRQ_GET_INTERFACE     == 10

CMD_ECHO == 0
CMD_GET  == 1
CMD_SET  == 2

msgOK  == 0
msgErr == 1

Lo(word) == word % 256
Hi(word) == word \div 256

DescriptorLength(wValue) ==
    CASE Hi(wValue) = 1 -> 18
      [] Hi(wValue) = 2 -> 18
      [] Hi(wValue) = 3 /\ Lo(wValue) = 0 -> 4
      [] Hi(wValue) = 3 /\ Lo(wValue) = 1 -> 40
      [] Hi(wValue) = 3 /\ Lo(wValue) = 2 -> 20
      [] OTHER -> 0

\* What a request has to say, before wLength limits it.
FullLength(p) ==
    IF p.type = "standard"
    THEN CASE p.request = USBRQ_GET_STATUS -> 2
           [] p.request = USBRQ_GET_DESCRIPTOR -> DescriptorLength(p.wValue)
           [] p.request \in {USBRQ_GET_CONFIGURATION, USBRQ_GET_INTERFACE} -> 1
           [] OTHER -> 0
    ELSE CASE p.request = CMD_ECHO -> 2
           [] p.request = CMD_SET  -> 0
           [] OTHER -> 1

\* Mutant: the reply always has the length asked for.
ReplyLength_Filled(p) ==
    IF p.wLength < 256 /\ p.wLength > 0 THEN p.wLength ELSE FullLength(p)

ReplyLength(p) ==
    IF p.wLength < 256 /\ FullLength(p) > p.wLength THEN p.wLength ELSE FullLength(p)
=============================================================================
