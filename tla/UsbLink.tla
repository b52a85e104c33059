------------------------------- MODULE UsbLink -------------------------------
(***************************************************************************)
(* The sender of UsbWire and its receiver at the two ends of a wire, one bit *)
(* per step.  What UsbWire evaluates for some packets is here a matter of    *)
(* invariants, and packets may be of any length.                             *)
(***************************************************************************)
EXTENDS UsbWire

CONSTANT Payloads       \* what may be sent: sequences of bytes, at least a PID

VARIABLES
    packet,     \* what is being sent
    place,      \* the next bit to send: its byte, 0 being the sync byte, and its number
    ended,      \* the end of the packet has been sent
    tx,         \* the sender; tx.out has the levels of its last bit
    rx,         \* the receiver
    ones        \* history: ones in a row, as USB counts them

linkVars == <<packet, place, ended, tx, rx, ones>>

\* usbSendAndReti may find anything in x2; the receiver waits for a sync byte.
LinkInit ==
    /\ packet \in Payloads
    /\ place = [byte |-> 0, bit |-> 0]
    /\ ended = FALSE
    /\ \E x2 \in Bytes : tx = [level |-> "J", x2 |-> x2, out |-> <<>>]
    /\ rx = [RxStart("J") EXCEPT !.state = "sync"]
    /\ ones = 0

\* The bit that txLoop shifts out.
Bit == place.bit \in IF place.byte = 0 THEN {7} ELSE packet[place.byte]

\* The one or two levels of a bit at the receiver.
Heard(out) ==
    IF Len(out) = 1 THEN RxStep(rx, out[1]) ELSE RxStep(RxStep(rx, out[1]), out[2])

SendBit ==
    /\ place.byte <= Len(packet)
    /\ place' = IF place.bit = 7 THEN [byte |-> place.byte + 1, bit |-> 0]
                ELSE [place EXCEPT !.bit = @ + 1]
    /\ tx' = TxBit([tx EXCEPT !.out = <<>>], Bit)
    /\ rx' = CASE place.byte > 0 -> Heard(tx'.out)
               [] place.byte = 0 /\ place.bit = 7 -> RxStart(tx'.level)
               [] OTHER -> rx
    /\ ones' = IF Bit THEN (ones % 6) + 1 ELSE 0
    /\ UNCHANGED <<packet, ended>>

\* Two bit times of SE0; hubs may delay its start.
SendEop ==
    /\ place.byte > Len(packet) /\ ~ended
    /\ \E eop \in Eop : rx' = Heard(eop)
    /\ ended' = TRUE
    /\ UNCHANGED <<packet, place, tx, ones>>

LinkNext == SendBit \/ SendEop

LinkSpec == LinkInit /\ [][LinkNext]_linkVars

-----------------------------------------------------------------------------

\* A bit takes a second level when it is the sixth one in a row, and only then.
StuffsByTheStandard == tx.out # <<>> => (Len(tx.out) = 2 <=> ones = 6)

\* What has come of a packet is what was sent of it; in the end all of it, if usbRxBuf holds it.
ReceivedAsSent ==
    /\ rx.state = "receiving" => rx.buf = SubSeq(packet, 1, place.byte - 1)
    /\ ended => IF Len(packet) <= USB_BUFSIZE THEN rx.state = "se0" /\ rx.buf = packet
                                              ELSE rx.state = "overflow"

\* No packet leaves the buffer.
StaysWithinBuffer == Len(rx.buf) <= USB_BUFSIZE
=============================================================================
