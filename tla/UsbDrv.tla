------------------------------- MODULE UsbDrv -------------------------------
(***************************************************************************)
(* The AVR-USB driver of the servo's firmware (usbdrv.c, usbdrvasm.S) with  *)
(* the application's usbFunctionSetup (main.c), as one device facing an     *)
(* unconstrained bus.                                                       *)
(*                                                                          *)
(* Two threads share memory without locks: the interrupt routine, which     *)
(* runs once per packet with interrupts disabled and is therefore one       *)
(* atomic action per packet, and the main loop, which usbPoll splits into   *)
(* the steps between which a packet may arrive.  ServoBus puts a USB host   *)
(* at the other end of the wire.                                            *)
(***************************************************************************)
EXTENDS UsbRequests

CONSTANTS
    Packets,    \* contents of data packets that carry at least one byte
    Addresses,  \* values of the address field of a token
    Junk        \* buffer contents that came from no accepted data packet

Byte == {n \in Nat : n < 256}
Word == {n \in Nat : n < 65536}

PacketFields == [ dir       : {"in", "out"},
                  type      : {"standard", "class", "vendor"},
                  recipient : 0..31,
                  request   : Byte,
                  wValue    : Word,
                  wLength   : Word,
                  size      : 1..8,     \* bytes in the packet
                  id        : Nat ]     \* names the control transfer it belongs to

ASSUME PacketsAssumption == Packets \subseteq PacketFields
ASSUME AddressesAssumption == Addresses \subseteq 0..127 /\ 0 \in Addresses
ASSUME JunkAssumption == Junk \notin PacketFields

-----------------------------------------------------------------------------
(* Constants of usbdrv.h and usbdrv.c *)

USBPID_SETUP == 45
USBPID_OUT   == 225
USBPID_DATA0 == 195
USBPID_DATA1 == 75
USBPID_NAK   == 90

NoMessage == 255                 \* usbMsgLen: no message to send
USB_FLG_MSGPTR_IS_ROM   == 64
USB_FLG_USE_DEFAULT_RW  == 128
CrcBytes == 255                  \* what replyData[0] holds once a CRC covers it

\* Where usbMsgPtr may point.
Locations == {"null", "descriptor", "usbTxBuf+9", "usbConfiguration", "replyBuffer"}

-----------------------------------------------------------------------------
VARIABLES
    \* written by the interrupt routine, read by the main loop
    usbRxBuf, usbInputBuf, usbAppBuf, usbRxLen, usbRxToken, usbCurrentTok,
    \* handed from the main loop to the interrupt routine and back
    usbTxBuf, usbTxLen, scratch, usbDeviceAddr, usbNewDeviceAddr,
    \* the main loop's own
    usbConfiguration, usbMsgLen, usbMsgPtr, usbMsgFlags, usbIsReset,
    replyBuffer, angle,
    pc, len, block,
    \* the bus: driven to single-ended zero by the host
    se0,
    \* history: the message being answered, the data packet last acknowledged
    msgFor, acked

rxVars   == <<usbRxBuf, usbInputBuf, usbAppBuf, usbRxLen, usbRxToken, usbCurrentTok, acked>>
txVars   == <<usbTxBuf, usbTxLen, scratch>>
addrVars == <<usbDeviceAddr, usbNewDeviceAddr>>
msgVars  == <<usbMsgLen, usbMsgPtr, usbMsgFlags, msgFor>>
appVars  == <<usbConfiguration, replyBuffer, angle>>
pollVars == <<pc, len, block, usbIsReset>>
mainVars == <<msgVars, appVars, pollVars>>
vars     == <<rxVars, txVars, addrVars, mainVars, se0>>

\* usbTxLen either is a handshake token (bit 4 set: the transmit system is
\* idle) or the length of the packet to send.
IsHandshake(n) == (n \div 16) % 2 = 1
TxIdle == IsHandshake(usbTxLen)

EmptyTxBuf == [ pid |-> 0, loc |-> "null", off |-> 0, val |-> 0, len |-> 0,
                crc |-> FALSE, ans |-> Junk ]
NoBlock == [ pid |-> 0, len |-> 0 ]
NoAck   == [ tok |-> 0, pkt |-> Junk ]

Init ==
    /\ usbRxBuf = [i \in {0, 1} |-> Junk]
    /\ usbInputBuf = 0
    /\ usbAppBuf = 1
    /\ usbRxLen = 0
    /\ usbRxToken = 0
    /\ usbCurrentTok = 0
    /\ usbTxBuf = EmptyTxBuf
    /\ usbTxLen = USBPID_NAK
    /\ scratch = 0
    /\ usbDeviceAddr = 0
    /\ usbNewDeviceAddr = 0
    /\ usbConfiguration = 0
    /\ usbMsgLen = NoMessage
    /\ usbMsgPtr = [loc |-> "null", off |-> 0]
    /\ usbMsgFlags = 0
    /\ usbIsReset = FALSE
    /\ replyBuffer = 0
    /\ angle = 0
    /\ pc = "poll"
    /\ len = 0
    /\ block = NoBlock
    /\ se0 = FALSE
    /\ msgFor = Junk
    /\ acked = NoAck

-----------------------------------------------------------------------------
(* The interrupt routine: one action per received packet.                  *)

\* Every packet is received into usbRxBuf[usbInputBuf]; what is left there by
\* a packet nobody accepts is Junk.
Receives(contents) ==
    /\ ~se0
    /\ usbRxBuf' = [usbRxBuf EXCEPT ![usbInputBuf] = contents]

\* Too short, too long, a handshake, or no PID the driver knows.
RxIgnored ==
    /\ Receives(Junk)
    /\ UNCHANGED <<usbInputBuf, usbAppBuf, usbRxLen, usbRxToken, usbCurrentTok, acked>>
    /\ UNCHANGED <<txVars, addrVars, mainVars, se0>>

\* A SETUP or OUT token for this device aborts what waits to be sent.
IsSetupOrOut(pid, addr) ==
    /\ addr = usbDeviceAddr
    /\ Receives(Junk)
    /\ usbCurrentTok' = pid
    /\ usbTxLen' = USBPID_NAK
    /\ UNCHANGED <<usbInputBuf, usbAppBuf, usbRxLen, usbRxToken, acked>>
    /\ UNCHANGED <<usbTxBuf, scratch, addrVars, mainVars, se0>>

OtherOutOrSetup(addr) ==
    /\ addr # usbDeviceAddr
    /\ Receives(Junk)
    /\ usbCurrentTok' = 0
    /\ UNCHANGED <<usbInputBuf, usbAppBuf, usbRxLen, usbRxToken, acked>>
    /\ UNCHANGED <<txVars, addrVars, mainVars, se0>>

\* usbPoll has released the last message.  Mutant: nobody asks.
RxFree_Always == TRUE
RxFree == usbRxLen = 0

\* Data after a token for another device, or after no token at all.
DataIgnored ==
    /\ usbCurrentTok = 0
    /\ RxIgnored

\* The previous message has not been released by usbPoll.
DataNaked ==
    /\ usbCurrentTok # 0
    /\ ~RxFree
    /\ RxIgnored

\* Mutant: before 2006-03-11, when zero-length packets were stored like others.
DataZeroLength_Stored ==
    /\ usbCurrentTok # 0
    /\ RxFree
    /\ Receives(Junk)
    /\ usbRxLen' = 3
    /\ usbRxToken' = usbCurrentTok
    /\ usbAppBuf' = usbInputBuf
    /\ usbInputBuf' = usbAppBuf
    /\ UNCHANGED <<usbCurrentTok, acked>>
    /\ UNCHANGED <<txVars, addrVars, mainVars, se0>>

\* A zero-length packet ends a status stage: acknowledged and dropped.
DataZeroLength ==
    /\ usbCurrentTok # 0
    /\ RxFree
    /\ RxIgnored

\* The packet just received is for the application, its old buffer for the next.
\* Mutant: the buffers stay.
SwapBuffers_Not == UNCHANGED <<usbAppBuf, usbInputBuf>>
SwapBuffers ==
    /\ usbAppBuf' = usbInputBuf
    /\ usbInputBuf' = usbAppBuf

\* Stored with its PID and CRC (size + 3 bytes), acknowledged, buffers swapped.
DataAccepted(p) ==
    /\ usbCurrentTok # 0
    /\ RxFree
    /\ Receives(p)
    /\ usbRxLen' = p.size + 3
    /\ usbRxToken' = usbCurrentTok
    /\ SwapBuffers
    /\ acked' = [tok |-> usbCurrentTok, pkt |-> p]
    /\ UNCHANGED usbCurrentTok
    /\ UNCHANGED <<txVars, addrVars, mainVars, se0>>

InIgnored(addr) ==
    /\ addr # usbDeviceAddr
    /\ RxIgnored

\* Mutant: before 2006-03-06, when a handshake took over the new address too.
InHandshake_TakesAddress(addr) ==
    /\ addr = usbDeviceAddr
    /\ TxIdle
    /\ Receives(Junk)
    /\ usbDeviceAddr' = usbNewDeviceAddr
    /\ UNCHANGED <<usbInputBuf, usbAppBuf, usbRxLen, usbRxToken, usbCurrentTok, acked>>
    /\ UNCHANGED <<txVars, usbNewDeviceAddr, mainVars, se0>>

\* Nothing to send: usbTxLen is itself the token (NAK) that is sent.
InHandshake(addr) ==
    /\ addr = usbDeviceAddr
    /\ TxIdle
    /\ RxIgnored

\* The packet goes out and the buffer is free at once, without waiting for the
\* host's ACK; the transmitter then copies the new address.
InData(addr) ==
    /\ addr = usbDeviceAddr
    /\ ~TxIdle
    /\ Receives(Junk)
    /\ usbTxLen' = USBPID_NAK
    /\ usbDeviceAddr' = usbNewDeviceAddr
    /\ UNCHANGED <<usbInputBuf, usbAppBuf, usbRxLen, usbRxToken, usbCurrentTok, acked>>
    /\ UNCHANGED <<usbTxBuf, scratch, usbNewDeviceAddr, mainVars, se0>>

\* The host starts and ends a bus reset.
Se0Begins ==
    /\ ~se0
    /\ se0' = TRUE
    /\ UNCHANGED <<rxVars, txVars, addrVars, mainVars>>

Se0Ends ==
    /\ se0
    /\ se0' = FALSE
    /\ UNCHANGED <<rxVars, txVars, addrVars, mainVars>>

-----------------------------------------------------------------------------
(* usbPoll: one action per stretch of code that touches shared memory once. *)

\* if((len = usbRxLen) > 0) ... len -= 3
Poll ==
    /\ pc = "poll"
    /\ IF usbRxLen > 0
       THEN pc' = "process" /\ len' = usbRxLen - 3
       ELSE pc' = "tx" /\ UNCHANGED len
    /\ UNCHANGED <<rxVars, txVars, addrVars, msgVars, appVars, block, usbIsReset, se0>>

\* usbMsgPtr after a standard request: requests without a reply leave it alone.
ReplyPointer(p) ==
    CASE p.request \in {USBRQ_GET_STATUS, USBRQ_GET_INTERFACE} -> [loc |-> "usbTxBuf+9", off |-> 0]
      [] p.request = USBRQ_GET_DESCRIPTOR /\ FullLength(p) > 0 -> [loc |-> "descriptor", off |-> 0]
      [] p.request = USBRQ_GET_CONFIGURATION -> [loc |-> "usbConfiguration", off |-> 0]
      [] OTHER -> usbMsgPtr

\* replyData[0] lies behind the data of usbTxBuf, where an eight-byte packet
\* has its CRC (and a seven-byte one the second CRC byte).
ScratchInCrc == usbTxBuf.len >= 7

\* A request is eight bytes after a SETUP token.  Mutant: after any token.
IsSetup_AnyToken == len = 8
IsSetup == usbRxToken = USBPID_SETUP /\ len = 8

ProcessStandard ==
    LET p == usbRxBuf[usbAppBuf] IN
    /\ pc = "process"
    /\ IsSetup /\ p.type = "standard"
    /\ scratch' = IF p.request = USBRQ_GET_STATUS /\ p.recipient = 0 THEN 1 ELSE 0
    /\ usbTxBuf' = IF ScratchInCrc THEN [usbTxBuf EXCEPT !.crc = FALSE] ELSE usbTxBuf
    /\ usbNewDeviceAddr' = IF p.request = USBRQ_SET_ADDRESS THEN Lo(p.wValue) ELSE usbNewDeviceAddr
    /\ usbConfiguration' = IF p.request = USBRQ_SET_CONFIGURATION THEN Lo(p.wValue) ELSE usbConfiguration
    /\ usbMsgPtr' = ReplyPointer(p)
    /\ usbMsgFlags' = IF p.request = USBRQ_GET_DESCRIPTOR
                      THEN USB_FLG_MSGPTR_IS_ROM + USB_FLG_USE_DEFAULT_RW
                      ELSE USB_FLG_USE_DEFAULT_RW
    /\ usbMsgLen' = ReplyLength(p)
    /\ msgFor' = p
    /\ pc' = "release"
    /\ UNCHANGED <<rxVars, usbTxLen, usbDeviceAddr, replyBuffer, angle, len, block, usbIsReset, se0>>

\* The angle is data[2].  Mutant: it is data[3].
NewAngle_Data3(p) == IF p.request = CMD_SET THEN Hi(p.wValue) ELSE angle
NewAngle(p) == IF p.request = CMD_SET THEN Lo(p.wValue) ELSE angle

\* The application's usbFunctionSetup; replyBuffer's bytes 0 and 1 as a word.
ProcessVendor ==
    LET p == usbRxBuf[usbAppBuf] IN
    /\ pc = "process"
    /\ IsSetup /\ p.type # "standard"
    /\ replyBuffer' = CASE p.request = CMD_ECHO -> p.wValue
                        [] p.request = CMD_GET  -> 256 * Hi(replyBuffer) + angle
                        [] p.request = CMD_SET  -> 256 * Hi(replyBuffer) + msgOK
                        [] OTHER -> 256 * Hi(replyBuffer) + msgErr
    /\ angle' = NewAngle(p)
    /\ usbMsgPtr' = [loc |-> "replyBuffer", off |-> 0]
    /\ usbMsgFlags' = USB_FLG_USE_DEFAULT_RW
    /\ usbMsgLen' = ReplyLength(p)
    /\ msgFor' = p
    /\ pc' = "release"
    /\ UNCHANGED <<rxVars, txVars, addrVars, usbConfiguration, len, block, usbIsReset, se0>>

\* The data of an OUT transfer, or a SETUP of the wrong size: nothing is done,
\* and a zero-length packet is prepared for the status stage.
ProcessOther ==
    /\ pc = "process"
    /\ ~IsSetup
    /\ usbMsgFlags' = USB_FLG_USE_DEFAULT_RW
    /\ usbMsgLen' = 0
    /\ msgFor' = usbRxBuf[usbAppBuf]
    /\ pc' = "release"
    /\ UNCHANGED <<rxVars, txVars, addrVars, appVars, usbMsgPtr, len, block, usbIsReset, se0>>

Release ==
    /\ pc = "release"
    /\ usbRxLen' = 0
    /\ acked' = NoAck
    /\ len' = 0
    /\ pc' = "tx"
    /\ UNCHANGED <<usbRxBuf, usbInputBuf, usbAppBuf, usbRxToken, usbCurrentTok>>
    /\ UNCHANGED <<txVars, addrVars, msgVars, appVars, block, usbIsReset, se0>>

\* if(usbMsgLen != 0xff) if(usbTxLen & 0x10) usbBuildTxBlock()
TxSkip ==
    /\ pc = "tx"
    /\ usbMsgLen = NoMessage \/ ~TxIdle
    /\ pc' = "se0"
    /\ UNCHANGED <<rxVars, txVars, addrVars, msgVars, appVars, len, block, usbIsReset, se0>>

\* Mutants: the rest of the message in one packet; off by one.
WantLen_All == usbMsgLen
WantLen_OffByOne == IF usbMsgLen >= 8 THEN 7 ELSE usbMsgLen
WantLen == IF usbMsgLen > 8 THEN 8 ELSE usbMsgLen

\* Bit 0 of the flags toggles with every packet.  Mutant: it stays.
NextFlags_Same == usbMsgFlags
NextFlags == (usbMsgFlags + 1) % 256

\* usbBuildTxBlock up to the call of usbRead.
BuildTxBlock ==
    /\ pc = "tx"
    /\ usbMsgLen # NoMessage /\ TxIdle
    /\ usbMsgLen' = usbMsgLen - WantLen
    /\ block' = [pid |-> IF usbMsgFlags % 2 = 1 THEN USBPID_DATA0 ELSE USBPID_DATA1,
                 len |-> WantLen]
    /\ usbMsgFlags' = NextFlags
    /\ pc' = "copy"
    /\ UNCHANGED <<rxVars, txVars, addrVars, usbMsgPtr, msgFor, appVars, len, usbIsReset, se0>>

\* The n bytes at usbMsgPtr, as a number; a descriptor's bytes are named by the
\* request and the offset.
Memory(loc, n) ==
    LET word == CASE loc = "usbTxBuf+9" -> scratch
                  [] loc = "usbConfiguration" -> usbConfiguration
                  [] loc = "replyBuffer" -> replyBuffer
                  [] OTHER -> 0
    IN  CASE n = 0 -> 0
          [] n = 1 -> Lo(word)
          [] OTHER -> word

\* What usbRead copies from: a pointer into flash with the ROM flag clear, or one
\* into RAM with the flag set, reads something else ("null").
MsgPtrIsRom == (usbMsgFlags \div USB_FLG_MSGPTR_IS_ROM) % 2 = 1
Source == IF block.len > 0 /\ (MsgPtrIsRom <=> usbMsgPtr.loc = "descriptor")
          THEN usbMsgPtr.loc ELSE "null"

\* usbRead copies into usbTxBuf[1..]: the packet's CRC no longer fits its data.
UsbRead ==
    /\ pc = "copy"
    /\ usbTxBuf' = [usbTxBuf EXCEPT !.loc = Source, !.off = usbMsgPtr.off,
                                    !.val = Memory(Source, block.len),
                                    !.len = block.len, !.ans = msgFor, !.crc = FALSE]
    /\ usbMsgPtr' = [usbMsgPtr EXCEPT !.off = @ + block.len]
    /\ pc' = "crc"
    /\ UNCHANGED <<rxVars, usbTxLen, scratch, addrVars, usbMsgLen, usbMsgFlags, msgFor, appVars>>
    /\ UNCHANGED <<len, block, usbIsReset, se0>>

\* A partial packet ends the message.  Mutants: a full one does too; none does.
IsLast_Full  == block.len <= 8
IsLast_Never == FALSE
IsLast == block.len < 8

\* usbCrc16Append, and the end of the message after a partial packet.
Crc16Append ==
    /\ pc = "crc"
    /\ usbTxBuf' = [usbTxBuf EXCEPT !.crc = TRUE]
    /\ scratch' = IF ScratchInCrc THEN CrcBytes ELSE scratch
    /\ usbMsgLen' = IF IsLast THEN NoMessage ELSE usbMsgLen
    /\ pc' = "token"
    /\ UNCHANGED <<rxVars, usbTxLen, addrVars, usbMsgPtr, usbMsgFlags, msgFor, appVars>>
    /\ UNCHANGED <<len, block, usbIsReset, se0>>

\* Mutant: the length is stored before the token.
SetToken_Armed ==
    /\ pc = "token"
    /\ usbTxBuf' = [usbTxBuf EXCEPT !.pid = block.pid]
    /\ usbTxLen' = block.len + 4
    /\ pc' = "arm"
    /\ UNCHANGED <<rxVars, scratch, addrVars, msgVars, appVars, len, block, usbIsReset, se0>>

SetToken ==
    /\ pc = "token"
    /\ usbTxBuf' = [usbTxBuf EXCEPT !.pid = block.pid]
    /\ pc' = "arm"
    /\ UNCHANGED <<rxVars, usbTxLen, scratch, addrVars, msgVars, appVars, len, block, usbIsReset, se0>>

\* usbTxLen = txLen: from here on the interrupt routine may send the packet.
Arm ==
    /\ pc = "arm"
    /\ usbTxLen' = block.len + 4
    /\ block' = NoBlock
    /\ pc' = "se0"
    /\ UNCHANGED <<rxVars, usbTxBuf, scratch, addrVars, msgVars, appVars, len, usbIsReset, se0>>

BusActive ==
    /\ pc = "se0"
    /\ ~se0
    /\ usbIsReset' = FALSE
    /\ pc' = "poll"
    /\ UNCHANGED <<rxVars, txVars, addrVars, msgVars, appVars, len, block, se0>>

StillReset ==
    /\ pc = "se0"
    /\ se0 /\ usbIsReset
    /\ pc' = "poll"
    /\ UNCHANGED <<rxVars, txVars, addrVars, msgVars, appVars, len, block, usbIsReset, se0>>

\* The loop of 100 samples that tells a reset from the end of a packet.
SampleSe0 ==
    /\ pc = "se0"
    /\ se0 /\ ~usbIsReset
    /\ pc' = "sample"
    /\ UNCHANGED <<rxVars, txVars, addrVars, msgVars, appVars, len, block, usbIsReset, se0>>

NotUsbReset ==
    /\ pc = "sample"
    /\ ~se0
    /\ pc' = "poll"
    /\ UNCHANGED <<rxVars, txVars, addrVars, msgVars, appVars, len, block, usbIsReset, se0>>

ResetSeen ==
    /\ pc = "sample"
    /\ se0
    /\ usbIsReset' = TRUE
    /\ usbNewDeviceAddr' = 0
    /\ pc' = "readdress"
    /\ UNCHANGED <<rxVars, txVars, usbDeviceAddr, msgVars, appVars, len, block, se0>>

ResetAddress ==
    /\ pc = "readdress"
    /\ usbDeviceAddr' = 0
    /\ pc' = "poll"
    /\ UNCHANGED <<rxVars, txVars, usbNewDeviceAddr, msgVars, appVars, len, block, usbIsReset, se0>>

-----------------------------------------------------------------------------
Process == ProcessStandard \/ ProcessVendor \/ ProcessOther
BuildSteps == UsbRead \/ Crc16Append \/ SetToken \/ Arm
\* Mutant: the address in use is cleared before the one to come.
ResetSeen_OtherOrder ==
    /\ pc = "sample"
    /\ se0
    /\ usbIsReset' = TRUE
    /\ usbDeviceAddr' = 0
    /\ pc' = "readdress"
    /\ UNCHANGED <<rxVars, txVars, usbNewDeviceAddr, msgVars, appVars, len, block, se0>>

ResetAddress_OtherOrder ==
    /\ pc = "readdress"
    /\ usbNewDeviceAddr' = 0
    /\ pc' = "poll"
    /\ UNCHANGED <<rxVars, txVars, usbDeviceAddr, msgVars, appVars, len, block, usbIsReset, se0>>

ResetCheck_OtherOrder ==
    BusActive \/ StillReset \/ SampleSe0 \/ NotUsbReset \/ ResetSeen_OtherOrder \/ ResetAddress_OtherOrder

ResetCheck == BusActive \/ StillReset \/ SampleSe0 \/ NotUsbReset \/ ResetSeen \/ ResetAddress

Main ==
    \/ Poll \/ Process \/ Release
    \/ TxSkip \/ BuildTxBlock \/ BuildSteps
    \/ ResetCheck

Interrupt ==
    \/ RxIgnored
    \/ \E addr \in Addresses :
          \/ \E pid \in {USBPID_SETUP, USBPID_OUT} : IsSetupOrOut(pid, addr)
          \/ OtherOutOrSetup(addr)
          \/ InIgnored(addr) \/ InHandshake(addr) \/ InData(addr)
    \/ DataIgnored \/ DataNaked \/ DataZeroLength
    \/ \E p \in Packets : DataAccepted(p)

Bus == Se0Begins \/ Se0Ends

Next == Main \/ Interrupt \/ Bus

Spec == Init /\ [][Next]_vars

-----------------------------------------------------------------------------
(* Properties of the device alone, whatever the bus does. *)

OptionalPacket == Packets \cup {Junk}
TxPids  == {0, USBPID_DATA0, USBPID_DATA1}
RxToks  == {0, USBPID_SETUP, USBPID_OUT}
PcSteps == {"poll", "process", "release", "tx", "copy", "crc", "token", "arm",
            "se0", "sample", "readdress"}

RxTypeOK ==
    /\ usbRxBuf \in [{0, 1} -> OptionalPacket]
    /\ usbInputBuf \in {0, 1} /\ usbAppBuf \in {0, 1}
    /\ usbRxLen \in {0} \cup 4..11
    /\ usbRxToken \in RxToks /\ usbCurrentTok \in RxToks
    /\ acked \in [tok : RxToks, pkt : OptionalPacket]

TxTypeOK ==
    /\ usbTxBuf \in [pid : TxPids, loc : Locations, off : Nat, val : Word, len : 0..8,
                     crc : BOOLEAN, ans : OptionalPacket]
    /\ usbTxLen \in {USBPID_NAK} \cup 4..12
    /\ scratch \in {0, 1, CrcBytes}
    /\ usbDeviceAddr \in Byte /\ usbNewDeviceAddr \in Byte

MsgTypeOK ==
    /\ usbMsgLen \in Byte /\ usbMsgFlags \in Byte
    /\ usbMsgPtr \in [loc : Locations, off : Nat]
    /\ msgFor \in OptionalPacket
    /\ usbConfiguration \in Byte /\ angle \in Byte /\ replyBuffer \in Word

PollTypeOK ==
    /\ pc \in PcSteps
    /\ len \in 0..8
    /\ block \in [pid : TxPids, len : 0..8]
    /\ usbIsReset \in BOOLEAN /\ se0 \in BOOLEAN

TypeOK == RxTypeOK /\ TxTypeOK /\ MsgTypeOK /\ PollTypeOK

\* What usbPoll reads is the packet the interrupt routine last acknowledged, under
\* the token it came with: later packets, refused or ignored, reach neither the
\* application's buffer nor usbRxToken before usbPoll releases the message
\* (usbdrv.c:506-525 against usbdrvasm.S:389-405).
MessageIntact ==
    usbRxLen # 0 =>
        /\ usbAppBuf # usbInputBuf
        /\ usbRxBuf[usbAppBuf] = acked.pkt
        /\ usbRxToken = acked.tok
        /\ usbRxLen = acked.pkt.size + 3
        /\ pc = "process" => len = acked.pkt.size

\* The interrupt routine never sends a packet the main loop is still writing:
\* whenever usbTxLen says there is one, token, length and data are those of one
\* block of the message (usbdrv.c:461-486).
PacketWhole ==
    ~TxIdle => /\ pc \notin {"copy", "crc", "token", "arm"}
               /\ usbTxLen = usbTxBuf.len + 4
               /\ usbTxBuf.pid # 0
               /\ usbTxBuf.len > 0 => usbTxBuf.loc # "null"

\* The packets of one reply alternate DATA1, DATA0, ... from DATA1, whatever tokens
\* interrupt the reply; the eight-bit usbMsgFlags never counts into the ROM flag.
Toggled ==
    ~TxIdle /\ usbTxBuf.len > 0 =>
        /\ usbTxBuf.off % 8 = 0
        /\ usbTxBuf.pid = USBPID_DATA1 <=> usbTxBuf.off % 16 = 0

\* A reply never runs past its own end or the wLength the host asked for, counted
\* over all of its packets (usbdrv.c:436, 461-468).
WithinLength ==
    LET end == usbTxBuf.off + usbTxBuf.len
        p   == usbTxBuf.ans
    IN  ~TxIdle /\ usbTxBuf.len > 0 =>
            end <= FullLength(p) /\ (p.wLength < 256 => end <= p.wLength)

\* Only a SETUP changes the device: the data of an OUT transfer, which
\* reaches the same buffer, is never taken for a request (usbdrv.c:334).
OnlySetupActs ==
    [][ \/ angle' # angle
        \/ usbConfiguration' # usbConfiguration
        \/ usbNewDeviceAddr' \notin {usbNewDeviceAddr, 0}
        => acked.tok = USBPID_SETUP /\ acked.pkt.size = 8 ]_vars

\* The main loop leaves the handling of a bus reset with both addresses 0: no
\* packet that arrives meanwhile brings the old one back, because usbNewDeviceAddr
\* is cleared first (usbdrv.c:541-543 against usbdrvasm.S:642-646).
AddressAfterReset ==
    [][pc = "readdress" /\ pc' # "readdress" => usbDeviceAddr' = 0 /\ usbNewDeviceAddr' = 0]_vars
=============================================================================
