---------------------------- MODULE UsbDrvProofs ----------------------------
(***************************************************************************)
(* Proofs about the driver for every set of packets and addresses and every *)
(* order in which they may arrive.                                          *)
(*                                                                          *)
(* None of UsbDrv's invariants is inductive by itself.  IInv adds what the  *)
(* code relies on between the steps: who owns which buffer (RxInv), how far *)
(* usbBuildTxBlock has got (TxInv), and that the rest of the message, the   *)
(* pointer and the flags count the same packets (MsgInv).                   *)
(***************************************************************************)
EXTENDS UsbDrv, TLAPS

Building == pc \in {"copy", "crc", "token", "arm"}

RxInv ==
    /\ usbAppBuf # usbInputBuf
    /\ usbRxLen # 0 =>
          /\ acked.pkt \in Packets
          /\ usbRxBuf[usbAppBuf] = acked.pkt
          /\ usbRxToken = acked.tok
          /\ usbRxLen = acked.pkt.size + 3
    /\ pc \in {"process", "release"} => usbRxLen # 0
    /\ pc = "process" => len = usbRxLen - 3

\* The data of usbTxBuf belong to one place of one reply.
DataWhole ==
    usbTxBuf.len > 0 =>
        /\ usbTxBuf.ans \in Packets
        /\ usbTxBuf.loc # "null"
        /\ usbTxBuf.off % 8 = 0
        /\ usbTxBuf.off + usbTxBuf.len <= ReplyLength(usbTxBuf.ans)

Parity(off, pid) == pid = USBPID_DATA1 <=> off % 16 = 0

TxInv ==
    /\ Building => TxIdle /\ block.pid \in {USBPID_DATA0, USBPID_DATA1}
    /\ pc \in {"crc", "token", "arm"} =>
          /\ usbTxBuf.len = block.len
          /\ DataWhole
          /\ usbTxBuf.len > 0 => Parity(usbTxBuf.off, block.pid)
    /\ pc = "arm" => usbTxBuf.pid = block.pid
    /\ ~TxIdle =>
          /\ usbTxLen = usbTxBuf.len + 4
          /\ usbTxBuf.pid \in {USBPID_DATA0, USBPID_DATA1}
          /\ DataWhole
          /\ usbTxBuf.len > 0 => Parity(usbTxBuf.off, usbTxBuf.pid)

\* The flags a message starts with, and after n packets of eight bytes.
FirstFlags == IF usbMsgPtr.loc = "descriptor" THEN 192 ELSE 128

\* n bytes are left to send from usbMsgPtr on, flags counting the packets sent.
Remaining(n, flags) ==
    /\ msgFor \in Packets
    /\ usbMsgPtr.loc # "null"
    /\ usbMsgPtr.off + n = ReplyLength(msgFor)
    /\ 8 * (flags - FirstFlags) = usbMsgPtr.off

MsgInv ==
    /\ pc # "copy" /\ usbMsgLen \notin {0, NoMessage} => Remaining(usbMsgLen, usbMsgFlags)
    /\ pc = "copy" =>
          /\ block.len > 0 => /\ Remaining(block.len + usbMsgLen, usbMsgFlags - 1)
                              /\ Parity(usbMsgPtr.off, block.pid)
          /\ block.len < 8 => usbMsgLen = 0
    /\ pc = "crc" => (block.len < 8 => usbMsgLen = 0)

ResetInv == pc = "readdress" => usbNewDeviceAddr = 0

IInv == TypeOK /\ RxInv /\ TxInv /\ MsgInv /\ ResetInv

-----------------------------------------------------------------------------
(* Arithmetic and data *)

\* A handshake token is never taken for a length, nor a length for a token.
LEMMA Handshakes ==
    /\ IsHandshake(USBPID_NAK)
    /\ \A n \in 4..12 : ~IsHandshake(n)
BY SMT DEF IsHandshake, USBPID_NAK

LEMMA WordBytes ==
    ASSUME NEW w \in Word
    PROVE  /\ Lo(w) \in Byte
           /\ \A b \in Byte : 256 * Hi(w) + b \in Word
<1>1. w \in Nat /\ w <= 65535
  BY DEF Word
<1>2. /\ Lo(w) \in Nat /\ Lo(w) < 256
      /\ Hi(w) \in Nat /\ Hi(w) < 256
  BY <1>1 DEF Lo, Hi
<1> QED
  BY <1>2 DEF Byte, Word

LEMMA PacketTypes ==
    ASSUME NEW p \in Packets
    PROVE  p \in PacketFields /\ p # Junk
BY PacketsAssumption, JunkAssumption

\* No reply is longer than the vendor string, nor than what was asked for.
LEMMA ReplyBound ==
    ASSUME NEW p \in Packets
    PROVE  /\ FullLength(p) \in 0..40
           /\ ReplyLength(p) \in 0..40
           /\ ReplyLength(p) <= FullLength(p)
           /\ p.wLength < 256 => ReplyLength(p) <= p.wLength
<1>1. p.wLength \in Nat
  BY PacketTypes DEF PacketFields, Word
<1>2. DescriptorLength(p.wValue) \in 0..40
  BY DEF DescriptorLength
<1>3. FullLength(p) \in 0..40
  BY <1>2 DEF FullLength
<1> QED
  BY <1>1, <1>3 DEF ReplyLength

-----------------------------------------------------------------------------
(* The initial state *)

LEMMA InitInv == Init => IInv
<1> SUFFICES ASSUME Init PROVE IInv
  OBVIOUS
<1> USE DEF Init
<1>1. RxTypeOK /\ MsgTypeOK
  BY DEF RxTypeOK, MsgTypeOK, OptionalPacket, RxToks, NoAck, Locations, Byte, Word, NoMessage
<1>2. TxTypeOK
  BY DEF TxTypeOK, OptionalPacket, TxPids, Locations, EmptyTxBuf, Byte, Word
<1>3. usbIsReset \in BOOLEAN /\ se0 \in BOOLEAN
  OBVIOUS
<1>4. PollTypeOK
  BY <1>3 DEF PollTypeOK, TxPids, PcSteps, NoBlock
<1>5. RxInv
  BY DEF RxInv
<1>6. TxInv
  BY Handshakes DEF TxInv, Building, TxIdle
<1>7. MsgInv
  BY DEF MsgInv
<1>8. ResetInv
  BY DEF ResetInv
<1> QED
  BY <1>1, <1>2, <1>4, <1>5, <1>6, <1>7, <1>8 DEF IInv, TypeOK

-----------------------------------------------------------------------------
(* The interrupt routine *)

LEMMA RxIgnoredInv ==
    ASSUME IInv, RxIgnored
    PROVE  IInv'
<1> USE DEF IInv, RxIgnored, Receives, txVars, addrVars, mainVars, msgVars, appVars, pollVars
<1>1. TypeOK'
  BY DEF TypeOK, RxTypeOK, TxTypeOK, MsgTypeOK, PollTypeOK, OptionalPacket
<1>2. RxInv'
  BY DEF RxInv, TypeOK, RxTypeOK
<1>3. TxInv'
  BY DEF TxInv, Building, TxIdle, DataWhole
<1>4. MsgInv'
  BY DEF MsgInv, Remaining, FirstFlags
<1>5. ResetInv'
  BY DEF ResetInv
<1> QED
  BY <1>1, <1>2, <1>3, <1>4, <1>5

\* A token aborts: the transmit system is idle, whatever the main loop is doing.
LEMMA IsSetupOrOutInv ==
    ASSUME IInv, NEW pid \in {USBPID_SETUP, USBPID_OUT}, NEW addr \in Addresses,
           IsSetupOrOut(pid, addr)
    PROVE  IInv'
<1> USE DEF IInv, IsSetupOrOut, Receives, addrVars, mainVars, msgVars, appVars, pollVars
<1>1. TypeOK'
  BY DEF TypeOK, RxTypeOK, TxTypeOK, MsgTypeOK, PollTypeOK, OptionalPacket, RxToks
<1>2. RxInv'
  BY DEF RxInv, TypeOK, RxTypeOK
<1>3. TxInv'
  BY Handshakes DEF TxInv, Building, TxIdle, DataWhole
<1>4. MsgInv'
  BY DEF MsgInv, Remaining, FirstFlags
<1>5. ResetInv'
  BY DEF ResetInv
<1> QED
  BY <1>1, <1>2, <1>3, <1>4, <1>5

LEMMA OtherOutOrSetupInv ==
    ASSUME IInv, NEW addr \in Addresses, OtherOutOrSetup(addr)
    PROVE  IInv'
<1> USE DEF IInv, OtherOutOrSetup, Receives, txVars, addrVars, mainVars, msgVars, appVars, pollVars
<1>1. TypeOK'
  BY DEF TypeOK, RxTypeOK, TxTypeOK, MsgTypeOK, PollTypeOK, OptionalPacket, RxToks
<1>2. RxInv'
  BY DEF RxInv, TypeOK, RxTypeOK
<1>3. TxInv'
  BY DEF TxInv, Building, TxIdle, DataWhole
<1>4. MsgInv'
  BY DEF MsgInv, Remaining, FirstFlags
<1>5. ResetInv'
  BY DEF ResetInv
<1> QED
  BY <1>1, <1>2, <1>3, <1>4, <1>5

\* A packet is stored only into a free buffer, and the swap keeps the two apart.
LEMMA DataAcceptedInv ==
    ASSUME IInv, NEW p \in Packets, DataAccepted(p)
    PROVE  IInv'
<1> USE DEF IInv, DataAccepted, RxFree, SwapBuffers, Receives,
            txVars, addrVars, mainVars, msgVars, appVars, pollVars
<1>1. p.size \in 1..8
  BY PacketTypes DEF PacketFields
<1>2. RxTypeOK'
  BY <1>1 DEF TypeOK, RxTypeOK, OptionalPacket
<1>3. TypeOK'
  BY <1>2 DEF TypeOK, TxTypeOK, MsgTypeOK, PollTypeOK
<1>4. RxInv'
  BY <1>1 DEF RxInv, TypeOK, RxTypeOK
<1>5. TxInv'
  BY DEF TxInv, Building, TxIdle, DataWhole
<1>6. MsgInv'
  BY DEF MsgInv, Remaining, FirstFlags
<1>7. ResetInv'
  BY DEF ResetInv
<1> QED
  BY <1>3, <1>4, <1>5, <1>6, <1>7

LEMMA InDataInv ==
    ASSUME IInv, NEW addr \in Addresses, InData(addr)
    PROVE  IInv'
<1> USE DEF IInv, InData, Receives, mainVars, msgVars, appVars, pollVars
<1>1. TypeOK'
  BY DEF TypeOK, RxTypeOK, TxTypeOK, MsgTypeOK, PollTypeOK, OptionalPacket
<1>2. RxInv'
  BY DEF RxInv, TypeOK, RxTypeOK
<1>3. TxInv'
  BY Handshakes DEF TxInv, Building, TxIdle, DataWhole
<1>4. MsgInv'
  BY DEF MsgInv, Remaining, FirstFlags
<1>5. ResetInv'
  BY DEF ResetInv
<1> QED
  BY <1>1, <1>2, <1>3, <1>4, <1>5

LEMMA InterruptInv ==
    ASSUME IInv, Interrupt
    PROVE  IInv'
<1>1. CASE RxIgnored
  BY <1>1, RxIgnoredInv
<1>2. ASSUME NEW addr \in Addresses,
             \/ \E pid \in {USBPID_SETUP, USBPID_OUT} : IsSetupOrOut(pid, addr)
             \/ OtherOutOrSetup(addr)
             \/ InIgnored(addr) \/ InHandshake(addr) \/ InData(addr)
      PROVE  IInv'
  BY <1>2, IsSetupOrOutInv, OtherOutOrSetupInv, InDataInv, RxIgnoredInv DEF InIgnored, InHandshake
<1>3. CASE DataIgnored \/ DataNaked \/ DataZeroLength
  BY <1>3, RxIgnoredInv DEF DataIgnored, DataNaked, DataZeroLength
<1>4. CASE \E p \in Packets : DataAccepted(p)
  BY <1>4, DataAcceptedInv
<1> QED
  BY <1>1, <1>2, <1>3, <1>4 DEF Interrupt

LEMMA BusInv ==
    ASSUME IInv, Bus
    PROVE  IInv'
<1> USE DEF IInv, Bus, Se0Begins, Se0Ends, rxVars, txVars, addrVars, mainVars, msgVars, appVars, pollVars
<1>1. TypeOK'
  BY DEF TypeOK, RxTypeOK, TxTypeOK, MsgTypeOK, PollTypeOK
<1>2. RxInv'
  BY DEF RxInv
<1>3. TxInv'
  BY DEF TxInv, Building, TxIdle, DataWhole
<1>4. MsgInv'
  BY DEF MsgInv, Remaining, FirstFlags
<1>5. ResetInv'
  BY DEF ResetInv
<1> QED
  BY <1>1, <1>2, <1>3, <1>4, <1>5


-----------------------------------------------------------------------------
(* The main loop *)

LEMMA PollInv ==
    ASSUME IInv, Poll
    PROVE  IInv'
<1> USE DEF IInv, Poll, rxVars, txVars, addrVars, msgVars, appVars
<1>1. usbRxLen \in {0} \cup 4..11 /\ len \in 0..8
  BY DEF TypeOK, RxTypeOK, PollTypeOK
<1>2. RxTypeOK' /\ TxTypeOK' /\ MsgTypeOK'
  BY DEF TypeOK, RxTypeOK, TxTypeOK, MsgTypeOK
<1>3. PollTypeOK'
  BY <1>1 DEF TypeOK, PollTypeOK, PcSteps
<1>4. RxInv'
  BY <1>1 DEF RxInv
<1>5. TxInv'
  BY DEF TxInv, Building, TxIdle, DataWhole
<1>6. MsgInv'
  BY DEF MsgInv, Remaining, FirstFlags
<1>7. ResetInv'
  BY DEF ResetInv
<1> QED
  BY <1>2, <1>3, <1>4, <1>5, <1>6, <1>7 DEF TypeOK

\* The packet usbProcessRx looks at is one that was accepted.
LEMMA Processed ==
    ASSUME IInv, pc = "process"
    PROVE  usbRxBuf[usbAppBuf] \in Packets
BY DEF IInv, RxInv

\* The scratch bytes lie behind the data of usbTxBuf, which stay as they are.
LEMMA ProcessStandardInv ==
    ASSUME IInv, ProcessStandard
    PROVE  IInv'
<1> DEFINE p == usbRxBuf[usbAppBuf]
<1> USE DEF IInv, ProcessStandard, rxVars
<1>1. p \in Packets /\ p \in PacketFields
  BY Processed, PacketTypes
<1>2. /\ Lo(p.wValue) \in Byte
      /\ ReplyLength(p) \in 0..40
  BY <1>1, WordBytes, ReplyBound DEF PacketFields
<1> HIDE DEF p
<1>3. RxTypeOK'
  BY DEF TypeOK, RxTypeOK
<1>4. TxTypeOK'
  BY <1>2 DEF TypeOK, TxTypeOK, p
<1>5. MsgTypeOK'
  BY <1>1, <1>2 DEF TypeOK, MsgTypeOK, ReplyPointer, Locations, Byte, OptionalPacket, p,
                    USB_FLG_MSGPTR_IS_ROM, USB_FLG_USE_DEFAULT_RW
<1>6. PollTypeOK'
  BY DEF TypeOK, PollTypeOK, PcSteps
<1>7. RxInv'
  BY DEF RxInv
<1>8. TxInv'
  BY DEF TxInv, Building, TxIdle, DataWhole, TypeOK, TxTypeOK
<1>9. MsgInv'
  <2>1. ReplyLength(p) # 0 =>
          /\ FullLength(p) > 0
          /\ ReplyPointer(p).loc # "null" /\ ReplyPointer(p).off = 0
          /\ ReplyPointer(p).loc = "descriptor" <=> p.request = USBRQ_GET_DESCRIPTOR
    <3>1. ReplyLength(p) # 0 => FullLength(p) > 0
      BY <1>1, <1>2, ReplyBound
    <3>2. p.type = "standard" /\ FullLength(p) > 0 =>
            p.request \in {USBRQ_GET_STATUS, USBRQ_GET_DESCRIPTOR,
                           USBRQ_GET_CONFIGURATION, USBRQ_GET_INTERFACE}
      BY DEF FullLength
    <3> QED
      BY <3>1, <3>2 DEF ReplyPointer, USBRQ_GET_STATUS, USBRQ_GET_DESCRIPTOR,
                        USBRQ_GET_CONFIGURATION, USBRQ_GET_INTERFACE, p
  <2>2. pc' = "release" /\ usbMsgLen' = ReplyLength(p) /\ msgFor' = p
    BY DEF p
  <2>3. usbMsgPtr' = ReplyPointer(p)
    BY DEF p
  <2>4. usbMsgFlags' = IF p.request = USBRQ_GET_DESCRIPTOR THEN 192 ELSE 128
    BY DEF p, USB_FLG_MSGPTR_IS_ROM, USB_FLG_USE_DEFAULT_RW
  <2>5. ReplyLength(p) # 0 => Remaining(usbMsgLen, usbMsgFlags)'
    BY <1>1, <1>2, <2>1, <2>2, <2>3, <2>4 DEF Remaining, FirstFlags
  <2> QED
    BY <2>2, <2>5 DEF MsgInv
<1>10. ResetInv'
  BY DEF ResetInv
<1> QED
  BY <1>3, <1>4, <1>5, <1>6, <1>7, <1>8, <1>9, <1>10 DEF TypeOK

LEMMA ProcessVendorInv ==
    ASSUME IInv, ProcessVendor
    PROVE  IInv'
<1> DEFINE p == usbRxBuf[usbAppBuf]
<1> USE DEF IInv, ProcessVendor, rxVars, txVars, addrVars
<1>1. p \in Packets /\ p \in PacketFields
  BY Processed, PacketTypes
<1>2. /\ Lo(p.wValue) \in Byte
      /\ ReplyLength(p) \in 0..40
      /\ p.wValue \in Word
  BY <1>1, WordBytes, ReplyBound DEF PacketFields
<1>3. /\ 256 * Hi(replyBuffer) + angle \in Word
      /\ 256 * Hi(replyBuffer) + msgOK \in Word
      /\ 256 * Hi(replyBuffer) + msgErr \in Word
  <2>1. replyBuffer \in Word /\ angle \in Byte
    BY DEF TypeOK, MsgTypeOK
  <2>2. msgOK \in Byte /\ msgErr \in Byte
    BY DEF msgOK, msgErr, Byte
  <2> QED
    BY <2>1, <2>2, WordBytes
<1>4. RxTypeOK' /\ TxTypeOK'
  BY DEF TypeOK, RxTypeOK, TxTypeOK
<1>5. angle' \in Byte /\ replyBuffer' \in Word
  BY <1>2, <1>3 DEF TypeOK, MsgTypeOK, NewAngle
<1>6. /\ usbMsgPtr' = [loc |-> "replyBuffer", off |-> 0] /\ usbMsgFlags' = 128
      /\ usbMsgLen' = ReplyLength(p) /\ msgFor' = p /\ pc' = "release"
  BY DEF USB_FLG_USE_DEFAULT_RW
<1> HIDE DEF p
<1>7. MsgTypeOK'
  BY <1>1, <1>2, <1>5, <1>6 DEF TypeOK, MsgTypeOK, Locations, Byte, OptionalPacket
<1>8. PollTypeOK'
  BY DEF TypeOK, PollTypeOK, PcSteps
<1>9. RxInv'
  BY DEF RxInv
<1>10. TxInv'
  BY DEF TxInv, Building, TxIdle, DataWhole
<1>11. MsgInv'
  BY <1>1, <1>2, <1>6 DEF MsgInv, Remaining, FirstFlags
<1>12. ResetInv'
  BY DEF ResetInv
<1> QED
  BY <1>4, <1>7, <1>8, <1>9, <1>10, <1>11, <1>12 DEF TypeOK

\* A reply of length 0 says nothing of the pointer: nothing will be read there.
LEMMA ProcessOtherInv ==
    ASSUME IInv, ProcessOther
    PROVE  IInv'
<1> USE DEF IInv, ProcessOther, rxVars, txVars, addrVars, appVars
<1>1. usbRxBuf[usbAppBuf] \in OptionalPacket
  BY Processed DEF OptionalPacket
<1>2. TypeOK'
  BY <1>1 DEF TypeOK, RxTypeOK, TxTypeOK, MsgTypeOK, PollTypeOK, PcSteps, Byte,
              USB_FLG_USE_DEFAULT_RW
<1>3. RxInv'
  BY DEF RxInv
<1>4. TxInv'
  BY DEF TxInv, Building, TxIdle, DataWhole
<1>5. MsgInv'
  BY DEF MsgInv
<1>6. ResetInv'
  BY DEF ResetInv
<1> QED
  BY <1>2, <1>3, <1>4, <1>5, <1>6

LEMMA ReleaseInv ==
    ASSUME IInv, Release
    PROVE  IInv'
<1> USE DEF IInv, Release, txVars, addrVars, msgVars, appVars
<1>1. RxTypeOK'
  BY DEF TypeOK, RxTypeOK, NoAck, OptionalPacket, RxToks
<1>2. TypeOK'
  BY <1>1 DEF TypeOK, TxTypeOK, MsgTypeOK, PollTypeOK, PcSteps
<1>3. RxInv'
  BY DEF RxInv
<1>4. TxInv'
  BY DEF TxInv, Building, TxIdle, DataWhole
<1>5. MsgInv'
  BY DEF MsgInv, Remaining, FirstFlags
<1>6. ResetInv'
  BY DEF ResetInv
<1> QED
  BY <1>2, <1>3, <1>4, <1>5, <1>6

LEMMA TxSkipInv ==
    ASSUME IInv, TxSkip
    PROVE  IInv'
<1> USE DEF IInv, TxSkip, rxVars, txVars, addrVars, msgVars, appVars
<1>1. TypeOK'
  BY DEF TypeOK, RxTypeOK, TxTypeOK, MsgTypeOK, PollTypeOK, PcSteps
<1>2. RxInv'
  BY DEF RxInv
<1>3. TxInv'
  BY DEF TxInv, Building, TxIdle, DataWhole
<1>4. MsgInv'
  BY DEF MsgInv, Remaining, FirstFlags
<1>5. ResetInv'
  BY DEF ResetInv
<1> QED
  BY <1>1, <1>2, <1>3, <1>4, <1>5

\* The block is taken off the message and the packet counted in the flags at once.
LEMMA BuildTxBlockInv ==
    ASSUME IInv, BuildTxBlock
    PROVE  IInv'
<1> USE DEF IInv, BuildTxBlock, rxVars, txVars, addrVars, appVars
<1>1. usbMsgLen \in Nat /\ usbMsgLen < 255 /\ usbMsgFlags \in Nat /\ usbMsgFlags < 256
  BY DEF TypeOK, MsgTypeOK, Byte, NoMessage
<1>2. WantLen \in 0..8 /\ WantLen <= usbMsgLen /\ (WantLen < 8 => WantLen = usbMsgLen)
  BY <1>1 DEF WantLen
<1>3. RxTypeOK' /\ TxTypeOK'
  BY DEF TypeOK, RxTypeOK, TxTypeOK
<1>4. usbMsgLen' \in Byte /\ usbMsgFlags' \in Byte
  BY <1>1, <1>2 DEF Byte, NextFlags
<1>5. MsgTypeOK'
  BY <1>4 DEF TypeOK, MsgTypeOK
<1>6. PollTypeOK'
  BY <1>2 DEF TypeOK, PollTypeOK, PcSteps, TxPids
<1>7. RxInv'
  BY DEF RxInv
<1>8. TxInv'
  BY DEF TxInv, Building, TxIdle, DataWhole
<1>9. MsgInv'
  <2>1. /\ pc' = "copy" /\ block'.len = WantLen /\ usbMsgLen' = usbMsgLen - WantLen
        /\ usbMsgPtr' = usbMsgPtr /\ msgFor' = msgFor
    OBVIOUS
  <2>2. WantLen < 8 => usbMsgLen' = 0
    BY <1>1, <1>2, <2>1
  <2>3. ASSUME WantLen > 0
        PROVE  Remaining(block.len + usbMsgLen, usbMsgFlags - 1)' /\ Parity(usbMsgPtr.off, block.pid)'
    <3>1. Remaining(usbMsgLen, usbMsgFlags)
      BY <1>1, <1>2, <2>3 DEF MsgInv, NoMessage
    <3>2. ReplyLength(msgFor) \in 0..40 /\ usbMsgPtr.off \in Nat
      BY <3>1, ReplyBound DEF Remaining, TypeOK, MsgTypeOK
    <3>3. /\ usbMsgFlags <= 198
          /\ usbMsgPtr.off % 16 = 0 <=> usbMsgFlags % 2 = 0
      <4> DEFINE first == FirstFlags
                 off == usbMsgPtr.off
      <4>1. first \in {128, 192}
        BY DEF FirstFlags
      <4>2. off \in 0..40 /\ 8 * (usbMsgFlags - first) = off
        BY <1>1, <3>1, <3>2 DEF Remaining
      <4> HIDE DEF first, off
      <4>3. \E n \in 0..5 : usbMsgFlags = first + n /\ off = 8 * n
        BY <1>1, <4>1, <4>2
      <4>4. usbMsgFlags <= 198 /\ (off % 16 = 0 <=> usbMsgFlags % 2 = 0)
        BY <1>1, <4>1, <4>3
      <4> QED
        BY <4>4 DEF off
    <3>4. usbMsgFlags' = usbMsgFlags + 1
      BY <1>1, <3>3 DEF NextFlags
    <3>5. Remaining(block.len + usbMsgLen, usbMsgFlags - 1)'
      BY <1>1, <1>2, <2>1, <3>1, <3>4 DEF Remaining, FirstFlags
    <3>6. Parity(usbMsgPtr.off, block.pid)'
      BY <1>1, <2>1, <3>3 DEF Parity, USBPID_DATA0, USBPID_DATA1
    <3> QED
      BY <3>5, <3>6
  <2> QED
    BY <2>1, <2>2, <2>3 DEF MsgInv
<1>10. ResetInv'
  BY DEF ResetInv
<1> QED
  BY <1>3, <1>5, <1>6, <1>7, <1>8, <1>9, <1>10 DEF TypeOK

-----------------------------------------------------------------------------
(* usbBuildTxBlock *)

LEMMA MemoryWord ==
    ASSUME TypeOK, NEW loc, NEW n \in Nat
    PROVE  Memory(loc, n) \in Word
<1>1. scratch \in Word /\ usbConfiguration \in Word /\ replyBuffer \in Word
  BY DEF TypeOK, TxTypeOK, MsgTypeOK, CrcBytes, Byte, Word
<1> DEFINE word == CASE loc = "usbTxBuf+9" -> scratch
                     [] loc = "usbConfiguration" -> usbConfiguration
                     [] loc = "replyBuffer" -> replyBuffer
                     [] OTHER -> 0
<1>2. word \in Word
  BY <1>1 DEF Word
<1>3. Lo(word) \in Word
  BY <1>2 DEF Lo, Word
<1>4. 0 \in Word
  BY DEF Word
<1>5. Memory(loc, n) = CASE n = 0 -> 0 [] n = 1 -> Lo(word) [] OTHER -> word
  BY DEF Memory
<1> HIDE DEF word
<1> QED
  BY <1>2, <1>3, <1>4, <1>5

LEMMA UsbReadInv ==
    ASSUME IInv, UsbRead
    PROVE  IInv'
<1> USE DEF IInv, UsbRead, rxVars, addrVars, appVars
<1>1. block.len \in 0..8 /\ usbMsgPtr.off \in Nat /\ usbMsgPtr.loc \in Locations
  BY DEF TypeOK, PollTypeOK, MsgTypeOK
<1>2. Source \in Locations /\ Memory(Source, block.len) \in Word
  BY <1>1, MemoryWord DEF Source, Locations
<1>3. RxTypeOK' /\ MsgTypeOK' /\ PollTypeOK'
  BY <1>1 DEF TypeOK, RxTypeOK, MsgTypeOK, PollTypeOK, PcSteps
<1>4. TxTypeOK'
  BY <1>1, <1>2 DEF TypeOK, TxTypeOK, MsgTypeOK
<1>5. RxInv'
  BY DEF RxInv
<1>6. /\ usbTxBuf'.len = block.len /\ usbTxBuf'.loc = Source /\ usbTxBuf'.off = usbMsgPtr.off
      /\ usbTxBuf'.ans = msgFor
  BY DEF TypeOK, TxTypeOK
<1>7. ASSUME block.len > 0
      PROVE  /\ msgFor \in Packets /\ Source # "null"
             /\ usbMsgPtr.off % 8 = 0
             /\ usbMsgPtr.off + block.len <= ReplyLength(msgFor)
             /\ Parity(usbMsgPtr.off, block.pid)
  <2>1. Remaining(block.len + usbMsgLen, usbMsgFlags - 1) /\ Parity(usbMsgPtr.off, block.pid)
    BY <1>7 DEF MsgInv
  <2>2. usbMsgLen \in Nat /\ usbMsgFlags \in Nat /\ FirstFlags \in {128, 192}
    BY DEF TypeOK, MsgTypeOK, Byte, FirstFlags
  <2>3. msgFor \in Packets /\ ReplyLength(msgFor) \in 0..40
    BY <2>1, ReplyBound DEF Remaining
  <2>4. usbMsgPtr.off = 8 * (usbMsgFlags - 1 - FirstFlags)
    BY <2>1 DEF Remaining
  <2>5. usbMsgPtr.off + block.len <= ReplyLength(msgFor) /\ usbMsgPtr.off <= 40
    BY <1>1, <2>1, <2>2, <2>3 DEF Remaining
  <2>6. MsgPtrIsRom <=> usbMsgPtr.loc = "descriptor"
    BY <1>1, <2>2, <2>4, <2>5 DEF MsgPtrIsRom, FirstFlags, USB_FLG_MSGPTR_IS_ROM
  <2>7. Source # "null"
    BY <1>7, <2>1, <2>6 DEF Source, Remaining
  <2>8. usbMsgPtr.off % 8 = 0
    BY <1>1, <2>2, <2>4
  <2> QED
    BY <2>1, <2>3, <2>5, <2>7, <2>8
<1>8. TxInv'
  BY <1>6, <1>7 DEF TxInv, Building, TxIdle, DataWhole
<1>9. MsgInv'
  <2>1. /\ usbMsgPtr'.off = usbMsgPtr.off + block.len /\ usbMsgPtr'.loc = usbMsgPtr.loc
        /\ FirstFlags' = FirstFlags
    BY DEF TypeOK, MsgTypeOK, FirstFlags
  <2>2. usbMsgLen \in Nat /\ usbMsgFlags \in Nat /\ FirstFlags \in {128, 192}
    BY DEF TypeOK, MsgTypeOK, Byte, FirstFlags
  <2>3. usbMsgLen # 0 => Remaining(block.len + usbMsgLen, usbMsgFlags - 1) /\ block.len = 8
    BY <1>1 DEF MsgInv
  <2>4. usbMsgLen # 0 => Remaining(usbMsgLen, usbMsgFlags)'
    BY <1>1, <2>1, <2>2, <2>3 DEF Remaining
  <2> QED
    BY <2>4 DEF MsgInv
<1>10. ResetInv'
  BY DEF ResetInv
<1> QED
  BY <1>3, <1>4, <1>5, <1>8, <1>9, <1>10 DEF TypeOK

LEMMA Crc16AppendInv ==
    ASSUME IInv, Crc16Append
    PROVE  IInv'
<1> USE DEF IInv, Crc16Append, rxVars, addrVars, appVars
<1>1. RxTypeOK' /\ PollTypeOK'
  BY DEF TypeOK, RxTypeOK, PollTypeOK, PcSteps
<1>2. TxTypeOK'
  BY DEF TypeOK, TxTypeOK
<1>3. MsgTypeOK'
  BY DEF TypeOK, MsgTypeOK, NoMessage, Byte
<1>4. RxInv'
  BY DEF RxInv
<1>5. TxInv'
  BY DEF TxInv, Building, TxIdle, DataWhole, TypeOK, TxTypeOK
<1>6. MsgInv'
  BY DEF MsgInv, Remaining, FirstFlags, NoMessage
<1>7. ResetInv'
  BY DEF ResetInv
<1> QED
  BY <1>1, <1>2, <1>3, <1>4, <1>5, <1>6, <1>7 DEF TypeOK

LEMMA SetTokenInv ==
    ASSUME IInv, SetToken
    PROVE  IInv'
<1> USE DEF IInv, SetToken, rxVars, addrVars, msgVars, appVars
<1>1. RxTypeOK' /\ MsgTypeOK' /\ PollTypeOK'
  BY DEF TypeOK, RxTypeOK, MsgTypeOK, PollTypeOK, PcSteps
<1>2. TxTypeOK'
  BY DEF TypeOK, TxTypeOK, PollTypeOK
<1>3. RxInv'
  BY DEF RxInv
<1>4. TxInv'
  BY DEF TxInv, Building, TxIdle, DataWhole, TypeOK, TxTypeOK
<1>5. MsgInv'
  BY DEF MsgInv, Remaining, FirstFlags
<1>6. ResetInv'
  BY DEF ResetInv
<1> QED
  BY <1>1, <1>2, <1>3, <1>4, <1>5, <1>6 DEF TypeOK

\* What becomes the interrupt routine's is complete.
LEMMA ArmInv ==
    ASSUME IInv, Arm
    PROVE  IInv'
<1> USE DEF IInv, Arm, rxVars, addrVars, msgVars, appVars
<1>1. block.len \in 0..8
  BY DEF TypeOK, PollTypeOK
<1>2. RxTypeOK' /\ MsgTypeOK'
  BY DEF TypeOK, RxTypeOK, MsgTypeOK
<1>3. TxTypeOK'
  BY <1>1 DEF TypeOK, TxTypeOK
<1>4. PollTypeOK'
  BY DEF TypeOK, PollTypeOK, PcSteps, TxPids, NoBlock
<1>5. RxInv'
  BY DEF RxInv
<1>6. TxInv'
  BY <1>1 DEF TxInv, Building, TxIdle, DataWhole
<1>7. MsgInv'
  BY DEF MsgInv, Remaining, FirstFlags
<1>8. ResetInv'
  BY DEF ResetInv
<1> QED
  BY <1>2, <1>3, <1>4, <1>5, <1>6, <1>7, <1>8 DEF TypeOK

-----------------------------------------------------------------------------
(* The check for a bus reset *)

LEMMA ResetCheckInv ==
    ASSUME IInv, ResetCheck
    PROVE  IInv'
<1> USE DEF IInv, ResetCheck, BusActive, StillReset, SampleSe0, NotUsbReset, ResetSeen,
            ResetAddress, rxVars, txVars, addrVars, msgVars, appVars
<1>1. RxTypeOK' /\ MsgTypeOK'
  BY DEF TypeOK, RxTypeOK, MsgTypeOK
<1>2. TxTypeOK'
  BY DEF TypeOK, TxTypeOK, Byte
<1>3. usbIsReset' \in BOOLEAN /\ se0' \in BOOLEAN
  BY DEF TypeOK, PollTypeOK
<1>4. pc' \in PcSteps /\ len' = len /\ block' = block
  BY DEF PcSteps
<1>5. PollTypeOK'
  BY <1>3, <1>4 DEF TypeOK, PollTypeOK
<1>6. RxInv'
  BY DEF RxInv
<1>7. TxInv'
  BY DEF TxInv, Building, TxIdle, DataWhole
<1>8. MsgInv'
  BY DEF MsgInv, Remaining, FirstFlags
<1>9. ResetInv'
  BY DEF ResetInv
<1> QED
  BY <1>1, <1>2, <1>5, <1>6, <1>7, <1>8, <1>9 DEF TypeOK

-----------------------------------------------------------------------------
(* The invariant, and what follows from it *)

LEMMA StutterInv ==
    ASSUME IInv, UNCHANGED vars
    PROVE  IInv'
<1> USE DEF IInv, vars, rxVars, txVars, addrVars, mainVars, msgVars, appVars, pollVars
<1>1. TypeOK'
  BY DEF TypeOK, RxTypeOK, TxTypeOK, MsgTypeOK, PollTypeOK
<1>2. RxInv'
  BY DEF RxInv
<1>3. TxInv'
  BY DEF TxInv, Building, TxIdle, DataWhole
<1>4. MsgInv'
  BY DEF MsgInv, Remaining, FirstFlags
<1>5. ResetInv'
  BY DEF ResetInv
<1> QED
  BY <1>1, <1>2, <1>3, <1>4, <1>5

LEMMA NextInv == IInv /\ [Next]_vars => IInv'
<1> SUFFICES ASSUME IInv, [Next]_vars PROVE IInv'
  OBVIOUS
<1>1. CASE Main
  <2>1. CASE Poll
    BY <2>1, PollInv
  <2>2. CASE Process
    BY <2>2, ProcessStandardInv, ProcessVendorInv, ProcessOtherInv DEF Process
  <2>3. CASE Release
    BY <2>3, ReleaseInv
  <2>4. CASE TxSkip \/ BuildTxBlock
    BY <2>4, TxSkipInv, BuildTxBlockInv
  <2>5. CASE BuildSteps
    BY <2>5, UsbReadInv, Crc16AppendInv, SetTokenInv, ArmInv DEF BuildSteps
  <2>6. CASE ResetCheck
    BY <2>6, ResetCheckInv
  <2> QED
    BY <1>1, <2>1, <2>2, <2>3, <2>4, <2>5, <2>6 DEF Main
<1>2. CASE Interrupt
  BY <1>2, InterruptInv
<1>3. CASE Bus
  BY <1>3, BusInv
<1>4. CASE UNCHANGED vars
  BY <1>4, StutterInv
<1> QED
  BY <1>1, <1>2, <1>3, <1>4 DEF Next

\* IInv holds in every state the driver can reach, for every set of packets and
\* addresses.
THEOREM Invariance == Spec => []IInv
BY InitInv, NextInv, PTL DEF Spec

\* Every variable keeps its width: no length, flag or buffer index of usbdrv.c ever
\* leaves the range its type and its uses allow.
THEOREM TypeCorrect == Spec => []TypeOK
<1>1. IInv => TypeOK
  BY DEF IInv
<1> QED
  BY <1>1, Invariance, PTL

\* usbPoll reads the packet that was acknowledged, and no other: usbRxLen guards
\* the application's buffer (usbdrv.c:506-525, usbdrvasm.S:389-405).
THEOREM MessageStaysIntact == Spec => []MessageIntact
<1>1. IInv => MessageIntact
  <2> SUFFICES ASSUME IInv, usbRxLen # 0 PROVE MessageIntact
    BY DEF MessageIntact
  <2>1. acked.pkt.size \in 1..8
    BY PacketTypes DEF IInv, RxInv, PacketFields
  <2> QED
    BY <2>1 DEF IInv, RxInv, MessageIntact
<1> QED
  BY <1>1, Invariance, PTL

\* The interrupt routine finds only finished packets in usbTxBuf, whenever it looks
\* (usbdrv.c:461-486).
THEOREM PacketsAreWhole == Spec => []PacketWhole
<1>1. IInv => PacketWhole
  BY DEF IInv, TxInv, Building, DataWhole, PacketWhole, USBPID_DATA0, USBPID_DATA1
<1> QED
  BY <1>1, Invariance, PTL

\* The data PIDs of one reply alternate from DATA1, and usbMsgFlags counts packets
\* without touching the ROM flag (usbdrv.c:469-473).
THEOREM TokensToggle == Spec => []Toggled
<1>1. IInv => Toggled
  BY DEF IInv, TxInv, DataWhole, Parity, Toggled
<1> QED
  BY <1>1, Invariance, PTL

\* No reply sends more than it has or more than was asked for (usbdrv.c:436).
THEOREM RepliesWithinLength == Spec => []WithinLength
<1>1. IInv => WithinLength
  <2> SUFFICES ASSUME IInv, ~TxIdle, usbTxBuf.len > 0 PROVE WithinLength
    BY DEF WithinLength
  <2> DEFINE end == usbTxBuf.off + usbTxBuf.len
             p == usbTxBuf.ans
  <2>1. p \in Packets /\ end <= ReplyLength(p)
    BY DEF IInv, TxInv, DataWhole
  <2>2. end \in Nat
    BY DEF IInv, TypeOK, TxTypeOK
  <2>3. p.wLength \in Nat
    BY <2>1, PacketTypes DEF PacketFields, Word
  <2>4. end <= FullLength(p) /\ (p.wLength < 256 => end <= p.wLength)
    BY <2>1, <2>2, <2>3, ReplyBound
  <2> QED
    BY <2>4 DEF WithinLength
<1> QED
  BY <1>1, Invariance, PTL

\* Angle, configuration and address change only for a SETUP of eight bytes, never
\* for the data of an OUT transfer (usbdrv.c:334).
THEOREM SetupActs == Spec => OnlySetupActs
<1> DEFINE Changed == \/ angle' # angle
                      \/ usbConfiguration' # usbConfiguration
                      \/ usbNewDeviceAddr' \notin {usbNewDeviceAddr, 0}
           Setup == acked.tok = USBPID_SETUP /\ acked.pkt.size = 8
<1>1. IInv /\ [Next]_vars => [Changed => Setup]_vars
  <2> SUFFICES ASSUME IInv, Next, Changed PROVE Setup
    BY DEF vars, rxVars, txVars, addrVars, mainVars, msgVars, appVars, pollVars
  <2>1. CASE ProcessStandard \/ ProcessVendor
    <3>1. usbRxLen # 0 /\ len = usbRxLen - 3 /\ IsSetup
      BY <2>1 DEF IInv, RxInv, ProcessStandard, ProcessVendor
    <3>2. usbRxToken = acked.tok /\ usbRxLen = acked.pkt.size + 3 /\ acked.pkt.size \in 1..8
      BY <3>1, PacketTypes DEF IInv, RxInv, PacketFields
    <3> QED
      BY <3>1, <3>2 DEF IsSetup
  <2>2. CASE \/ Poll \/ ProcessOther \/ Release \/ TxSkip \/ BuildTxBlock
             \/ BuildSteps \/ ResetCheck
    BY <2>2 DEF Poll, ProcessOther, Release, TxSkip, BuildTxBlock, BuildSteps, UsbRead,
                Crc16Append, SetToken, Arm, ResetCheck, BusActive, StillReset, SampleSe0,
                NotUsbReset, ResetSeen, ResetAddress, addrVars, appVars
  <2>3. CASE Interrupt \/ Bus
    BY <2>3 DEF Interrupt, Bus, Se0Begins, Se0Ends, RxIgnored, IsSetupOrOut, OtherOutOrSetup,
                DataIgnored, DataNaked, DataZeroLength, DataAccepted, InIgnored, InHandshake,
                InData, addrVars, appVars, mainVars
  <2> QED
    BY <2>1, <2>2, <2>3 DEF Next, Main, Process
<1> QED
  BY <1>1, Invariance, PTL DEF Spec, OnlySetupActs

\* After a bus reset both addresses are 0, although the interrupt routine may copy
\* one to the other between the two assignments (usbdrv.c:541-543).
THEOREM ResetClearsAddress == Spec => AddressAfterReset
<1>1. IInv /\ [Next]_vars =>
        [pc = "readdress" /\ pc' # "readdress" => usbDeviceAddr' = 0 /\ usbNewDeviceAddr' = 0]_vars
  <2> SUFFICES ASSUME IInv, Next, pc = "readdress", pc' # "readdress"
               PROVE  usbDeviceAddr' = 0 /\ usbNewDeviceAddr' = 0
    OBVIOUS
  <2>1. usbNewDeviceAddr = 0
    BY DEF IInv, ResetInv
  <2>2. CASE Main
    BY <2>1, <2>2 DEF Main, Poll, Process, ProcessStandard, ProcessVendor, ProcessOther, Release,
                TxSkip, BuildTxBlock, BuildSteps, UsbRead, Crc16Append, SetToken, Arm, ResetCheck,
                BusActive, StillReset, SampleSe0, NotUsbReset, ResetSeen, ResetAddress
  <2>3. CASE Interrupt \/ Bus
    BY <2>3 DEF Interrupt, Bus, Se0Begins, Se0Ends, RxIgnored, IsSetupOrOut, OtherOutOrSetup,
                DataIgnored, DataNaked, DataZeroLength, DataAccepted, InIgnored, InHandshake,
                InData, mainVars, pollVars
  <2> QED
    BY <2>2, <2>3 DEF Next
<1> QED
  BY <1>1, Invariance, PTL DEF Spec, AddressAfterReset

=============================================================================
