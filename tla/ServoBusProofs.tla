---------------------------- MODULE ServoBusProofs ----------------------------
(***************************************************************************)
(* Proofs about the servo and its host.                                     *)
(*                                                                          *)
(* First for every set of requests, however often clients give up, reset    *)
(* the bus or talk to others: every step of ServoBus is one of UsbDrv or    *)
(* leaves the device alone, so that whatever UsbDrvProofs shows holds here  *)
(* as well.                                                                  *)
(*                                                                          *)
(* Then for clean traffic, where nothing is left over from one transfer to  *)
(* the next: replies are fresh, whole and never dropped, both sides agree   *)
(* on the address, and the servo is the register of ServoRegister.          *)
(***************************************************************************)
EXTENDS ServoBusRegister, UsbDrvProofs

\* The SETUP packets of transfer n.
Asked(n) == {[r EXCEPT !.id = n] : r \in Requests}

\* A transfer under way is the one that was counted last.
XferInv ==
    /\ hStage # "idle" => hCount \in 1..MaxOperations /\ hXfer \in Asked(hCount)
    /\ hAddr \in Addresses

\* The interrupt routine remembers the host's token until the data come.
TokenInv ==
    hTok = "own" =>
        \/ hStage = "setup" /\ usbCurrentTok \in {0, USBPID_SETUP}
        \/ hStage \in {"data", "status"} /\ usbCurrentTok \in {0, USBPID_OUT}

\* p has been sent by now, before the SETUP that is on its way.
Past(p) ==
    /\ p \in Packets /\ p.id <= hCount
    /\ hStage = "setup" => p.id < hCount

\* Of the packet acknowledged and the one processed before it, the second is the older:
\* of an earlier transfer, or of the same one whose data have come since.
OrderInv ==
    /\ usbRxLen = 0 => acked = NoAck
    /\ usbRxLen # 0 => Past(acked.pkt)
    /\ msgFor # Junk => Past(msgFor)
    /\ pc = "release" => msgFor = acked.pkt
    /\ usbRxLen # 0 /\ pc # "release" =>
            \/ msgFor = Junk
            \/ msgFor.id < acked.pkt.id
            \/ msgFor.id = acked.pkt.id /\ acked.tok = USBPID_OUT

BusIInv == IInv /\ HostTypeOK /\ XferInv /\ TokenInv /\ OrderInv

-----------------------------------------------------------------------------
(* Packets *)

\* What the host sends can be sent.
LEMMA AskedPackets ==
    ASSUME NEW n \in 1..MaxOperations, NEW p \in Asked(n)
    PROVE  /\ p \in Packets /\ p.id = n /\ p # Junk
           /\ p.type = "standard" /\ p.request = USBRQ_SET_ADDRESS => Lo(p.wValue) \in Addresses
<1>1. PICK r \in Requests : p = [r EXCEPT !.id = n]
  BY DEF Asked
<1>2. r \in PacketFields
  BY RequestsAssumption
<1>3. p \in Packets
  BY <1>1, RequestsAssumption
<1>4. p.id = n /\ p.type = r.type /\ p.request = r.request /\ p.wValue = r.wValue
  BY <1>1, <1>2 DEF PacketFields
<1> QED BY <1>3, <1>4, PacketTypes, AddressRequestsAssumption

LEMMA OutPackets ==
    ASSUME NEW n \in 1..MaxOperations, NEW r \in OutData
    PROVE  [r EXCEPT !.id = n] \in Packets /\ [r EXCEPT !.id = n].id = n
<1>1. r \in PacketFields
  BY RequestsAssumption
<1> QED BY <1>1, RequestsAssumption DEF PacketFields

-----------------------------------------------------------------------------
(* Every step of the bus is one of the device, or none of its business. *)

LEMMA HostStepIsInterrupt == ASSUME BusIInv, HostStep PROVE Interrupt
<1>1. hAddr \in Addresses
  BY DEF BusIInv, XferInv
<1>2. CASE HostToken
  BY <1>1, <1>2 DEF HostToken, Interrupt
<1>3. CASE HostSetup
  <2>1. hXfer \in Packets
    BY <1>3, AskedPackets DEF HostSetup, BusIInv, XferInv
  <2> QED BY <1>3, <2>1 DEF HostSetup, Interrupt
<1>4. CASE HostOutData
  <2>1. hCount \in 1..MaxOperations
    BY <1>4 DEF HostOutData, BusIInv, XferInv
  <2> QED BY <1>4, <2>1, OutPackets DEF HostOutData, Interrupt
<1>5. CASE HostStatusOut \/ HostRetry
  BY <1>5 DEF HostStatusOut, HostRetry, Interrupt
<1>6. CASE HostIn \/ HostInDropped \/ HostInData \/ HostStatusIn
  BY <1>1, <1>6 DEF HostIn, HostInDropped, HostInData, HostStatusIn, Interrupt
<1> QED BY <1>2, <1>3, <1>4, <1>5, <1>6 DEF HostStep

LEMMA BusStepIsDeviceStep == BusIInv /\ [BusNext]_busVars => [Next]_vars
<1> SUFFICES ASSUME BusIInv, [BusNext]_busVars PROVE [Next]_vars
  OBVIOUS
<1>1. CASE MainStep
  BY <1>1 DEF MainStep, Next
<1>2. CASE (\E r \in Requests : Call(r)) \/ Abort
  BY <1>2 DEF Call, Abort
<1>3. CASE HostStep
  BY <1>3, HostStepIsInterrupt DEF Next
<1>4. CASE ResetStep
  BY <1>4 DEF ResetStep, HostReset, HostResetEnds, Next, Bus
<1>5. CASE OtherStep
  BY <1>5 DEF OtherStep, OtherToken, OtherData, OtherPacket, Next, Interrupt
<1>6. CASE UNCHANGED busVars
  BY <1>6 DEF busVars
<1> QED BY <1>1, <1>2, <1>3, <1>4, <1>5, <1>6 DEF BusNext

-----------------------------------------------------------------------------
(* What a step does to what OrderInv speaks of *)

\* The main loop processes what was acknowledged, then releases it.
LEMMA MainEffect ==
    ASSUME IInv, Main
    PROVE  /\ usbCurrentTok' = usbCurrentTok
           /\ \/ UNCHANGED <<usbRxLen, acked, msgFor>> /\ pc # "release" /\ pc' # "release"
              \/ /\ pc = "process" /\ pc' = "release"
                 /\ UNCHANGED <<usbRxLen, acked>> /\ msgFor' = acked.pkt
              \/ pc = "release" /\ usbRxLen' = 0 /\ acked' = NoAck /\ UNCHANGED msgFor /\ pc' = "tx"
<1>1. CASE Process
  <2>1. pc = "process" /\ pc' = "release" /\ msgFor' = usbRxBuf[usbAppBuf] /\ UNCHANGED rxVars
    BY <1>1 DEF Process, ProcessStandard, ProcessVendor, ProcessOther
  <2>2. usbRxBuf[usbAppBuf] = acked.pkt
    BY <2>1 DEF IInv, RxInv
  <2> QED BY <2>1, <2>2 DEF rxVars
<1>2. CASE Release
  BY <1>2 DEF Release, msgVars
<1>3. CASE Poll \/ TxSkip \/ BuildTxBlock \/ BuildSteps \/ ResetCheck
  BY <1>3 DEF Poll, TxSkip, BuildTxBlock, BuildSteps, UsbRead, Crc16Append, SetToken, Arm,
              ResetCheck, BusActive, StillReset, SampleSe0, NotUsbReset, ResetSeen, ResetAddress,
              rxVars, msgVars
<1> QED BY <1>1, <1>2, <1>3 DEF Main

\* Nothing is acknowledged or processed.
Quiet == UNCHANGED <<usbRxLen, acked, msgFor, pc>>

LEMMA RefusedIsQuiet ==
    ASSUME NEW addr
    PROVE  /\ RxIgnored => Quiet /\ UNCHANGED usbCurrentTok
           /\ InIgnored(addr) \/ InHandshake(addr) \/ InData(addr) => Quiet /\ UNCHANGED usbCurrentTok
           /\ DataIgnored \/ DataNaked \/ DataZeroLength => Quiet /\ UNCHANGED usbCurrentTok
           /\ Se0Begins \/ Se0Ends => Quiet /\ UNCHANGED usbCurrentTok
           /\ OtherOutOrSetup(addr) => Quiet /\ usbCurrentTok' = 0
           /\ \A pid : IsSetupOrOut(pid, addr) => Quiet /\ usbCurrentTok' = pid
BY DEF Quiet, RxIgnored, InIgnored, InHandshake, InData, DataIgnored, DataNaked, DataZeroLength,
       Se0Begins, Se0Ends, OtherOutOrSetup, IsSetupOrOut, rxVars, mainVars, msgVars, pollVars

\* Then what is past stays past.
LEMMA QuietOrder ==
    ASSUME BusIInv, Quiet, hCount' \in Nat,
           hCount' >= hCount, hStage' = "setup" => hStage = "setup" \/ hCount' > hCount
    PROVE  OrderInv'
<1>1. hCount \in Nat
  BY RequestsAssumption DEF BusIInv, HostTypeOK
<1>2. \A p \in Packets : p.id \in Nat
  BY PacketTypes DEF PacketFields
<1>3. \A p : Past(p) => Past(p)'
  BY <1>1, <1>2 DEF Past
<1> QED BY <1>3 DEF BusIInv, OrderInv, Quiet

\* A packet that is acknowledged follows what was processed before.
LEMMA AcceptedOrder ==
    ASSUME BusIInv, NEW p \in Packets, DataAccepted(p), p.id = hCount,
           hStage = "setup" \/ usbCurrentTok = USBPID_OUT,
           UNCHANGED hCount, hStage' # "setup"
    PROVE  OrderInv'
<1>1. /\ usbRxLen = 0 /\ usbRxLen' = p.size + 3 /\ UNCHANGED <<msgFor, pc>>
      /\ acked' = [tok |-> usbCurrentTok, pkt |-> p]
  BY DEF DataAccepted, RxFree, mainVars, msgVars, pollVars
<1>2. p \in PacketFields
  BY PacketTypes
<1>3. usbRxLen' # 0 /\ p.id \in Nat
  BY <1>1, <1>2 DEF PacketFields
<1>4. Past(p)'
  BY <1>3 DEF Past
<1>5. pc # "release"
  BY <1>1 DEF BusIInv, IInv, RxInv
<1>6. msgFor # Junk => Past(msgFor)' /\ (msgFor.id < p.id \/ (msgFor.id = p.id /\ usbCurrentTok = USBPID_OUT))
  <2> SUFFICES ASSUME msgFor # Junk
               PROVE  Past(msgFor)' /\ (msgFor.id < p.id \/ (msgFor.id = p.id /\ usbCurrentTok = USBPID_OUT))
    OBVIOUS
  <2>1. Past(msgFor) /\ msgFor \in PacketFields
    BY PacketTypes DEF BusIInv, OrderInv, Past
  <2>2. msgFor.id \in Nat
    BY <2>1 DEF PacketFields
  <2>3. msgFor \in Packets /\ msgFor.id <= p.id /\ (hStage = "setup" => msgFor.id < p.id)
    BY <2>1 DEF Past
  <2>4. Past(msgFor)'
    BY <1>1, <2>3 DEF Past
  <2>5. msgFor.id < p.id \/ (msgFor.id = p.id /\ usbCurrentTok = USBPID_OUT)
    BY <1>3, <2>2, <2>3
  <2> QED BY <2>4, <2>5
<1> QED BY <1>1, <1>3, <1>4, <1>5, <1>6 DEF OrderInv
-----------------------------------------------------------------------------
(* One lemma per kind of step: the host's own state and OrderInv *)

HostInv == HostTypeOK /\ XferInv /\ TokenInv /\ OrderInv

LEMMA CallInv == ASSUME BusIInv, NEW r \in Requests, Call(r) PROVE HostInv'
<1>1. hCount + 1 \in 1..MaxOperations /\ hCount' = hCount + 1
  BY RequestsAssumption DEF Call, BusIInv, HostTypeOK
<1>2. hXfer' \in Asked(hCount')
  BY DEF Call, Asked
<1>3. hXfer' \in Packets
  BY <1>1, <1>2, AskedPackets
<1>4. HostTypeOK'
  BY <1>1, <1>3 DEF Call, BusIInv, HostTypeOK, OptionalPacket, Stages, Word
<1>5. XferInv'
  BY <1>1, <1>2 DEF Call, BusIInv, XferInv
<1>6. TokenInv'
  BY DEF Call, BusIInv, TokenInv
<1>7. Quiet
  BY DEF Call, Quiet, vars, rxVars, mainVars, msgVars, pollVars
<1>8. OrderInv'
  BY <1>1, <1>7, QuietOrder, RequestsAssumption DEF BusIInv, HostTypeOK
<1> QED BY <1>4, <1>5, <1>6, <1>8 DEF HostInv

LEMMA TokenStepInv == ASSUME BusIInv, HostToken \/ OtherToken PROVE HostInv'
<1>1. UNCHANGED <<hStage, hXfer, hToggle, hGot, hVal, hAddr, hCount, hResult>>
  BY DEF HostToken, OtherToken
<1>2. Quiet
  BY RefusedIsQuiet DEF HostToken, OtherToken
<1>3. OrderInv'
  BY <1>1, <1>2, QuietOrder, RequestsAssumption DEF BusIInv, HostTypeOK
<1>4. hTok' \in {"own", "other"}
  BY DEF HostToken, OtherToken
<1>5. HostTypeOK' /\ XferInv'
  BY <1>1, <1>4 DEF BusIInv, HostTypeOK, XferInv
<1>6. TokenInv'
  <2>1. CASE HostToken
    BY <1>1, <2>1, RefusedIsQuiet DEF HostToken, Writing, TokenInv
  <2>2. CASE OtherToken
    BY <2>2 DEF OtherToken, TokenInv
  <2> QED BY <2>1, <2>2
<1> QED BY <1>3, <1>5, <1>6 DEF HostInv

\* The host's data are acknowledged, in the stage that their token was sent in.
LEMMA DataStepInv == ASSUME BusIInv, HostSetup \/ HostOutData PROVE HostInv'
<1>1. /\ UNCHANGED <<hXfer, hToggle, hGot, hVal, hAddr, hCount, hResult>>
      /\ hTok' = "none" /\ hStage' \in {"data", "status"}
      /\ hTok = "own" /\ hStage \in {"setup", "data"}
      /\ hStage = "data" <=> HostOutData
  BY DEF HostSetup, HostOutData
<1>2. hCount \in 1..MaxOperations /\ hXfer \in Asked(hCount)
  BY <1>1 DEF BusIInv, XferInv
<1>3. PICK p \in Packets : DataAccepted(p) /\ p.id = hCount
  <2>1. CASE HostSetup
    BY <1>2, <2>1, AskedPackets DEF HostSetup
  <2>2. CASE HostOutData
    BY <1>2, <2>2, OutPackets DEF HostOutData
  <2> QED BY <2>1, <2>2
<1>4. hStage = "setup" \/ usbCurrentTok = USBPID_OUT
  BY <1>1, <1>3 DEF BusIInv, TokenInv, DataAccepted
<1>5. OrderInv'
  BY <1>1, <1>3, <1>4, AcceptedOrder
<1>6. HostTypeOK' /\ XferInv' /\ TokenInv'
  BY <1>1, <1>2 DEF BusIInv, HostTypeOK, Stages, XferInv, TokenInv
<1> QED BY <1>5, <1>6 DEF HostInv

\* The steps after which a transfer may be over.
LEMMA StatusStepInv == ASSUME BusIInv, HostStatusOut \/ HostStatusIn PROVE HostInv'
<1>1. /\ UNCHANGED <<hXfer, hToggle, hGot, hVal, hCount>>
      /\ hTok' = "none" \/ (hTok' = hTok /\ hTok = "none")
      /\ hStage = "status" /\ hStage' = "idle"
      /\ Complete \/ (hResult' = "error" /\ UNCHANGED hAddr)
  BY DEF HostStatusOut, HostStatusIn, Complete
<1>2. hCount \in 1..MaxOperations /\ hXfer \in Asked(hCount)
  BY <1>1 DEF BusIInv, XferInv
<1>3. hAddr' \in Addresses
  BY <1>1, <1>2, AskedPackets DEF Complete, BusIInv, XferInv
<1>4. hAddr' \in Byte
  BY <1>3, AddressesAssumption DEF Byte
<1>5. hResult' \in {"ok", "error"}
  BY <1>1 DEF Complete
<1>6. HostTypeOK' /\ XferInv' /\ TokenInv'
  BY <1>1, <1>3, <1>4, <1>5 DEF BusIInv, HostTypeOK, Stages, XferInv, TokenInv
<1>7. Quiet
  BY RefusedIsQuiet DEF HostStatusOut, HostStatusIn
<1>8. OrderInv'
  BY <1>1, <1>7, QuietOrder, RequestsAssumption DEF BusIInv, HostTypeOK
<1> QED BY <1>6, <1>8 DEF HostInv

LEMMA InDataStepInv == ASSUME BusIInv, HostInData PROVE HostInv'
<1>1. /\ UNCHANGED <<hXfer, hTok, hAddr, hCount, hResult>>
      /\ hTok = "none" /\ hStage = "data" /\ hStage' \in {"status", "data"}
      /\ hGot' = hGot + usbTxBuf.len /\ hVal' = usbTxBuf.val
      /\ hToggle' \in {USBPID_DATA0, USBPID_DATA1}
  BY DEF HostInData
<1>2. usbTxBuf.len \in 0..8 /\ usbTxBuf.val \in Word
  BY DEF BusIInv, IInv, TypeOK, TxTypeOK
<1>3. hGot' \in Nat
  BY <1>1, <1>2 DEF BusIInv, HostTypeOK
<1>4. HostTypeOK' /\ XferInv' /\ TokenInv'
  BY <1>1, <1>2, <1>3 DEF BusIInv, HostTypeOK, Stages, XferInv, TokenInv
<1>5. Quiet
  BY RefusedIsQuiet DEF HostInData
<1>6. OrderInv'
  BY <1>1, <1>5, QuietOrder, RequestsAssumption DEF BusIInv, HostTypeOK
<1> QED BY <1>4, <1>6 DEF HostInv

\* Packets that change nothing for the host, or end its token.
LEMMA OtherStepInv ==
    ASSUME BusIInv, HostRetry \/ HostIn \/ HostInDropped \/ OtherData \/ OtherPacket \/ HostResetEnds
    PROVE  HostInv'
<1>1. /\ UNCHANGED <<hStage, hXfer, hToggle, hGot, hVal, hAddr, hCount, hResult>>
      /\ hTok' \in {hTok, "none"}
  BY DEF HostRetry, HostIn, HostInDropped, OtherData, OtherPacket, HostResetEnds, hostVars
<1>2. Quiet /\ UNCHANGED usbCurrentTok
  BY RefusedIsQuiet DEF HostRetry, HostIn, HostInDropped, OtherData, OtherPacket, HostResetEnds
<1>3. OrderInv'
  BY <1>1, <1>2, QuietOrder, RequestsAssumption DEF BusIInv, HostTypeOK
<1>4. HostTypeOK' /\ XferInv' /\ TokenInv'
  BY <1>1, <1>2 DEF BusIInv, HostTypeOK, XferInv, TokenInv
<1> QED BY <1>3, <1>4 DEF HostInv

LEMMA EndStepInv == ASSUME BusIInv, Abort \/ HostReset PROVE HostInv'
<1>1. /\ UNCHANGED <<hXfer, hTok, hToggle, hGot, hVal>>
      /\ hStage' = "idle" /\ hTok = "none" /\ hResult' \in {"error", "reset"}
      /\ hAddr' \in {hAddr, 0} /\ hCount' \in {hCount, hCount + 1}
      /\ hCount' = hCount \/ hCount < MaxOperations
  BY DEF Abort, HostReset
<1>2. hCount' \in 0..MaxOperations /\ hCount' >= hCount
  BY <1>1, RequestsAssumption DEF BusIInv, HostTypeOK
<1>3. hAddr' \in Addresses
  BY <1>1, AddressesAssumption DEF BusIInv, XferInv
<1>4. hAddr' \in Byte
  BY <1>3, AddressesAssumption DEF Byte
<1>5. HostTypeOK' /\ XferInv' /\ TokenInv'
  BY <1>1, <1>2, <1>3, <1>4 DEF BusIInv, HostTypeOK, Stages, XferInv, TokenInv
<1>6. Quiet
  BY RefusedIsQuiet DEF Abort, HostReset, Quiet, vars, rxVars, mainVars, msgVars, pollVars
<1>7. OrderInv'
  BY <1>1, <1>2, <1>6, QuietOrder, RequestsAssumption
<1> QED BY <1>5, <1>7 DEF HostInv

\* The main loop: what it releases was processed, and is the last that was.
LEMMA MainStepInv == ASSUME BusIInv, MainStep PROVE HostInv'
<1>1. UNCHANGED hostVars /\ Main /\ IInv /\ IInv'
  BY NextInv DEF MainStep, Next, BusIInv
<1>2. HostTypeOK' /\ XferInv' /\ TokenInv'
  BY <1>1, MainEffect DEF hostVars, BusIInv, HostTypeOK, XferInv, TokenInv
<1>3. \A p : Past(p)' <=> Past(p)
  BY <1>1 DEF hostVars, Past
<1>4. ASSUME UNCHANGED <<usbRxLen, acked, msgFor>>, pc # "release", pc' # "release"
      PROVE  OrderInv'
  BY <1>3, <1>4 DEF BusIInv, OrderInv
<1>5. ASSUME pc = "process", pc' = "release", UNCHANGED <<usbRxLen, acked>>, msgFor' = acked.pkt
      PROVE  OrderInv'
  <2>1. usbRxLen # 0
    BY <1>1, <1>5 DEF IInv, RxInv
  <2> QED BY <1>3, <1>5, <2>1 DEF BusIInv, OrderInv
<1>6. ASSUME pc = "release", usbRxLen' = 0, acked' = NoAck, UNCHANGED msgFor, pc' = "tx"
      PROVE  OrderInv'
  BY <1>3, <1>6 DEF BusIInv, OrderInv
<1>7. OrderInv'
  BY <1>1, <1>4, <1>5, <1>6, MainEffect
<1> QED BY <1>2, <1>7 DEF HostInv

LEMMA BusNextInv == BusIInv /\ [BusNext]_busVars => BusIInv'
<1> SUFFICES ASSUME BusIInv, [BusNext]_busVars PROVE BusIInv'
  OBVIOUS
<1>1. IInv'
  BY BusStepIsDeviceStep, NextInv DEF BusIInv
<1>2. HostInv'
  <2>1. CASE MainStep
    BY <2>1, MainStepInv
  <2>2. CASE \E r \in Requests : Call(r)
    BY <2>2, CallInv
  <2>3. CASE HostStep
    BY <2>3, TokenStepInv, DataStepInv, StatusStepInv, InDataStepInv, OtherStepInv DEF HostStep
  <2>4. CASE Abort \/ ResetStep
    BY <2>4, EndStepInv, OtherStepInv DEF ResetStep
  <2>5. CASE OtherStep
    BY <2>5, TokenStepInv, OtherStepInv DEF OtherStep
  <2>6. CASE UNCHANGED busVars
    BY <2>6 DEF busVars, hostVars, vars, rxVars, mainVars, msgVars, pollVars, BusIInv, HostInv,
                HostTypeOK, XferInv, TokenInv, OrderInv, Past
  <2> QED BY <2>1, <2>2, <2>3, <2>4, <2>5, <2>6 DEF BusNext
<1> QED BY <1>1, <1>2 DEF BusIInv, HostInv

LEMMA BusInitInv == BusInit => BusIInv
<1> SUFFICES ASSUME BusInit PROVE BusIInv
  OBVIOUS
<1>1. IInv
  BY InitInv DEF BusInit
<1>2. HostTypeOK
  BY RequestsAssumption DEF BusInit, HostInit, HostTypeOK, OptionalPacket, Stages, Word, Byte
<1>3. XferInv /\ TokenInv
  BY AddressesAssumption DEF BusInit, HostInit, XferInv, TokenInv
<1>4. OrderInv
  BY DEF BusInit, Init, OrderInv
<1> QED BY <1>1, <1>2, <1>3, <1>4 DEF BusIInv

-----------------------------------------------------------------------------
\* The invariant of device and host together.
THEOREM BusInvariance == BusSpec => []BusIInv
BY BusInitInv, BusNextInv, PTL DEF BusSpec

\* Whatever the clients do is something the device of UsbDrv was ready for, so that all
\* its theorems hold on this bus.
THEOREM BusImplementsUsbDrv == BusSpec => Spec
<1>1. BusInit => Init
  BY DEF BusInit
<1> QED BY <1>1, BusStepIsDeviceStep, BusInvariance, PTL DEF BusSpec, Spec

\* Host and device keep their ranges for any requests and any number of them.
THEOREM BusTypes == BusSpec => []BusTypeOK
<1>1. BusIInv => BusTypeOK
  BY DEF BusIInv, IInv, BusTypeOK
<1> QED BY <1>1, BusInvariance, PTL

\* What was acknowledged is processed once and in order, a transfer's data after its
\* SETUP, although clients give up and call again (usbdrv.c:506-525, usbdrvasm.S:393-405).
THEOREM RequestsStayInOrder == BusSpec => RequestsInOrder
<1> DEFINE InOrder ==
        /\ msgFor' # msgFor =>
              \/ msgFor = Junk
              \/ msgFor'.id > msgFor.id
              \/ msgFor'.id = msgFor.id /\ acked.tok = USBPID_OUT
        /\ acked' # acked => acked.pkt \in {Junk, msgFor}
<1>1. BusIInv /\ [BusNext]_busVars => [InOrder]_busVars
  <2> SUFFICES ASSUME BusIInv, [BusNext]_busVars PROVE InOrder
    OBVIOUS
  <2>1. [Next]_vars
    BY BusStepIsDeviceStep
  <2>2. CASE Main
    <3>1. IInv
      BY DEF BusIInv
    <3>2. CASE pc = "process" /\ UNCHANGED <<usbRxLen, acked>> /\ msgFor' = acked.pkt
      <4>1. usbRxLen # 0
        BY <3>1, <3>2 DEF IInv, RxInv
      <4>2. Past(acked.pkt) /\ (msgFor # Junk => Past(msgFor))
        BY <4>1 DEF BusIInv, OrderInv
      <4>3. acked.pkt.id \in Nat /\ (msgFor # Junk => msgFor.id \in Nat)
        BY <4>2, PacketTypes DEF Past, PacketFields
      <4> QED BY <3>2, <4>1, <4>3 DEF BusIInv, OrderInv
    <3>3. CASE pc = "release" /\ UNCHANGED msgFor
      BY <3>3 DEF BusIInv, OrderInv
    <3> QED BY <2>2, <3>1, <3>2, <3>3, MainEffect
  <2>3. CASE Interrupt \/ Bus
    <3>1. UNCHANGED msgFor /\ (acked' # acked => usbRxLen = 0)
      BY <2>3, RefusedIsQuiet DEF Interrupt, Bus, Quiet, DataAccepted, RxFree, mainVars, msgVars
    <3> QED BY <3>1 DEF BusIInv, OrderInv, NoAck
  <2>4. CASE UNCHANGED vars
    BY <2>4 DEF vars, rxVars, mainVars, msgVars
  <2> QED BY <2>1, <2>2, <2>3, <2>4 DEF Next
<1> QED BY <1>1, BusInvariance, PTL DEF BusSpec, RequestsInOrder

-----------------------------------------------------------------------------
(* Clean traffic: nothing is left over from one transfer to the next.        *)

\* Nothing waits to be processed, built or sent.
Silent == usbRxLen = 0 /\ TxIdle /\ usbMsgLen = NoMessage /\ ~Building

\* The reply to the request under way: its length, what the host still lacks of it, the
\* packet that comes next, and what usbMsgLen is once that packet is complete.
Reply     == ReplyLength(hXfer)
Rest      == Reply - hGot
NextLen   == IF Rest > 8 THEN 8 ELSE Rest
AfterNext == IF Rest < 8 THEN NoMessage ELSE Rest - 8

\* The next block to be built gets the toggle that the host expects.
InStep == usbMsgFlags % 2 = 0 <=> hToggle = USBPID_DATA1

\* The rest of the reply waits, or its next packet is being built, or waits to be sent.
Replying ==
    /\ hGot % 8 = 0 /\ hGot <= Reply
    /\ Building =>
          /\ block.pid = hToggle /\ block.len = NextLen
          /\ ~InStep
          /\ usbMsgLen = IF pc \in {"copy", "crc"} THEN Rest - NextLen ELSE AfterNext
          /\ pc # "copy" => usbTxBuf.ans = hXfer
          /\ pc \in {"token", "arm"} => usbTxBuf.crc
    /\ ~TxIdle =>
          /\ usbTxBuf.crc /\ usbTxBuf.ans = hXfer
          /\ usbTxBuf.pid = hToggle /\ usbTxBuf.len = NextLen
          /\ ~InStep
          /\ usbMsgLen = AfterNext
    /\ ~Building /\ TxIdle => InStep /\ usbMsgLen = Rest

Answering == hStage \in {"data", "status"}

\* Between transfers and until the SETUP packet is accepted the device is silent.
SilentInv ==
    /\ hStage \in {"idle", "setup"} => Silent
    /\ hStage = "setup" => hGot = 0 /\ hVal = 0 /\ hToggle = USBPID_DATA1

\* The request has been acknowledged; processed, perhaps, but not yet released.
AckedInv ==
    Answering /\ usbRxLen # 0 =>
        /\ acked.tok = USBPID_SETUP /\ acked.pkt = hXfer
        /\ Reading /\ TxIdle /\ ~Building
        /\ hGot = 0 /\ hVal = 0 /\ hToggle = USBPID_DATA1
        /\ IF pc = "release" THEN InStep /\ usbMsgLen = Reply ELSE usbMsgLen = NoMessage

\* It has been released: the reply is on its way until the host has all of it.
ServedInv ==
    Answering /\ usbRxLen = 0 =>
        /\ msgFor = hXfer
        /\ Writing => Silent /\ hGot = Reply
        /\ Reading => Replying

ReplyInv == SilentInv /\ AckedInv /\ ServedInv

StageInv ==
    /\ hStage = "data" => hXfer.dir = "in" /\ hXfer.wLength > 0
    /\ hStage # "idle" => hResult = "none"
    /\ hTok = "own" =>
          /\ hStage = "setup" \/ Writing
          /\ usbCurrentTok = IF hStage = "setup" THEN USBPID_SETUP ELSE USBPID_OUT

IsSetAddress(r) == r.type = "standard" /\ r.request = USBRQ_SET_ADDRESS

\* The address to come differs from the one in use from the processing of SET_ADDRESS to
\* the end of its status stage, and while the main loop handles a reset.
AddressInv ==
    /\ pc = "readdress" => se0 /\ usbIsReset
    /\ se0 => hStage = "idle" /\ hTok = "none" /\ hAddr = 0
    /\ ~se0 => /\ usbDeviceAddr = hAddr
               /\ usbNewDeviceAddr = IF Served /\ IsSetAddress(hXfer)
                                     THEN Lo(hXfer.wValue) ELSE hAddr
    /\ se0 /\ usbIsReset /\ pc # "readdress" => usbDeviceAddr = 0 /\ usbNewDeviceAddr = 0

CleanInv == ReplyInv /\ StageInv /\ AddressInv /\ ReplyComplete

CleanIInv == BusIInv /\ CleanInv

-----------------------------------------------------------------------------
(* The request under way *)

LEMMA CleanRequest ==
    ASSUME CleanTraffic, BusIInv, hStage # "idle"
    PROVE  /\ hXfer \in Packets /\ hXfer.id = hCount /\ hCount \in 1..MaxOperations
           /\ hXfer.wLength \in Nat /\ hXfer.dir \in {"in", "out"} /\ hXfer.size = 8
           /\ Reply \in 0..40 /\ Reply <= hXfer.wLength
           /\ LeavesNothing(hXfer)
<1>1. hCount \in 1..MaxOperations /\ hXfer \in Asked(hCount)
  BY DEF BusIInv, XferInv
<1>2. hXfer \in Packets /\ hXfer.id = hCount
  BY <1>1, AskedPackets
<1>3. PICK r \in Requests : hXfer = [r EXCEPT !.id = hCount]
  BY <1>1 DEF Asked
<1>4. r \in PacketFields /\ r.size = 8 /\ LeavesNothing(r)
  BY RequestsAssumption DEF CleanTraffic
<1>5. /\ hXfer.dir = r.dir /\ hXfer.type = r.type /\ hXfer.request = r.request
      /\ hXfer.wValue = r.wValue /\ hXfer.wLength = r.wLength /\ hXfer.size = r.size
  BY <1>3, <1>4 DEF PacketFields
<1>6. ReplyLength(hXfer) = ReplyLength(r)
  BY <1>5 DEF ReplyLength, FullLength, DescriptorLength
<1>7. LeavesNothing(hXfer)
  BY <1>4, <1>5, <1>6 DEF LeavesNothing
<1>8. hXfer.wLength \in Nat /\ hXfer.dir \in {"in", "out"}
  BY <1>4, <1>5 DEF PacketFields, Word
<1>9. Reply \in 0..40 /\ Reply <= hXfer.wLength
  BY <1>2, <1>8, ReplyBound DEF Reply
<1> QED BY <1>1, <1>2, <1>4, <1>5, <1>7, <1>8, <1>9

\* The host reads first, and writes only the packet that ends a reply.
LEMMA CleanStages ==
    ASSUME CleanTraffic, CleanIInv, Answering
    PROVE  /\ hStage = "data" => Reading
           /\ Reading <=> ~Writing
           /\ Reading /\ hStage = "status" => hXfer.wLength = 0 /\ Reply = 0
           /\ Writing => hStage = "status" /\ hXfer.dir = "in" /\ hXfer.wLength > 0
<1>1. /\ hXfer.wLength \in Nat /\ hXfer.dir \in {"in", "out"} /\ LeavesNothing(hXfer)
      /\ Reply \in 0..40 /\ Reply <= hXfer.wLength
  BY CleanRequest DEF CleanIInv, Answering
<1> QED BY <1>1 DEF CleanIInv, CleanInv, StageInv, Answering, Reading, Writing, LeavesNothing

-----------------------------------------------------------------------------
(* The reply: steps that leave it alone *)

\* Nothing that ReplyInv speaks of changes; pc keeps out of the steps it names.
Aside ==
    /\ UNCHANGED <<hStage, hXfer, hToggle, hGot, hVal>>
    /\ UNCHANGED <<usbRxLen, acked, msgFor, usbMsgLen, usbMsgFlags, usbTxBuf, block>>
    /\ TxIdle' <=> TxIdle
    /\ \/ pc' = pc
       \/ ~Building /\ ~Building' /\ pc # "release" /\ pc' # "release"

LEMMA AsideReply == ASSUME ReplyInv, Aside PROVE ReplyInv'
<1> USE DEF Aside
<1>1. (Building' <=> Building) /\ (pc = "release" <=> pc' = "release")
  BY DEF Building
<1>2. Silent' <=> Silent
  BY <1>1 DEF Silent
<1>3. /\ Reply' = Reply /\ Rest' = Rest /\ NextLen' = NextLen /\ AfterNext' = AfterNext
      /\ InStep' <=> InStep
  BY DEF Reply, Rest, NextLen, AfterNext, InStep
<1>4. (Reading' <=> Reading) /\ (Writing' <=> Writing) /\ (Answering' <=> Answering)
  BY DEF Reading, Writing, Answering
<1>5. pc' = pc \/ ~Building
  OBVIOUS
<1>6. Replying' <=> Replying
  BY <1>1, <1>3, <1>5 DEF Replying, Building
<1>7. SilentInv'
  BY <1>2 DEF ReplyInv, SilentInv
<1>8. AckedInv'
  BY <1>1, <1>3, <1>4 DEF ReplyInv, AckedInv
<1>9. ServedInv'
  BY <1>2, <1>3, <1>4, <1>6 DEF ReplyInv, ServedInv
<1> QED BY <1>7, <1>8, <1>9 DEF ReplyInv

\* usbPoll outside of the processing and building.
LEMMA PollAside ==
    ASSUME Poll \/ TxSkip \/ ResetCheck, UNCHANGED hostVars
    PROVE  Aside
BY DEF Poll, TxSkip, ResetCheck, BusActive, StillReset, SampleSe0, NotUsbReset, ResetSeen, ResetAddress,
       Aside, Building, TxIdle, hostVars, rxVars, txVars, msgVars

\* The transmit system is idle when the host sends a token for SETUP or OUT.
LEMMA TokenSilent ==
    ASSUME CleanTraffic, CleanIInv, hStage = "setup" \/ Writing
    PROVE  Silent
<1>1. CASE hStage = "setup"
  BY <1>1 DEF CleanIInv, CleanInv, ReplyInv, SilentInv
<1>2. CASE Writing
  <2>1. Answering
    BY <1>2 DEF Writing, Answering
  <2>2. ~Reading
    BY <1>2, <2>1, CleanStages
  <2> QED BY <1>2, <2>1, <2>2 DEF CleanIInv, CleanInv, ReplyInv, AckedInv, ServedInv
<1> QED BY <1>1, <1>2

\* Packets that carry nothing to the reply nor from it.
LEMMA PacketAside ==
    ASSUME CleanTraffic, CleanIInv,
           HostToken \/ HostIn \/ HostRetry \/ OtherStep \/ HostResetEnds
    PROVE  Aside
<1>1. UNCHANGED <<hStage, hXfer, hToggle, hGot, hVal>>
  BY DEF HostToken, HostIn, HostRetry, OtherStep, OtherToken, OtherData, OtherPacket, HostResetEnds, hostVars
<1>2. ASSUME NEW addr, NEW pid, Silent, IsSetupOrOut(pid, addr)
      PROVE  Aside
  BY <1>1, <1>2, Handshakes DEF IsSetupOrOut, Aside, Silent, TxIdle, mainVars, msgVars, pollVars
<1>3. ASSUME NEW addr, OtherOutOrSetup(addr)
      PROVE  Aside
  BY <1>1, <1>3 DEF OtherOutOrSetup, Aside, TxIdle, txVars, mainVars, msgVars, pollVars
<1>4. ASSUME RxIgnored \/ Se0Ends
      PROVE  Aside
  BY <1>1, <1>4 DEF RxIgnored, Se0Ends, Aside, TxIdle, rxVars, txVars, mainVars, msgVars, pollVars
<1>5. CASE HostToken
  BY <1>2, <1>3, <1>5, TokenSilent DEF HostToken
<1>6. CASE HostIn \/ HostRetry
  BY <1>4, <1>6 DEF HostIn, HostRetry, InHandshake, InIgnored, DataIgnored, DataNaked
<1>7. CASE OtherStep \/ HostResetEnds
  BY <1>3, <1>4, <1>7 DEF OtherStep, OtherToken, OtherData, OtherPacket, DataIgnored, HostResetEnds
<1> QED BY <1>5, <1>6, <1>7

-----------------------------------------------------------------------------
(* The reply: the steps of the main loop *)

\* What usbProcessRx finds is the SETUP packet of the transfer under way, for the first time.
LEMMA ProcessesRequest ==
    ASSUME CleanTraffic, CleanIInv, pc = "process"
    PROVE  /\ Answering /\ usbRxLen # 0 /\ usbRxBuf[usbAppBuf] = hXfer /\ msgFor # hXfer
           /\ usbRxToken = USBPID_SETUP /\ len = 8
<1>1. /\ usbRxLen # 0 /\ usbRxBuf[usbAppBuf] = acked.pkt /\ usbRxToken = acked.tok
      /\ usbRxLen = acked.pkt.size + 3 /\ len = usbRxLen - 3
  BY DEF CleanIInv, BusIInv, IInv, RxInv
<1>2. Answering
  BY <1>1 DEF CleanIInv, CleanInv, ReplyInv, SilentInv, Silent, BusIInv, HostTypeOK, Stages, Answering
<1>3. acked.tok = USBPID_SETUP /\ acked.pkt = hXfer
  BY <1>1, <1>2 DEF CleanIInv, CleanInv, ReplyInv, AckedInv
<1>4. hXfer.size = 8 /\ hXfer.id = hCount /\ hXfer # Junk /\ hCount \in Nat
  BY <1>2, CleanRequest, PacketTypes DEF Answering, CleanIInv
<1>5. msgFor # hXfer
  BY <1>1, <1>3, <1>4 DEF CleanIInv, BusIInv, OrderInv, USBPID_SETUP, USBPID_OUT
<1> QED BY <1>1, <1>2, <1>3, <1>4, <1>5

LEMMA ProcessReply == ASSUME CleanTraffic, CleanIInv, Process, UNCHANGED hostVars PROVE ReplyInv'
<1>1. pc = "process" /\ pc' = "release"
  BY DEF Process, ProcessStandard, ProcessVendor, ProcessOther
<1>2. ~ProcessOther
  BY <1>1, ProcessesRequest DEF ProcessOther, IsSetup
<1>3. /\ UNCHANGED <<usbRxLen, acked, usbTxLen>> /\ usbMsgLen' = Reply
      /\ usbMsgFlags' \in {128, 192}
  <2>1. usbRxBuf[usbAppBuf] = hXfer
    BY <1>1, ProcessesRequest
  <2>2. CASE ProcessStandard
    BY <2>1, <2>2 DEF ProcessStandard, rxVars, Reply, USB_FLG_MSGPTR_IS_ROM, USB_FLG_USE_DEFAULT_RW
  <2>3. CASE ProcessVendor
    BY <2>1, <2>3 DEF ProcessVendor, rxVars, txVars, Reply, USB_FLG_USE_DEFAULT_RW
  <2> QED BY <1>2, <2>2, <2>3 DEF Process
<1>4. Answering /\ usbRxLen # 0
  BY <1>1, ProcessesRequest
<1>5. UNCHANGED <<hStage, hXfer, hToggle, hGot, hVal>>
  BY DEF hostVars
<1>6. usbMsgFlags' % 2 = 0
  <2>1. 128 % 2 = 0 /\ 192 % 2 = 0
    BY SMT
  <2> QED BY <1>3, <2>1
<1>7. AckedInv'
  <2>1. /\ acked.tok = USBPID_SETUP /\ acked.pkt = hXfer /\ Reading /\ TxIdle
        /\ hGot = 0 /\ hVal = 0 /\ hToggle = USBPID_DATA1
    BY <1>4 DEF CleanIInv, CleanInv, ReplyInv, AckedInv
  <2>2. Reading' /\ TxIdle' /\ ~Building' /\ InStep' /\ Reply' = Reply
    BY <1>1, <1>3, <1>5, <1>6, <2>1 DEF Reading, TxIdle, Building, InStep, Reply
  <2> QED BY <1>1, <1>3, <1>5, <2>1, <2>2 DEF AckedInv
<1>8. SilentInv' /\ ServedInv'
  BY <1>3, <1>4, <1>5 DEF SilentInv, ServedInv, Answering
<1> QED BY <1>7, <1>8 DEF ReplyInv

LEMMA ReleaseReply == ASSUME CleanTraffic, CleanIInv, Release, UNCHANGED hostVars PROVE ReplyInv'
<1>1. pc = "release" /\ pc' = "tx" /\ usbRxLen' = 0
      /\ UNCHANGED <<usbTxLen, usbMsgLen, usbMsgFlags, msgFor, hStage, hXfer, hToggle, hGot, hVal>>
  BY DEF Release, txVars, msgVars, hostVars
<1>2. usbRxLen # 0
  BY <1>1 DEF CleanIInv, BusIInv, IInv, RxInv
<1>3. Answering
  BY <1>2 DEF CleanIInv, CleanInv, ReplyInv, SilentInv, Silent, BusIInv, HostTypeOK, Stages, Answering
<1>4. /\ acked.pkt = hXfer /\ Reading /\ TxIdle /\ hGot = 0 /\ InStep /\ usbMsgLen = Reply
  BY <1>1, <1>2, <1>3 DEF CleanIInv, CleanInv, ReplyInv, AckedInv
<1>5. msgFor = hXfer
  BY <1>1, <1>4 DEF CleanIInv, BusIInv, OrderInv
<1>6. Reply \in 0..40
  BY <1>3, CleanRequest DEF Answering, CleanIInv
<1>7. Replying'
  <2>1. TxIdle' /\ ~Building' /\ InStep' /\ Reply' = Reply /\ Rest' = Reply
    BY <1>1, <1>4, <1>6 DEF TxIdle, Building, InStep, Reply, Rest
  <2> QED BY <1>1, <1>4, <1>6, <2>1 DEF Replying
<1>8. Reading' /\ ~Writing'
  <2>1. ~Writing
    BY <1>3, <1>4, CleanStages
  <2> QED BY <1>1, <1>4, <2>1 DEF Reading, Writing
<1> QED BY <1>1, <1>3, <1>5, <1>7, <1>8 DEF ReplyInv, SilentInv, AckedInv, ServedInv, Answering

\* usbBuildTxBlock works on the reply that the host is waiting for.
LEMMA BuildsReply ==
    ASSUME CleanTraffic, CleanIInv, Building \/ (pc = "tx" /\ usbMsgLen # NoMessage)
    PROVE  /\ Answering /\ Reading /\ ~Writing /\ usbRxLen = 0 /\ msgFor = hXfer /\ Replying
           /\ Rest \in 0..40 /\ hToggle \in {USBPID_DATA0, USBPID_DATA1}
<1>1. ~Silent
  BY DEF Silent
<1>2. Answering
  BY <1>1 DEF CleanIInv, CleanInv, ReplyInv, SilentInv, BusIInv, HostTypeOK, Stages, Answering
<1>3. usbRxLen = 0
  BY <1>2 DEF CleanIInv, CleanInv, ReplyInv, AckedInv, Building
<1>4. Reading /\ ~Writing /\ msgFor = hXfer /\ Replying
  BY <1>1, <1>2, <1>3, CleanStages DEF CleanIInv, CleanInv, ReplyInv, ServedInv
<1>5. Reply \in 0..40 /\ hGot \in Nat
  BY <1>2, CleanRequest DEF Answering, CleanIInv, BusIInv, HostTypeOK
<1>6. Rest \in 0..40
  BY <1>4, <1>5 DEF Replying, Rest
<1> QED BY <1>2, <1>3, <1>4, <1>6 DEF CleanIInv, BusIInv, HostTypeOK

\* Then it is enough that the reply goes on.
LEMMA ReplyGoesOn ==
    ASSUME Answering, Reading, ~Writing, usbRxLen = 0, msgFor = hXfer, Replying',
           UNCHANGED <<usbRxLen, msgFor, hostVars>>
    PROVE  ReplyInv'
<1>1. Answering' /\ Reading' /\ ~Writing'
  BY DEF hostVars, Answering, Reading, Writing
<1> QED BY <1>1 DEF hostVars, ReplyInv, SilentInv, AckedInv, ServedInv, Answering

LEMMA BuildTxBlockReply ==
    ASSUME CleanTraffic, CleanIInv, BuildTxBlock, UNCHANGED hostVars
    PROVE  ReplyInv'
<1>1. /\ pc = "tx" /\ pc' = "copy" /\ usbMsgLen # NoMessage /\ TxIdle
      /\ block' = [pid |-> IF usbMsgFlags % 2 = 1 THEN USBPID_DATA0 ELSE USBPID_DATA1, len |-> WantLen]
      /\ usbMsgLen' = usbMsgLen - WantLen /\ usbMsgFlags' = NextFlags
      /\ UNCHANGED <<usbRxLen, msgFor, usbTxLen, hGot, hToggle, hXfer>>
  BY DEF BuildTxBlock, rxVars, txVars, hostVars
<1>2. /\ Answering /\ Reading /\ ~Writing /\ usbRxLen = 0 /\ msgFor = hXfer /\ Replying
      /\ Rest \in 0..40 /\ hToggle \in {USBPID_DATA0, USBPID_DATA1}
  BY <1>1, BuildsReply
<1>3. InStep /\ usbMsgLen = Rest
  BY <1>1, <1>2 DEF Replying, Building
<1>4. Reply' = Reply /\ Rest' = Rest /\ NextLen' = NextLen /\ AfterNext' = AfterNext
  BY <1>1 DEF Reply, Rest, NextLen, AfterNext
<1>5. WantLen = NextLen
  BY <1>3 DEF WantLen, NextLen
<1>6. usbMsgFlags \in Byte
  BY DEF CleanIInv, BusIInv, IInv, TypeOK, MsgTypeOK
<1>7. usbMsgFlags' % 2 = 0 <=> usbMsgFlags % 2 # 0
  BY <1>1, <1>6 DEF NextFlags, Byte
<1>8. usbMsgFlags % 2 \in {0, 1}
  BY <1>6 DEF Byte
<1>9. block'.pid = hToggle /\ block'.len = NextLen
  BY <1>1, <1>2, <1>3, <1>5, <1>8 DEF InStep, USBPID_DATA0, USBPID_DATA1
<1>10. ~InStep'
  BY <1>1, <1>3, <1>7 DEF InStep
<1>11. Replying'
  BY <1>1, <1>2, <1>3, <1>4, <1>5, <1>9, <1>10 DEF Replying, Building, TxIdle
<1> QED BY <1>1, <1>2, <1>11, ReplyGoesOn

LEMMA BuildStepsReply ==
    ASSUME CleanTraffic, CleanIInv, BuildSteps, UNCHANGED hostVars
    PROVE  ReplyInv'
<1>1. Building /\ UNCHANGED <<usbRxLen, msgFor, usbMsgFlags, hGot, hToggle, hXfer>>
  BY DEF BuildSteps, UsbRead, Crc16Append, SetToken, Arm, Building, rxVars, msgVars, hostVars
<1>2. /\ Answering /\ Reading /\ ~Writing /\ usbRxLen = 0 /\ msgFor = hXfer /\ Replying
      /\ Rest \in 0..40 /\ hToggle \in {USBPID_DATA0, USBPID_DATA1}
  BY <1>1, BuildsReply
<1>3. /\ Reply' = Reply /\ Rest' = Rest /\ NextLen' = NextLen /\ AfterNext' = AfterNext
      /\ InStep' <=> InStep
  BY <1>1 DEF Reply, Rest, NextLen, AfterNext, InStep
<1>4. TxIdle /\ usbTxBuf \in [pid : TxPids, loc : Locations, off : Nat, val : Word, len : 0..8,
                              crc : BOOLEAN, ans : OptionalPacket]
  BY <1>1 DEF CleanIInv, BusIInv, IInv, TxInv, TypeOK, TxTypeOK
<1>5. block.pid = hToggle /\ block.len = NextLen /\ ~InStep
  BY <1>1, <1>2 DEF Replying
<1>6. ASSUME UsbRead PROVE Replying'
  <2>1. pc = "copy" /\ pc' = "crc" /\ UNCHANGED <<usbTxLen, usbMsgLen, block>> /\ usbTxBuf'.ans = msgFor
    BY <1>4, <1>6 DEF UsbRead
  <2> QED BY <1>1, <1>2, <1>3, <1>4, <1>5, <2>1 DEF Replying, Building, TxIdle
<1>7. ASSUME Crc16Append PROVE Replying'
  <2>1. /\ pc = "crc" /\ pc' = "token" /\ UNCHANGED <<usbTxLen, block>>
        /\ usbTxBuf'.ans = usbTxBuf.ans /\ usbTxBuf'.crc
        /\ usbMsgLen' = IF block.len < 8 THEN NoMessage ELSE usbMsgLen
    BY <1>4, <1>7 DEF Crc16Append, IsLast
  <2>2. usbMsgLen = Rest - NextLen /\ usbTxBuf.ans = hXfer
    BY <1>1, <1>2, <2>1 DEF Replying
  <2>3. usbMsgLen' = AfterNext
    BY <1>2, <1>5, <2>1, <2>2 DEF NextLen, AfterNext
  <2> QED BY <1>1, <1>2, <1>3, <1>4, <1>5, <2>1, <2>2, <2>3 DEF Replying, Building, TxIdle
<1>8. ASSUME SetToken PROVE Replying'
  <2>1. /\ pc = "token" /\ pc' = "arm" /\ UNCHANGED <<usbTxLen, usbMsgLen, block>>
        /\ usbTxBuf'.ans = usbTxBuf.ans /\ usbTxBuf'.crc = usbTxBuf.crc
    BY <1>4, <1>8 DEF SetToken, msgVars
  <2> QED BY <1>1, <1>2, <1>3, <1>4, <1>5, <2>1 DEF Replying, Building, TxIdle
<1>9. ASSUME Arm PROVE Replying'
  <2>1. pc = "arm" /\ pc' = "se0" /\ UNCHANGED <<usbMsgLen, usbTxBuf>>
    BY <1>9 DEF Arm, msgVars
  <2>2. usbTxBuf.pid = block.pid /\ usbTxBuf.len = block.len
    BY <2>1 DEF CleanIInv, BusIInv, IInv, TxInv
  <2>3. usbTxBuf.ans = hXfer /\ usbTxBuf.crc /\ usbMsgLen = AfterNext
    BY <1>1, <1>2, <2>1 DEF Replying
  <2>4. ~TxIdle'
    <3>1. usbTxLen' = block.len + 4 /\ block.len \in 0..8
      BY <1>9 DEF Arm, CleanIInv, BusIInv, IInv, TypeOK, PollTypeOK
    <3>2. usbTxLen' \in 4..12
      BY <3>1
    <3> QED BY <3>2, Handshakes DEF TxIdle
  <2> QED BY <1>1, <1>2, <1>3, <1>5, <2>1, <2>2, <2>3, <2>4 DEF Replying, Building
<1>10. Replying'
  BY <1>6, <1>7, <1>8, <1>9 DEF BuildSteps
<1> QED BY <1>1, <1>2, <1>10, ReplyGoesOn

LEMMA MainReply == ASSUME CleanTraffic, CleanIInv, MainStep PROVE ReplyInv'
<1>1. Main /\ UNCHANGED hostVars
  BY DEF MainStep
<1>2. CASE Poll \/ TxSkip \/ ResetCheck
  BY <1>1, <1>2, PollAside, AsideReply DEF CleanIInv, CleanInv
<1> QED BY <1>1, <1>2, ProcessReply, ReleaseReply, BuildTxBlockReply, BuildStepsReply DEF Main

-----------------------------------------------------------------------------
(* The reply: the steps of the host *)

\* What the host gets when it reads.
LEMMA OfferedPacket ==
    ASSUME CleanTraffic, CleanIInv, Reading, ~TxIdle
    PROVE  /\ Answering /\ ~Writing /\ usbRxLen = 0 /\ msgFor = hXfer /\ ~Building
           /\ usbTxBuf.crc /\ usbTxBuf.ans = hXfer
           /\ usbTxBuf.pid = hToggle /\ usbTxBuf.len = NextLen
           /\ ~InStep /\ usbMsgLen = AfterNext
           /\ hGot \in Nat /\ hGot % 8 = 0 /\ hGot <= Reply
           /\ Reply \in 0..40 /\ Reply <= hXfer.wLength /\ hXfer.wLength \in Nat
           /\ LeavesNothing(hXfer)
<1>1. Answering
  BY DEF Reading, Answering
<1>2. ~Writing
  BY <1>1, CleanStages
<1>3. usbRxLen = 0
  BY <1>1 DEF CleanIInv, CleanInv, ReplyInv, AckedInv
<1>4. msgFor = hXfer /\ Replying
  BY <1>1, <1>3 DEF CleanIInv, CleanInv, ReplyInv, ServedInv
<1>5. ~Building
  BY DEF CleanIInv, BusIInv, IInv, TxInv
<1>6. /\ Reply \in 0..40 /\ Reply <= hXfer.wLength /\ hXfer.wLength \in Nat
      /\ LeavesNothing(hXfer) /\ hGot \in Nat
  BY <1>1, CleanRequest DEF Answering, CleanIInv, BusIInv, HostTypeOK
<1> QED BY <1>1, <1>2, <1>3, <1>4, <1>5, <1>6 DEF Replying

\* Nothing the device sends in time is dropped.
LEMMA NothingIsDropped == ASSUME CleanTraffic, CleanIInv PROVE ~HostInDropped
BY OfferedPacket DEF HostInDropped, InData

\* The packet that ends the data stage for the host is the last one of the reply.
LEMMA LastPacket ==
    ASSUME CleanTraffic, CleanIInv, Reading, hStage = "data", ~TxIdle
    PROVE  /\ usbTxBuf.len < 8 \/ hGot + usbTxBuf.len >= hXfer.wLength <=> Rest < 8
           /\ Rest < 8 => usbTxBuf.len = Rest /\ usbMsgLen = NoMessage
           /\ Rest >= 8 => usbTxBuf.len = 8 /\ usbMsgLen = Rest - 8
<1>1. /\ usbTxBuf.len = NextLen /\ usbMsgLen = AfterNext
      /\ hGot \in Nat /\ hGot % 8 = 0 /\ hGot <= Reply
      /\ Reply \in 0..40 /\ Reply <= hXfer.wLength /\ hXfer.wLength \in Nat
      /\ LeavesNothing(hXfer)
  BY OfferedPacket
<1>2. hXfer.wLength > 0
  BY DEF CleanIInv, CleanInv, StageInv
<1>3. Rest \in 0..40
  BY <1>1 DEF Rest
<1>4. Rest < 8 => usbTxBuf.len = Rest /\ usbMsgLen = NoMessage
  BY <1>1, <1>3 DEF NextLen, AfterNext
<1>5. Rest >= 8 => usbTxBuf.len = 8 /\ usbMsgLen = Rest - 8
  BY <1>1, <1>3 DEF NextLen, AfterNext
<1>6. ASSUME Rest >= 8, hGot + 8 >= hXfer.wLength PROVE FALSE
  <2>1. Reply = hXfer.wLength /\ Reply = hGot + 8
    BY <1>1, <1>6 DEF Rest
  <2>2. Reply % 8 = 0
    BY <1>1, <2>1
  <2> QED BY <1>1, <1>2, <2>1, <2>2 DEF LeavesNothing, Reply
<1> QED BY <1>1, <1>3, <1>4, <1>5, <1>6

LEMMA InDataReply == ASSUME CleanTraffic, CleanIInv, HostInData PROVE ReplyInv'
<1>1. /\ Reading /\ hStage = "data" /\ ~TxIdle /\ usbTxLen' = USBPID_NAK
      /\ UNCHANGED <<usbRxLen, msgFor, usbMsgLen, usbMsgFlags, pc, hXfer>>
      /\ hToggle' = IF hToggle = USBPID_DATA1 THEN USBPID_DATA0 ELSE USBPID_DATA1
      /\ hGot' = hGot + usbTxBuf.len
      /\ hStage' = IF usbTxBuf.len < 8 \/ hGot + usbTxBuf.len >= hXfer.wLength
                   THEN "status" ELSE "data"
  BY DEF HostInData, InData, mainVars, msgVars, pollVars
<1>2. /\ usbRxLen = 0 /\ msgFor = hXfer /\ ~Building /\ ~InStep /\ usbTxBuf.len = NextLen
      /\ hGot \in Nat /\ hGot % 8 = 0 /\ hGot <= Reply /\ Reply \in 0..40
  BY <1>1, OfferedPacket
<1>3. TxIdle' /\ ~Building'
  BY <1>1, <1>2, Handshakes DEF TxIdle, Building
<1>4. InStep'
  BY <1>1, <1>2 DEF InStep, USBPID_DATA0, USBPID_DATA1
<1>5. Reply' = Reply /\ Rest \in 0..40
  BY <1>1, <1>2 DEF Reply, Rest
<1>6. hXfer.dir = "in" /\ hXfer.wLength > 0
  BY <1>1 DEF CleanIInv, CleanInv, StageInv
<1>7. CASE Rest < 8
  <2>1. hStage' = "status" /\ usbMsgLen' = NoMessage /\ usbTxBuf.len = Rest
    BY <1>1, <1>7, LastPacket
  <2>2. hGot' = Reply'
    BY <1>1, <1>2, <1>5, <2>1 DEF Rest
  <2>3. Silent' /\ ~Reading'
    BY <1>1, <1>2, <1>3, <1>6, <2>1 DEF Silent, Reading
  <2> QED BY <1>1, <1>2, <2>1, <2>2, <2>3 DEF ReplyInv, SilentInv, AckedInv, ServedInv, Answering
<1>8. CASE Rest >= 8
  <2>1. hStage' = "data" /\ usbMsgLen' = Rest - 8 /\ usbTxBuf.len = 8
    BY <1>1, <1>5, <1>8, LastPacket
  <2>2. hGot' % 8 = 0 /\ hGot' <= Reply' /\ Rest' = Rest - 8
    BY <1>1, <1>2, <1>5, <1>8, <2>1 DEF Rest
  <2>3. Replying'
    BY <1>3, <1>4, <2>1, <2>2 DEF Replying
  <2>4. ~Writing'
    BY <1>1, <1>6, <2>1 DEF Writing
  <2> QED BY <1>1, <1>2, <2>1, <2>3, <2>4 DEF ReplyInv, SilentInv, AckedInv, ServedInv, Answering
<1> QED BY <1>5, <1>7, <1>8

\* A transfer ends when its reply has been sent: with the zero-length packet, or with all of it.
LEMMA StatusReply == ASSUME CleanTraffic, CleanIInv, HostStatusOut \/ HostStatusIn PROVE ReplyInv'
<1>1. hStage' = "idle" /\ UNCHANGED <<usbRxLen, usbMsgLen, pc>>
  BY DEF HostStatusOut, HostStatusIn, Complete, DataZeroLength, RxIgnored, InData,
         mainVars, msgVars, pollVars
<1>2. Silent'
  <2>1. CASE HostStatusOut
    <3>1. Silent
      BY <2>1, TokenSilent DEF HostStatusOut
    <3>2. usbTxLen' = usbTxLen
      BY <2>1 DEF HostStatusOut, DataZeroLength, RxIgnored, txVars
    <3> QED BY <1>1, <3>1, <3>2 DEF Silent, TxIdle, Building
  <2>2. CASE HostStatusIn
    <3>1. Reading /\ hStage = "status" /\ ~TxIdle /\ usbTxLen' = USBPID_NAK
      BY <2>2 DEF HostStatusIn, InData
    <3>2. usbRxLen = 0 /\ ~Building /\ usbMsgLen = AfterNext /\ hGot \in Nat /\ hGot <= Reply /\ Answering
      BY <3>1, OfferedPacket
    <3>3. Reply = 0
      BY <3>1, <3>2, CleanStages
    <3>4. usbMsgLen = NoMessage
      BY <3>2, <3>3 DEF AfterNext, Rest
    <3> QED BY <1>1, <3>1, <3>2, <3>4, Handshakes DEF Silent, TxIdle, Building
  <2> QED BY <2>1, <2>2
<1> QED BY <1>1, <1>2 DEF ReplyInv, SilentInv, AckedInv, ServedInv, Answering

\* The SETUP packet finds the buffer free, and is all there is to be processed.
LEMMA SetupReply == ASSUME CleanTraffic, CleanIInv, HostSetup PROVE ReplyInv'
<1>1. hXfer.size = 8 /\ LeavesNothing(hXfer) /\ hXfer.wLength \in Nat /\ hXfer.dir \in {"in", "out"}
  BY CleanRequest DEF HostSetup, CleanIInv
<1>2. /\ hStage = "setup" /\ UNCHANGED <<usbTxLen, usbMsgLen, pc, hXfer, hToggle, hGot, hVal>>
      /\ hStage' = IF hXfer.wLength > 0 THEN "data" ELSE "status"
      /\ usbRxLen' = hXfer.size + 3
      /\ acked' = [tok |-> usbCurrentTok, pkt |-> hXfer]
  BY DEF HostSetup, DataAccepted, txVars, mainVars, msgVars, pollVars
<1>3. usbCurrentTok = USBPID_SETUP
  BY <1>2 DEF HostSetup, CleanIInv, CleanInv, StageInv
<1>4. Silent /\ hGot = 0 /\ hVal = 0 /\ hToggle = USBPID_DATA1
  BY <1>2 DEF CleanIInv, CleanInv, ReplyInv, SilentInv
<1>5. pc' # "release"
  BY <1>2, <1>4 DEF Silent, CleanIInv, BusIInv, IInv, RxInv
<1>6. usbRxLen' = 11
  BY <1>1, <1>2
<1>7. Reading' /\ TxIdle' /\ ~Building'
  BY <1>1, <1>2, <1>4 DEF Reading, LeavesNothing, Silent, TxIdle, Building
<1>8. AckedInv'
  BY <1>2, <1>3, <1>4, <1>5, <1>7 DEF AckedInv, Silent
<1>9. SilentInv' /\ ServedInv'
  BY <1>2, <1>6 DEF SilentInv, ServedInv
<1> QED BY <1>8, <1>9 DEF ReplyInv

LEMMA CallReply == ASSUME CleanIInv, NEW r \in Requests, Call(r) PROVE ReplyInv'
<1>1. /\ hStage = "idle" /\ hStage' = "setup" /\ UNCHANGED <<usbRxLen, usbTxLen, usbMsgLen, pc>>
      /\ hGot' = 0 /\ hVal' = 0 /\ hToggle' = USBPID_DATA1
  BY DEF Call, vars, rxVars, txVars, mainVars, msgVars, pollVars
<1>2. Silent
  BY <1>1 DEF CleanIInv, CleanInv, ReplyInv, SilentInv
<1>3. Silent'
  BY <1>1, <1>2 DEF Silent, TxIdle, Building
<1> QED BY <1>1, <1>3 DEF ReplyInv, SilentInv, AckedInv, ServedInv, Answering

LEMMA ResetReply == ASSUME CleanIInv, HostReset PROVE ReplyInv'
<1>1. Aside
  BY DEF HostReset, Se0Begins, Aside, TxIdle, rxVars, txVars, mainVars, msgVars, pollVars
<1> QED BY <1>1, AsideReply DEF CleanIInv, CleanInv

LEMMA NextReply == ASSUME CleanTraffic, CleanIInv, BusNext PROVE ReplyInv'
<1>1. CASE MainStep
  BY <1>1, MainReply
<1>2. CASE \E r \in Requests : Call(r)
  BY <1>2, CallReply
<1>3. CASE HostStep
  <2>1. ~HostOutData
    BY DEF HostOutData, Writing, CleanIInv, CleanInv, StageInv
  <2>2. CASE HostToken \/ HostIn \/ HostRetry
    BY <2>2, PacketAside, AsideReply DEF CleanIInv, CleanInv
  <2> QED BY <1>3, <2>1, <2>2, NothingIsDropped, InDataReply, StatusReply, SetupReply DEF HostStep
<1>4. CASE Abort
  BY <1>4 DEF Abort, CleanTraffic
<1>5. CASE ResetStep \/ OtherStep
  BY <1>5, ResetReply, PacketAside, AsideReply DEF ResetStep, CleanIInv, CleanInv
<1> QED BY <1>1, <1>2, <1>3, <1>4, <1>5 DEF BusNext

-----------------------------------------------------------------------------
(* Stages, addresses and results *)

\* The host's token finds the device under its address.
LEMMA TokenHits ==
    ASSUME CleanIInv, HostToken
    PROVE  /\ UNCHANGED <<hStage, hXfer, hToggle, hGot, hVal, hAddr, hCount, hResult>>
           /\ usbCurrentTok' = IF hStage = "setup" THEN USBPID_SETUP ELSE USBPID_OUT
           /\ hStage = "setup" \/ Writing
<1>1. ~OtherOutOrSetup(hAddr)
  BY DEF OtherOutOrSetup, Receives, CleanIInv, CleanInv, AddressInv
<1>2. Writing => hStage # "setup"
  BY DEF Writing
<1> QED BY <1>1, <1>2 DEF HostToken, IsSetupOrOut

LEMMA NextStage == ASSUME CleanTraffic, CleanIInv, BusNext PROVE StageInv'
<1> USE DEF CleanIInv, CleanInv
<1>1. CASE MainStep
  <2>1. usbCurrentTok' = usbCurrentTok /\ UNCHANGED hostVars
    BY <1>1, MainEffect DEF MainStep, BusIInv
  <2> QED BY <2>1 DEF hostVars, StageInv, Writing
<1>2. CASE \E r \in Requests : Call(r)
  BY <1>2 DEF Call, StageInv, Writing
<1>3. CASE HostToken
  BY <1>3, TokenHits DEF StageInv, Writing
<1>4. CASE HostSetup
  <2>1. LeavesNothing(hXfer) /\ hXfer.wLength \in Nat /\ hXfer.dir \in {"in", "out"}
    BY <1>4, CleanRequest DEF HostSetup
  <2> QED BY <1>4, <2>1 DEF HostSetup, StageInv, LeavesNothing
<1>5. CASE HostOutData \/ HostInDropped \/ Abort
  BY <1>5, NothingIsDropped DEF HostOutData, StageInv, Writing, Abort, CleanTraffic
<1>6. CASE HostStatusOut \/ HostStatusIn
  BY <1>6 DEF HostStatusOut, HostStatusIn, Complete, StageInv
<1>7. CASE HostInData
  BY <1>7 DEF HostInData, StageInv
<1>8. CASE HostRetry \/ HostIn \/ HostReset \/ HostResetEnds \/ OtherStep
  BY <1>8, RefusedIsQuiet DEF HostRetry, HostIn, HostReset, HostResetEnds, OtherStep, OtherToken, OtherData,
        OtherPacket, hostVars, StageInv, Writing
<1> QED BY <1>1, <1>2, <1>3, <1>4, <1>5, <1>6, <1>7, <1>8 DEF BusNext, HostStep, ResetStep

\* Only sending a packet and handling a reset change the address in use.
LEMMA SameAddresses ==
    ASSUME CleanTraffic, CleanIInv,
           HostToken \/ HostSetup \/ HostStatusOut \/ HostRetry \/ HostIn \/ OtherStep
    PROVE  ~se0 /\ UNCHANGED <<se0, usbDeviceAddr, usbNewDeviceAddr, pc, msgFor, hXfer, usbIsReset>>
<1>1. ASSUME NEW addr, NEW pid, IsSetupOrOut(pid, addr) \/ OtherOutOrSetup(addr) \/ RxIgnored
      PROVE  ~se0 /\ UNCHANGED <<se0, usbDeviceAddr, usbNewDeviceAddr, pc, msgFor, usbIsReset>>
  BY <1>1 DEF IsSetupOrOut, OtherOutOrSetup, RxIgnored, Receives, addrVars, mainVars, msgVars, pollVars
<1>2. ASSUME DataAccepted(hXfer)
      PROVE  ~se0 /\ UNCHANGED <<se0, usbDeviceAddr, usbNewDeviceAddr, pc, msgFor, usbIsReset>>
  BY <1>2 DEF DataAccepted, Receives, addrVars, mainVars, msgVars, pollVars
<1>3. hXfer' = hXfer
  BY DEF HostToken, HostSetup, HostStatusOut, HostRetry, HostIn, OtherStep, OtherToken, OtherData,
         OtherPacket, hostVars
<1>4. CASE HostToken
  BY <1>1, <1>3, <1>4 DEF HostToken
<1>5. CASE HostSetup
  BY <1>2, <1>3, <1>5 DEF HostSetup
<1>6. CASE HostStatusOut \/ HostRetry \/ HostIn
  BY <1>1, <1>3, <1>6 DEF HostStatusOut, HostRetry, HostIn, DataZeroLength, DataIgnored, DataNaked,
        InHandshake, InIgnored
<1>7. CASE OtherStep
  BY <1>1, <1>3, <1>7 DEF OtherStep, OtherToken, OtherData, OtherPacket, DataIgnored
<1> QED BY <1>4, <1>5, <1>6, <1>7

LEMMA MainAddress == ASSUME CleanTraffic, CleanIInv, MainStep PROVE AddressInv'
<1>1. UNCHANGED <<hStage, hXfer, hTok, hAddr>> /\ AddressInv /\ ResetInv
  BY DEF MainStep, hostVars, CleanIInv, CleanInv, BusIInv, IInv
<1>2. CASE Process
  <2>1. pc = "process" /\ pc' = "release" /\ UNCHANGED <<usbDeviceAddr, se0>>
        /\ msgFor' = usbRxBuf[usbAppBuf]
    BY <1>2 DEF Process, ProcessStandard, ProcessVendor, ProcessOther, addrVars
  <2>2. /\ Answering /\ usbRxBuf[usbAppBuf] = hXfer /\ msgFor # hXfer /\ ~ProcessOther
    BY <2>1, ProcessesRequest DEF ProcessOther, IsSetup
  <2>3. ~se0 /\ usbDeviceAddr = hAddr /\ usbNewDeviceAddr = hAddr /\ Served'
    BY <1>1, <2>1, <2>2 DEF AddressInv, Served, Answering
  <2>4. usbNewDeviceAddr' = IF IsSetAddress(hXfer) THEN Lo(hXfer.wValue) ELSE hAddr
    <3>1. CASE ProcessStandard
      BY <2>2, <2>3, <3>1 DEF ProcessStandard, IsSetAddress
    <3>2. CASE ProcessVendor
      BY <2>2, <2>3, <3>2 DEF ProcessVendor, addrVars, IsSetAddress
    <3> QED BY <1>2, <2>2, <3>1, <3>2 DEF Process
  <2> QED BY <1>1, <2>1, <2>3, <2>4 DEF AddressInv
<1>3. CASE ResetSeen
  BY <1>1, <1>3 DEF ResetSeen, AddressInv
<1>4. CASE ResetAddress
  BY <1>1, <1>4 DEF ResetAddress, AddressInv, ResetInv
<1>5. CASE BusActive \/ StillReset \/ SampleSe0 \/ NotUsbReset
  <2>1. /\ UNCHANGED <<usbDeviceAddr, usbNewDeviceAddr, se0, msgFor>> /\ pc # "readdress" /\ pc' # "readdress"
        /\ usbIsReset' = usbIsReset \/ ~se0
    BY <1>5 DEF BusActive, StillReset, SampleSe0, NotUsbReset, addrVars, msgVars
  <2> QED BY <1>1, <2>1 DEF AddressInv, Served
<1>6. CASE Poll \/ Release \/ TxSkip \/ BuildTxBlock \/ BuildSteps
  <2>1. /\ UNCHANGED <<usbDeviceAddr, usbNewDeviceAddr, se0, msgFor, usbIsReset>>
        /\ pc # "readdress" /\ pc' # "readdress"
    BY <1>6 DEF Poll, Release, TxSkip, BuildTxBlock, BuildSteps, UsbRead, Crc16Append, SetToken, Arm,
          addrVars, msgVars
  <2> QED BY <1>1, <2>1 DEF AddressInv, Served
<1> QED BY <1>2, <1>3, <1>4, <1>5, <1>6 DEF MainStep, Main, ResetCheck

\* A call starts a transfer of a new number, which nothing processed so far has.
LEMMA FreshRequest ==
    ASSUME CleanIInv, NEW r \in Requests, Call(r)
    PROVE  /\ hXfer' # Junk /\ msgFor' # hXfer' /\ ~Served /\ ~Served'
           /\ hXfer'.type = r.type /\ hXfer'.request = r.request /\ hXfer'.wValue = r.wValue
<1>1. /\ hStage = "idle" /\ hCount < MaxOperations
      /\ hXfer' = [r EXCEPT !.id = hCount + 1] /\ UNCHANGED msgFor
  BY DEF Call, vars, mainVars, msgVars
<1>2. hCount + 1 \in 1..MaxOperations /\ hXfer' \in Asked(hCount + 1) /\ hCount \in Nat
  BY <1>1, RequestsAssumption DEF CleanIInv, BusIInv, HostTypeOK, Asked
<1>3. hXfer'.id = hCount + 1 /\ hXfer' # Junk
  BY <1>2, AskedPackets
<1>4. ASSUME msgFor' = hXfer' PROVE FALSE
  <2>1. Past(msgFor)
    BY <1>1, <1>3, <1>4 DEF CleanIInv, BusIInv, OrderInv
  <2>2. msgFor.id <= hCount
    BY <2>1 DEF Past
  <2> QED BY <1>1, <1>2, <1>3, <1>4, <2>2
<1>5. r \in PacketFields
  BY RequestsAssumption
<1>6. hXfer'.type = r.type /\ hXfer'.request = r.request /\ hXfer'.wValue = r.wValue
  BY <1>1, <1>5 DEF PacketFields
<1> QED BY <1>1, <1>3, <1>4, <1>6 DEF Served

LEMMA NextAddress == ASSUME CleanTraffic, CleanIInv, BusNext PROVE AddressInv'
<1>1. AddressInv
  BY DEF CleanIInv, CleanInv
<1>2. CASE MainStep
  BY <1>2, MainAddress
<1>3. ASSUME NEW r \in Requests, Call(r) PROVE AddressInv'
  <2>1. /\ hStage = "idle" /\ ~se0
        /\ UNCHANGED <<hTok, hAddr, se0, pc, usbIsReset, usbDeviceAddr, usbNewDeviceAddr>>
    BY <1>3 DEF Call, vars, addrVars, mainVars, pollVars
  <2>2. ~Served /\ ~Served'
    BY <1>3, FreshRequest
  <2> QED BY <1>1, <2>1, <2>2 DEF AddressInv
<1>4. CASE HostToken \/ HostSetup \/ HostRetry \/ HostIn \/ OtherStep
  <2>1. ~se0 /\ UNCHANGED <<se0, usbDeviceAddr, usbNewDeviceAddr, pc, msgFor, hXfer, usbIsReset>>
    BY <1>4, SameAddresses
  <2>2. hAddr' = hAddr /\ (hStage' = "idle" <=> hStage = "idle")
    BY <1>4 DEF HostToken, HostSetup, HostRetry, HostIn, OtherStep, OtherToken, OtherData, OtherPacket, hostVars
  <2> QED BY <1>1, <2>1, <2>2 DEF AddressInv, Served
<1>5. CASE HostStatusOut
  <2>1. ~se0 /\ UNCHANGED <<se0, usbDeviceAddr, usbNewDeviceAddr, pc, msgFor, hXfer, usbIsReset>>
    BY <1>5, SameAddresses
  <2>2. hXfer.wLength > 0 /\ LeavesNothing(hXfer) /\ hXfer.wLength \in Nat
    BY <1>5, CleanRequest DEF HostStatusOut, Writing, CleanIInv
  <2>3. ~IsSetAddress(hXfer)
    BY <2>2 DEF LeavesNothing, IsSetAddress
  <2>4. hAddr' = hAddr /\ hStage' = "idle"
    BY <1>5, <2>3 DEF HostStatusOut, Complete, IsSetAddress
  <2> QED BY <1>1, <2>1, <2>3, <2>4 DEF AddressInv, Served
<1>6. CASE HostInData \/ HostStatusIn
  <2>1. /\ ~se0 /\ Reading /\ ~TxIdle /\ usbDeviceAddr' = usbNewDeviceAddr
        /\ UNCHANGED <<se0, usbNewDeviceAddr, pc, msgFor, hXfer, usbIsReset>>
    BY <1>6 DEF HostInData, HostStatusIn, InData, Receives, mainVars, msgVars, pollVars
  <2>2. Answering /\ msgFor = hXfer /\ usbTxBuf.len = NextLen /\ hGot \in Nat /\ hGot <= Reply /\ LeavesNothing(hXfer)
        /\ Reply \in 0..40
    BY <2>1, OfferedPacket
  <2>3. usbNewDeviceAddr = IF IsSetAddress(hXfer) THEN Lo(hXfer.wValue) ELSE hAddr
    BY <1>1, <2>1, <2>2 DEF AddressInv, Served, Answering
  <2>4. CASE HostInData
    <3>1. hXfer.wLength > 0 /\ hXfer.wLength \in Nat
      BY <2>4, <2>1, OfferedPacket DEF HostInData, CleanIInv, CleanInv, StageInv
    <3>2. ~IsSetAddress(hXfer)
      BY <2>2, <3>1 DEF LeavesNothing, IsSetAddress
    <3> QED BY <1>1, <2>1, <2>3, <2>4, <3>2 DEF HostInData, AddressInv, Served
  <2>5. CASE HostStatusIn
    <3>1. Reply = 0
      BY <2>1, <2>2, <2>5, CleanStages DEF HostStatusIn
    <3>2. usbTxBuf.len = 0
      BY <2>2, <3>1 DEF NextLen, Rest
    <3>3. hStage' = "idle" /\ hAddr' = IF IsSetAddress(hXfer) THEN Lo(hXfer.wValue) ELSE hAddr
      BY <2>5, <3>2 DEF HostStatusIn, Complete, IsSetAddress
    <3> QED BY <1>1, <2>1, <2>3, <3>3 DEF AddressInv, Served
  <2> QED BY <1>6, <2>4, <2>5
<1>7. CASE HostReset
  BY <1>1, <1>7 DEF HostReset, Se0Begins, AddressInv, mainVars, msgVars, pollVars
<1>8. CASE HostResetEnds
  BY <1>1, <1>8 DEF HostResetEnds, Se0Ends, AddressInv, Served, hostVars, addrVars, mainVars, msgVars, pollVars
<1>9. ~HostOutData /\ ~HostInDropped /\ ~Abort
  BY NothingIsDropped DEF HostOutData, Writing, CleanIInv, CleanInv, StageInv, Abort, CleanTraffic
<1> QED BY <1>2, <1>3, <1>4, <1>5, <1>6, <1>7, <1>8, <1>9 DEF BusNext, HostStep, ResetStep

\* What the host has when it is told that all is well.
LEMMA NextResult == ASSUME CleanTraffic, CleanIInv, BusNext PROVE ReplyComplete'
<1>1. ReplyComplete /\ (hStage # "idle" => hResult = "none")
  BY DEF CleanIInv, CleanInv, StageInv
<1>2. CASE HostStatusOut
  <2>1. Writing /\ hStage = "status" /\ UNCHANGED <<hXfer, hGot>>
    BY <1>2 DEF HostStatusOut
  <2>2. Answering /\ ~Reading
    BY <2>1, CleanStages DEF Answering
  <2>3. hGot = Reply
    BY <2>1, <2>2 DEF CleanIInv, CleanInv, ReplyInv, AckedInv, ServedInv
  <2>4. hXfer \in Packets /\ hXfer.wLength \in Nat
    BY <2>1, CleanRequest DEF CleanIInv
  <2>5. FullLength(hXfer) \in 0..40
    BY <2>4, ReplyBound
  <2> QED BY <2>1, <2>3, <2>4, <2>5 DEF ReplyComplete, Reply, ReplyLength
<1>3. CASE HostStatusIn
  <2>1. Reading /\ hStage = "status" /\ hXfer' = hXfer
    BY <1>3 DEF HostStatusIn
  <2>2. hXfer.wLength = 0
    BY <2>1, CleanStages DEF Answering
  <2> QED BY <2>1, <2>2 DEF ReplyComplete
<1>4. CASE HostReset \/ \E r \in Requests : Call(r)
  BY <1>4 DEF HostReset, Call, ReplyComplete
<1>5. CASE HostInData
  BY <1>1, <1>5 DEF HostInData, ReplyComplete
<1>6. CASE MainStep \/ HostToken \/ HostSetup \/ HostRetry \/ HostIn \/ HostResetEnds \/ OtherStep
  <2>1. UNCHANGED <<hResult, hXfer, hGot>>
    BY <1>6 DEF MainStep, HostToken, HostSetup, HostRetry, HostIn, HostResetEnds, OtherStep, OtherToken,
          OtherData, OtherPacket, hostVars
  <2> QED BY <1>1, <2>1 DEF ReplyComplete
<1>7. ~HostOutData /\ ~HostInDropped /\ ~Abort
  BY NothingIsDropped DEF HostOutData, Writing, CleanIInv, CleanInv, StageInv, Abort, CleanTraffic
<1> QED BY <1>2, <1>3, <1>4, <1>5, <1>6, <1>7 DEF BusNext, HostStep, ResetStep

LEMMA CleanNext ==
    ASSUME CleanTraffic
    PROVE  CleanIInv /\ [BusNext]_busVars => CleanIInv'
<1> SUFFICES ASSUME CleanIInv, [BusNext]_busVars PROVE CleanIInv'
  OBVIOUS
<1>1. BusIInv'
  BY BusNextInv DEF CleanIInv
<1>2. CASE BusNext
  BY <1>1, <1>2, NextReply, NextStage, NextAddress, NextResult DEF CleanIInv, CleanInv
<1>3. CASE UNCHANGED busVars
  <2> USE <1>3 DEF busVars, vars, rxVars, txVars, addrVars, mainVars, msgVars, pollVars, hostVars
  <2>1. Aside
    BY DEF Aside, TxIdle
  <2>2. ReplyInv'
    BY <2>1, AsideReply DEF CleanIInv, CleanInv
  <2>3. StageInv' /\ AddressInv' /\ ReplyComplete'
    BY DEF CleanIInv, CleanInv, StageInv, AddressInv, ReplyComplete, Writing, Served
  <2> QED BY <1>1, <2>2, <2>3 DEF CleanIInv, CleanInv
<1> QED BY <1>2, <1>3

LEMMA CleanInit == BusInit => CleanIInv
<1> SUFFICES ASSUME BusInit PROVE CleanIInv
  OBVIOUS
<1> USE DEF BusInit, Init, HostInit
<1>1. Silent
  BY Handshakes DEF Silent, TxIdle, Building
<1>2. ReplyInv
  BY <1>1 DEF ReplyInv, SilentInv, AckedInv, ServedInv, Answering
<1>3. StageInv /\ AddressInv /\ ReplyComplete
  BY DEF StageInv, AddressInv, ReplyComplete, Served
<1> QED BY <1>2, <1>3, BusInitInv DEF CleanIInv, CleanInv

\* The invariant of clean traffic.
THEOREM CleanInvariance == ASSUME CleanTraffic PROVE BusSpec => []CleanIInv
BY CleanInit, CleanNext, PTL DEF BusSpec

-----------------------------------------------------------------------------
(* What clients get for it *)

\* The reply to a transfer is never one to an earlier transfer (usbdrvasm.S:453-460).
THEOREM RepliesAreFresh == ASSUME CleanTraffic PROVE BusSpec => []NoStaleReply
<1>1. CleanIInv => NoStaleReply
  <2> SUFFICES ASSUME CleanIInv, hStage \in {"data", "status"}, ~TxIdle
               PROVE  usbTxBuf.ans.id = hXfer.id
    BY DEF NoStaleReply
  <2>1. Answering
    BY DEF Answering
  <2>2. Reading
    BY <2>1, CleanStages DEF CleanIInv, CleanInv, ReplyInv, AckedInv, ServedInv, Silent
  <2> QED BY <2>2, OfferedPacket
<1> QED BY <1>1, CleanInvariance, PTL

\* The host takes every packet the device sends.
THEOREM NothingGetsLost == ASSUME CleanTraffic PROVE BusSpec => []NothingDropped
<1>1. CleanIInv => NothingDropped
  BY OfferedPacket DEF NothingDropped
<1> QED BY <1>1, CleanInvariance, PTL

\* A transfer that ends well has brought the whole reply, or as much as was asked for.
THEOREM RepliesAreComplete == ASSUME CleanTraffic PROVE BusSpec => []ReplyComplete
<1>1. CleanIInv => ReplyComplete
  BY DEF CleanIInv, CleanInv
<1> QED BY <1>1, CleanInvariance, PTL

\* Host and device agree on the address through SET_ADDRESS and resets.
THEOREM AddressesAgree == ASSUME CleanTraffic PROVE BusSpec => []AddressAgreed
<1>1. CleanIInv => AddressAgreed
  BY DEF CleanIInv, CleanInv, AddressInv, AddressAgreed
<1> QED BY <1>1, CleanInvariance, PTL

\* The buffer is free and the token known whenever a SETUP packet comes.
THEOREM SetupIsTaken == ASSUME CleanTraffic PROVE BusSpec => SetupNotNaked
<1> DEFINE Taken == hStage = "setup" /\ hTok = "own" /\ hTok' = "none" => hStage' # "setup"
<1>1. CleanIInv /\ [BusNext]_busVars => [Taken]_busVars
  <2> SUFFICES ASSUME CleanIInv, BusNext, hStage = "setup", hTok = "own", hTok' = "none"
               PROVE  hStage' # "setup"
    OBVIOUS
  <2>1. usbRxLen = 0 /\ usbCurrentTok # 0
    BY DEF CleanIInv, CleanInv, ReplyInv, SilentInv, Silent, StageInv, USBPID_SETUP
  <2>2. ~HostRetry
    BY <2>1 DEF HostRetry, DataIgnored, DataNaked, RxFree
  <2>3. CASE MainStep
    BY <2>3 DEF MainStep, hostVars
  <2> QED BY <2>2, <2>3 DEF BusNext, Call, HostStep, HostToken, HostSetup, HostOutData, HostStatusOut, HostIn,
        HostInDropped, HostInData, HostStatusIn, Abort, ResetStep, HostReset, HostResetEnds,
        OtherStep, OtherToken, OtherData, OtherPacket, Writing, Reading, hostVars
<1> QED BY <1>1, CleanInvariance, PTL DEF BusSpec, SetupNotNaked

-----------------------------------------------------------------------------
(* The servo is a register: what the packet carries is what was promised *)

\* Every client asks for all that the register has to say.
ClientsAskEnough == \A r \in Requests : AsksEnough(r)

Kind == CurrentOp.kind

Loaded == pc \in {"crc", "token", "arm"} \/ ~TxIdle

\* Where the value of a call is, from the processing of the request to the return.
ValueInv ==
    Answering /\ Kind # "other" =>
        /\ Reading => hVal = 0
        /\ Writing => hVal = Promised
        /\ Served =>
              /\ usbMsgPtr.loc = "replyBuffer"
              /\ Kind = "get" => Lo(replyBuffer) = angle
              /\ Kind = "echo" => replyBuffer = hXfer.wValue
              /\ Loaded => usbTxBuf.val = Promised

\* A call of the register takes one packet.
LEMMA CallReplies ==
    ASSUME CleanTraffic, ClientsAskEnough, BusIInv, hStage # "idle"
    PROVE  /\ hXfer # Junk /\ CurrentOp = Operation(hXfer)
           /\ Kind \in {"other", "set", "get", "echo"}
           /\ Kind = "other" <=> hXfer.type = "standard" \/ hXfer.request \notin {CMD_SET, CMD_GET, CMD_ECHO}
           /\ Kind = "set"  => hXfer.request = CMD_SET /\ Reply = 0 /\ CurrentOp.value = Lo(hXfer.wValue)
           /\ Kind = "get"  => hXfer.request = CMD_GET /\ Reply = 1 /\ hXfer.wLength > 0
           /\ Kind = "echo" => hXfer.request = CMD_ECHO /\ Reply = 2 /\ hXfer.wLength > 0
                                  /\ CurrentOp.value = hXfer.wValue
<1>1. hCount \in 1..MaxOperations /\ hXfer \in Asked(hCount)
  BY DEF BusIInv, XferInv
<1>2. hXfer # Junk /\ hXfer.wLength \in Nat
  BY CleanRequest, PacketTypes
<1>3. PICK r \in Requests : hXfer = [r EXCEPT !.id = hCount]
  BY <1>1 DEF Asked
<1>4. r \in PacketFields /\ AsksEnough(r)
  BY RequestsAssumption DEF ClientsAskEnough
<1>5. /\ hXfer.type = r.type /\ hXfer.request = r.request
      /\ hXfer.wValue = r.wValue /\ hXfer.wLength = r.wLength
  BY <1>3, <1>4 DEF PacketFields
<1>6. CurrentOp = Operation(hXfer) /\ Operation(hXfer) = Operation(r)
  BY <1>2, <1>5 DEF CurrentOp, Operation
<1>7. FullLength(hXfer) = FullLength(r)
  BY <1>5 DEF FullLength, DescriptorLength
<1>8. Kind \in {"get", "echo"} => hXfer.wLength >= FullLength(hXfer)
  BY <1>4, <1>5, <1>6, <1>7 DEF AsksEnough, Kind
<1>9. /\ Kind = IF hXfer.type = "standard" THEN "other"
                ELSE IF hXfer.request = CMD_SET THEN "set"
                ELSE IF hXfer.request = CMD_GET THEN "get"
                ELSE IF hXfer.request = CMD_ECHO THEN "echo" ELSE "other"
      /\ CurrentOp.value = IF Kind = "set" THEN Lo(hXfer.wValue) ELSE hXfer.wValue
  BY <1>6 DEF Kind, Operation, CMD_SET, CMD_GET, CMD_ECHO
<1>10. /\ Kind = "set" => hXfer.type # "standard" /\ hXfer.request = CMD_SET
       /\ Kind = "get" => hXfer.type # "standard" /\ hXfer.request = CMD_GET
       /\ Kind = "echo" => hXfer.type # "standard" /\ hXfer.request = CMD_ECHO
  BY <1>9
<1>11. /\ Kind = "set" => FullLength(hXfer) = 0
       /\ Kind = "get" => FullLength(hXfer) = 1
       /\ Kind = "echo" => FullLength(hXfer) = 2
  BY <1>10 DEF FullLength, CMD_SET, CMD_GET, CMD_ECHO
<1>12. /\ Kind = "set" => Reply = 0
       /\ Kind = "get" => Reply = 1 /\ hXfer.wLength > 0
       /\ Kind = "echo" => Reply = 2 /\ hXfer.wLength > 0
  BY <1>2, <1>8, <1>11 DEF Reply, ReplyLength
<1> QED BY <1>2, <1>6, <1>9, <1>10, <1>12

\* A step that neither processes, copies nor ends anything.
ValueAside ==
    /\ UNCHANGED <<hStage, hXfer, hVal, msgFor, replyBuffer, angle>>
    /\ usbMsgPtr'.loc = usbMsgPtr.loc
    /\ usbTxBuf'.val = usbTxBuf.val
    /\ Loaded' => Loaded

LEMMA AsideValue == ASSUME ValueInv, ValueAside PROVE ValueInv'
<1> USE DEF ValueAside
<1>1. Kind' = Kind /\ Promised' = Promised /\ (Served' <=> Served)
  BY DEF Kind, CurrentOp, Promised, Served
<1>2. (Reading' <=> Reading) /\ (Writing' <=> Writing) /\ (Answering' <=> Answering)
  BY DEF Reading, Writing, Answering
<1> QED BY <1>1, <1>2 DEF ValueInv

LEMMA PacketValue ==
    ASSUME CleanTraffic, CleanIInv, ValueInv,
           HostToken \/ HostIn \/ HostRetry \/ OtherStep \/ HostReset \/ HostResetEnds
    PROVE  ValueInv'
<1>1. Aside
  BY PacketAside DEF HostReset, Se0Begins, Aside, TxIdle, rxVars, txVars, mainVars, msgVars, pollVars
<1>2. UNCHANGED mainVars
  BY DEF HostToken, HostIn, HostRetry, OtherStep, OtherToken, OtherData, OtherPacket, HostReset, HostResetEnds,
         Se0Begins, Se0Ends, IsSetupOrOut, OtherOutOrSetup, InHandshake, InIgnored, DataIgnored,
         DataNaked, RxIgnored
<1>3. ValueAside
  BY <1>1, <1>2 DEF Aside, ValueAside, Loaded, mainVars, msgVars, appVars, pollVars
<1> QED BY <1>3, AsideValue

LEMMA HostValue ==
    ASSUME CleanTraffic, ClientsAskEnough, CleanIInv, ValueInv, CleanIInv', HostSetup \/ HostInData
    PROVE  ValueInv'
<1>1. CASE HostSetup
  <2>1. usbRxLen' # 0 /\ pc' # "release" /\ Answering' /\ hXfer' = hXfer
    <3>1. hXfer.size = 8
      BY <1>1, CleanRequest DEF HostSetup, CleanIInv
    <3>2. usbRxLen' = 11 /\ UNCHANGED pc
      BY <1>1, <3>1 DEF HostSetup, DataAccepted, mainVars, pollVars
    <3>3. usbRxLen = 0
      BY <1>1 DEF HostSetup, CleanIInv, CleanInv, ReplyInv, SilentInv, Silent
    <3> QED BY <1>1, <3>2, <3>3 DEF HostSetup, Answering, CleanIInv, BusIInv, IInv, RxInv
  <2>2. hVal' = 0 /\ Reading' /\ acked'.pkt = hXfer' /\ acked'.tok = USBPID_SETUP
    BY <2>1 DEF CleanIInv, CleanInv, ReplyInv, AckedInv
  <2>3. hXfer' # Junk /\ hXfer'.id \in Nat
    BY <1>1, <2>1, CleanRequest, PacketTypes DEF HostSetup, CleanIInv
  <2>4. msgFor' # hXfer'
    BY <2>1, <2>2, <2>3 DEF CleanIInv, BusIInv, OrderInv, USBPID_SETUP, USBPID_OUT
  <2>5. ~Writing'
    <3>1. LeavesNothing(hXfer) /\ hXfer.wLength \in Nat
      BY <1>1, CleanRequest DEF HostSetup, CleanIInv
    <3> QED BY <1>1, <3>1 DEF HostSetup, Writing, LeavesNothing
  <2> QED BY <2>2, <2>4, <2>5 DEF ValueInv, Served
<1>2. CASE HostInData
  <2>1. /\ Reading /\ hStage = "data" /\ ~TxIdle /\ hVal' = usbTxBuf.val
        /\ usbTxLen' = USBPID_NAK /\ UNCHANGED <<mainVars, hXfer>>
        /\ hStage' = IF usbTxBuf.len < 8 \/ hGot + usbTxBuf.len >= hXfer.wLength
                     THEN "status" ELSE "data"
    BY <1>2 DEF HostInData, InData
  <2>2. /\ Answering /\ msgFor = hXfer /\ ~Building /\ hGot \in Nat /\ hGot <= Reply /\ Reply \in 0..40
    BY <2>1, OfferedPacket
  <2>3. Served /\ Served' /\ Kind' = Kind /\ Promised' = Promised /\ Answering'
    BY <2>1, <2>2 DEF Served, Kind, CurrentOp, Promised, Answering, mainVars, msgVars, appVars
  <2>4. ~Loaded'
    BY <2>1, <2>2, Handshakes DEF Loaded, TxIdle, Building, mainVars, pollVars
  <2>5. ASSUME Kind # "other" PROVE hStage' = "status" /\ hVal' = Promised
    <3>1. Reply < 8
      BY <2>1, <2>5, CallReplies DEF CleanIInv
    <3>2. Rest < 8
      BY <2>2, <3>1 DEF Rest
    <3>3. Loaded
      BY <2>1 DEF Loaded
    <3> QED BY <2>1, <2>2, <2>3, <2>5, <3>2, <3>3, LastPacket DEF ValueInv
  <2>6. hXfer.dir = "in" /\ hXfer.wLength > 0
    BY <2>1 DEF CleanIInv, CleanInv, StageInv
  <2>7. hStage' = "status" => ~Reading'
    BY <2>1, <2>6 DEF Reading
  <2>8. UNCHANGED <<usbMsgPtr, replyBuffer, angle>>
    BY <2>1 DEF mainVars, msgVars, appVars
  <2> QED BY <2>1, <2>2, <2>3, <2>4, <2>5, <2>7, <2>8 DEF ValueInv
<1> QED BY <1>1, <1>2

LEMMA ProcessValue ==
    ASSUME CleanTraffic, ClientsAskEnough, CleanIInv, Process, UNCHANGED hostVars
    PROVE  ValueInv'
<1>1. pc = "process" /\ pc' = "release" /\ usbTxLen' = usbTxLen
  BY DEF Process, ProcessStandard, ProcessVendor, ProcessOther, txVars
<1>2. Answering /\ usbRxLen # 0 /\ usbRxBuf[usbAppBuf] = hXfer /\ ~ProcessOther
  BY <1>1, ProcessesRequest DEF ProcessOther, IsSetup
<1>3. Reading /\ ~Writing /\ TxIdle /\ hVal = 0
  BY <1>2, CleanStages DEF CleanIInv, CleanInv, ReplyInv, AckedInv
<1>4. UNCHANGED <<hStage, hXfer, hVal>>
  BY DEF hostVars
<1>5. ~Loaded' /\ ~Writing' /\ Kind' = Kind
  BY <1>1, <1>3, <1>4 DEF Loaded, TxIdle, Writing, Kind, CurrentOp
<1>6. /\ Kind = "other" <=> hXfer.type = "standard" \/ hXfer.request \notin {CMD_SET, CMD_GET, CMD_ECHO}
      /\ Kind = "get" => hXfer.request = CMD_GET
      /\ Kind = "echo" => hXfer.request = CMD_ECHO
  BY <1>2, CallReplies DEF Answering, CleanIInv
<1>7. CASE ProcessVendor
  <2>1. /\ usbMsgPtr'.loc = "replyBuffer"
        /\ hXfer.request = CMD_ECHO => replyBuffer' = hXfer.wValue
        /\ hXfer.request = CMD_GET => replyBuffer' = 256 * Hi(replyBuffer) + angle /\ angle' = angle
    BY <1>2, <1>7 DEF ProcessVendor, NewAngle, CMD_ECHO, CMD_GET, CMD_SET
  <2>2. hXfer.request = CMD_GET => Lo(replyBuffer') = angle'
    <3>1. replyBuffer \in Word /\ angle \in Byte
      BY DEF CleanIInv, BusIInv, IInv, TypeOK, MsgTypeOK
    <3>2. Hi(replyBuffer) \in Nat /\ angle \in 0..255
      BY <3>1 DEF Hi, Word, Byte
    <3>3. (256 * Hi(replyBuffer) + angle) % 256 = angle
      BY <3>2
    <3> QED BY <2>1, <3>3 DEF Lo
  <2> QED BY <1>3, <1>4, <1>5, <1>6, <2>1, <2>2 DEF ValueInv
<1>8. CASE ProcessStandard
  BY <1>2, <1>5, <1>6, <1>8 DEF ProcessStandard, ValueInv
<1> QED BY <1>2, <1>7, <1>8 DEF Process

\* usbRead copies a call's value out of replyBuffer, which has it in one piece.
LEMMA UsbReadValue ==
    ASSUME CleanTraffic, ClientsAskEnough, CleanIInv, ValueInv, UsbRead, UNCHANGED hostVars
    PROVE  ValueInv'
<1>1. /\ pc = "copy" /\ pc' = "crc" /\ usbMsgPtr'.loc = usbMsgPtr.loc
      /\ usbTxBuf'.val = Memory(Source, block.len)
      /\ UNCHANGED <<msgFor, replyBuffer, angle, hStage, hXfer, hVal>>
  BY DEF UsbRead, appVars, hostVars, CleanIInv, BusIInv, IInv, TypeOK, TxTypeOK, MsgTypeOK
<1>2. Answering /\ Reading /\ ~Writing /\ msgFor = hXfer /\ Replying
  BY <1>1, BuildsReply DEF Building
<1>3. Kind' = Kind /\ Promised' = Promised /\ Served /\ Served' /\ ~Writing'
  BY <1>1, <1>2 DEF Kind, CurrentOp, Promised, Served, Answering, Writing
<1>4. ASSUME Kind # "other" PROVE Memory(Source, block.len) = Promised
  <2>1. /\ Kind \in {"set", "get", "echo"} /\ CurrentOp.kind = Kind
        /\ Kind = "set" => Reply = 0
        /\ Kind = "get" => Reply = 1
        /\ Kind = "echo" => Reply = 2 /\ CurrentOp.value = hXfer.wValue
    BY <1>2, <1>4, CallReplies DEF Answering, CleanIInv, Kind
  <2>2. usbMsgPtr.loc = "replyBuffer" /\ (Kind = "get" => Lo(replyBuffer) = angle)
        /\ (Kind = "echo" => replyBuffer = hXfer.wValue)
    BY <1>2, <1>3, <1>4 DEF ValueInv
  <2>3. hGot = 0
    BY <1>2, <2>1 DEF Replying, CleanIInv, BusIInv, HostTypeOK
  <2>4. block.len = Reply
    BY <1>1, <1>2, <2>1, <2>3 DEF Replying, Building, NextLen, Rest
  <2>5. CASE Kind = "set"
    BY <1>3, <2>1, <2>4, <2>5 DEF Memory, Promised
  <2>6. CASE Kind # "set"
    <3>1. block.len \in {1, 2}
      BY <2>1, <2>4, <2>6
    <3>2. usbMsgFlags = 129
      <4>1. Remaining(block.len + usbMsgLen, usbMsgFlags - 1)
        BY <1>1, <3>1 DEF CleanIInv, BusIInv, IInv, MsgInv
      <4>2. usbMsgPtr.off \in Nat /\ usbMsgLen \in Nat /\ usbMsgFlags \in Nat
        BY DEF CleanIInv, BusIInv, IInv, TypeOK, MsgTypeOK, Byte
      <4>3. /\ usbMsgPtr.off + (block.len + usbMsgLen) = block.len
            /\ 8 * (usbMsgFlags - 1 - 128) = usbMsgPtr.off
        BY <1>2, <2>2, <2>4, <4>1 DEF Remaining, FirstFlags, Reply
      <4> QED BY <3>1, <4>2, <4>3
    <3>3. ~MsgPtrIsRom
      BY <3>2 DEF MsgPtrIsRom, USB_FLG_MSGPTR_IS_ROM
    <3>4. Source = "replyBuffer"
      BY <2>2, <3>1, <3>3 DEF Source
    <3>5. Memory("replyBuffer", block.len) = IF block.len = 1 THEN Lo(replyBuffer) ELSE replyBuffer
      BY <3>1 DEF Memory
    <3> QED BY <1>3, <2>1, <2>2, <2>4, <2>6, <3>4, <3>5 DEF Promised
  <2> QED BY <2>5, <2>6
<1>5. hVal' = hVal /\ Reading' /\ (Kind # "other" => hVal = 0)
  BY <1>1, <1>2 DEF ValueInv, Reading
<1> QED BY <1>1, <1>2, <1>3, <1>4, <1>5 DEF ValueInv

LEMMA MainValue ==
    ASSUME CleanTraffic, ClientsAskEnough, CleanIInv, ValueInv, MainStep
    PROVE  ValueInv'
<1>1. Main /\ UNCHANGED hostVars
  BY DEF MainStep
<1>2. usbTxBuf \in [pid : TxPids, loc : Locations, off : Nat, val : Word, len : 0..8,
                    crc : BOOLEAN, ans : OptionalPacket]
  BY DEF CleanIInv, BusIInv, IInv, TypeOK, TxTypeOK
<1>3. CASE Poll \/ Release \/ TxSkip \/ BuildTxBlock \/ Crc16Append \/ SetToken \/ Arm \/ ResetCheck
  <2>1. UNCHANGED <<hStage, hXfer, hVal, msgFor, replyBuffer, angle, usbMsgPtr>>
    BY <1>1, <1>3 DEF Poll, Release, TxSkip, BuildTxBlock, Crc16Append, SetToken, Arm, ResetCheck, BusActive,
          StillReset, SampleSe0, NotUsbReset, ResetSeen, ResetAddress, hostVars, msgVars, appVars
  <2>2. usbTxBuf'.val = usbTxBuf.val
    BY <1>2, <1>3 DEF Poll, Release, TxSkip, BuildTxBlock, Crc16Append, SetToken, Arm, ResetCheck, BusActive,
          StillReset, SampleSe0, NotUsbReset, ResetSeen, ResetAddress, txVars
  <2>3. Loaded' => Loaded
    BY <1>3 DEF Poll, Release, TxSkip, BuildTxBlock, Crc16Append, SetToken, Arm, ResetCheck, BusActive,
          StillReset, SampleSe0, NotUsbReset, ResetSeen, ResetAddress, txVars, Loaded, TxIdle
  <2> QED BY <2>1, <2>2, <2>3, AsideValue DEF ValueAside
<1> QED BY <1>1, <1>3, ProcessValue, UsbReadValue DEF Main, BuildSteps

LEMMA NextValue ==
    ASSUME CleanTraffic, ClientsAskEnough
    PROVE  CleanIInv /\ ValueInv /\ [BusNext]_busVars => ValueInv'
<1> SUFFICES ASSUME CleanIInv, ValueInv, [BusNext]_busVars PROVE ValueInv'
  OBVIOUS
<1>1. CleanIInv'
  BY CleanNext
<1>2. CASE MainStep
  BY <1>2, MainValue
<1>3. CASE (\E r \in Requests : Call(r)) \/ HostStatusOut \/ HostStatusIn
  BY <1>3 DEF Call, HostStatusOut, HostStatusIn, Complete, ValueInv, Answering
<1>4. CASE HostSetup \/ HostInData
  BY <1>1, <1>4, HostValue
<1>5. CASE HostToken \/ HostIn \/ HostRetry \/ OtherStep \/ ResetStep
  BY <1>5, PacketValue DEF ResetStep
<1>6. CASE UNCHANGED busVars
  <2>1. ValueAside
    BY <1>6 DEF busVars, vars, hostVars, txVars, mainVars, msgVars, appVars, pollVars, ValueAside, Loaded, TxIdle
  <2> QED BY <2>1, AsideValue
<1>7. ~HostOutData /\ ~HostInDropped /\ ~Abort
  BY NothingIsDropped DEF HostOutData, Writing, CleanIInv, CleanInv, StageInv, Abort, CleanTraffic
<1> QED BY <1>2, <1>3, <1>4, <1>5, <1>6, <1>7 DEF BusNext, HostStep

-----------------------------------------------------------------------------
(* The refinement, step by step *)

\* What a step must leave alone for the register to stand still.
LEMMA RegisterStutters ==
    ASSUME UNCHANGED <<angle, hXfer, msgFor>>, hStage' = "idle" <=> hStage = "idle",
           hStage = "idle" => hVal' = hVal
    PROVE  UNCHANGED Register!registerVars
<1>1. CurrentOp' = CurrentOp /\ (Served' <=> Served)
  BY DEF CurrentOp, Served
<1>2. CallState' = CallState /\ Returned' = Returned /\ Promised' = Promised
  BY <1>1 DEF CallState, Returned, Promised
<1> QED BY <1>1, <1>2 DEF Register!registerVars

LEMMA CallIsCall ==
    ASSUME CleanIInv, NEW r \in Requests, Call(r)
    PROVE  Register!Call(Operation(r))
<1>1. hStage = "idle" /\ hStage' = "setup" /\ UNCHANGED angle
  BY DEF Call, vars, mainVars, appVars
<1>2. CurrentOp' = Operation(r)
  BY FreshRequest DEF CurrentOp, Operation
<1>3. CallState = "idle" /\ CallState' = "called" /\ Returned' = 0 /\ Promised = 0 /\ Promised' = 0
  BY <1>1, FreshRequest DEF CallState, Returned, Promised
<1> QED BY <1>1, <1>2, <1>3 DEF Register!Call

LEMMA ProcessIsServe ==
    ASSUME CleanTraffic, ClientsAskEnough, CleanIInv, Process, UNCHANGED hostVars
    PROVE  Register!Serve
<1>1. pc = "process" /\ msgFor' = usbRxBuf[usbAppBuf] /\ UNCHANGED <<hStage, hXfer, hVal>>
  BY DEF Process, ProcessStandard, ProcessVendor, ProcessOther, hostVars
<1>2. Answering /\ usbRxBuf[usbAppBuf] = hXfer /\ msgFor # hXfer /\ ~ProcessOther
  BY <1>1, ProcessesRequest DEF ProcessOther, IsSetup
<1>3. hStage # "idle" /\ ~Served /\ Served' /\ CurrentOp' = CurrentOp /\ Kind' = Kind
  BY <1>1, <1>2 DEF Answering, Served, Kind, CurrentOp
<1>4. CallState = "called" /\ CallState' = "served" /\ Returned = 0 /\ Returned' = 0
  BY <1>1, <1>3 DEF CallState, Returned
<1>5. /\ Kind = "other" <=> hXfer.type = "standard" \/ hXfer.request \notin {CMD_SET, CMD_GET, CMD_ECHO}
      /\ Kind \in {"other", "set", "get", "echo"}
      /\ Kind = "set" => hXfer.request = CMD_SET /\ CurrentOp.value = Lo(hXfer.wValue)
      /\ Kind = "get" => hXfer.request = CMD_GET
      /\ Kind = "echo" => hXfer.request = CMD_ECHO
  BY <1>3, CallReplies DEF CleanIInv
<1>6. angle' = IF Kind = "set" THEN CurrentOp.value ELSE angle
  <2>1. CASE ProcessStandard
    BY <1>2, <1>5, <2>1 DEF ProcessStandard
  <2>2. CASE ProcessVendor
    BY <1>2, <1>5, <2>2 DEF ProcessVendor, NewAngle, CMD_SET, CMD_GET, CMD_ECHO
  <2> QED BY <1>2, <2>1, <2>2 DEF Process
<1>7. Promised' = CASE Kind = "get" -> angle
                    [] Kind = "echo" -> CurrentOp.value
                    [] OTHER -> 0
  BY <1>3, <1>6 DEF Promised, Kind
<1> QED BY <1>3, <1>4, <1>6, <1>7 DEF Register!Serve, Kind

LEMMA StatusIsReturn ==
    ASSUME CleanTraffic, ClientsAskEnough, CleanIInv, ValueInv, HostStatusOut \/ HostStatusIn
    PROVE  Register!Return
<1>1. /\ hStage = "status" /\ hStage' = "idle" /\ UNCHANGED <<hXfer, hVal, angle, msgFor>>
      /\ Reading \/ Writing
  BY DEF HostStatusOut, HostStatusIn, Complete, DataZeroLength, RxIgnored, InData, mainVars, msgVars, appVars
<1>2. Answering
  BY <1>1 DEF Answering
<1>3. msgFor = hXfer
  <2>1. CASE HostStatusOut
    BY <1>2, <2>1, CleanStages DEF HostStatusOut, CleanIInv, CleanInv, ReplyInv, AckedInv, ServedInv
  <2>2. CASE HostStatusIn
    BY <2>2, OfferedPacket DEF HostStatusIn, InData
  <2> QED BY <2>1, <2>2
<1>4. Served /\ ~Served' /\ CurrentOp' = CurrentOp
  BY <1>1, <1>3 DEF Served, CurrentOp
<1>5. CallState = "served" /\ CallState' = "idle" /\ Promised' = 0 /\ Returned' = hVal
  BY <1>1, <1>4 DEF CallState, Promised, Returned
<1>6. ASSUME Kind # "other" PROVE hVal = Promised
  <2>1. CASE Writing
    BY <1>2, <1>6, <2>1 DEF ValueInv
  <2>2. CASE Reading
    <3>1. Reply = 0
      BY <1>1, <1>2, <2>2, CleanStages
    <3>2. Kind = "set"
      BY <1>1, <1>6, <3>1, CallReplies DEF CleanIInv
    <3> QED BY <1>2, <1>6, <2>2, <3>2 DEF ValueInv, Promised, Kind
  <2> QED BY <1>1, <2>1, <2>2
<1>7. hVal \in 0..MaxValue
  <2>1. hVal \in Word
    BY DEF CleanIInv, BusIInv, HostTypeOK
  <2>2. hVal \in Nat /\ hVal <= MaxValue /\ MaxValue \in Nat
    BY <2>1 DEF Word, MaxValue
  <2> QED BY <2>2
<1>8. IF CurrentOp.kind = "other" THEN Returned' \in 0..MaxValue ELSE Returned' = Promised
  BY <1>5, <1>6, <1>7 DEF Kind
<1> QED BY <1>1, <1>4, <1>5, <1>8 DEF Register!Return

\* The servo returns what the register promised, for any requests of clean clients.
THEOREM ServoIsRegister ==
    ASSUME CleanTraffic, ClientsAskEnough
    PROVE  BusSpec => Register!RegisterSafety
<1>1. BusInit => Register!RegisterInit
  BY DEF BusInit, Init, HostInit, Register!RegisterInit, CurrentOp, CallState, Promised, Returned, Served,
         NoOp, Register!NoOp
<1>2. BusInit => ValueInv
  BY DEF BusInit, HostInit, ValueInv, Answering
<1>3. BusSpec => [](CleanIInv /\ ValueInv)
  BY <1>2, CleanInit, CleanNext, NextValue, PTL DEF BusSpec
<1>4. CleanIInv /\ ValueInv /\ [BusNext]_busVars => [Register!RegisterNext]_Register!registerVars
  <2> SUFFICES ASSUME CleanIInv, ValueInv, [BusNext]_busVars
               PROVE  Register!RegisterNext \/ UNCHANGED Register!registerVars
    OBVIOUS
  <2>1. CASE \E r \in Requests : Call(r)
    BY <2>1, CallIsCall DEF Register!RegisterNext
  <2>2. CASE MainStep
    <3>1. Main /\ UNCHANGED <<hostVars, hXfer, hStage, hVal>>
      BY <2>2 DEF MainStep, hostVars
    <3>2. CASE Process
      BY <3>1, <3>2, ProcessIsServe DEF Register!RegisterNext
    <3>3. CASE ~Process
      <4>1. UNCHANGED <<angle, msgFor>>
        BY <3>1, <3>3 DEF Main, Poll, Release, TxSkip, BuildTxBlock, BuildSteps, UsbRead, Crc16Append, SetToken,
              Arm, ResetCheck, BusActive, StillReset, SampleSe0, NotUsbReset, ResetSeen, ResetAddress,
              msgVars, appVars
      <4> QED BY <3>1, <4>1, RegisterStutters
    <3> QED BY <3>2, <3>3
  <2>3. CASE HostStatusOut \/ HostStatusIn
    BY <2>3, StatusIsReturn DEF Register!RegisterNext
  <2>4. CASE HostToken \/ HostSetup \/ HostRetry \/ HostIn \/ HostInData \/ ResetStep \/ OtherStep
    <3>1. /\ hXfer' = hXfer /\ (hStage' = "idle" <=> hStage = "idle")
          /\ hStage = "idle" => hVal' = hVal
      BY <2>4 DEF HostToken, HostSetup, HostRetry, HostIn, HostInData, ResetStep, HostReset, HostResetEnds,
            OtherStep, OtherToken, OtherData, OtherPacket, hostVars
    <3>2. UNCHANGED mainVars
      BY <2>4 DEF HostToken, HostSetup, HostRetry, HostIn, HostInData, ResetStep, HostReset, HostResetEnds,
            OtherStep, OtherToken, OtherData, OtherPacket, IsSetupOrOut, OtherOutOrSetup, DataAccepted,
            DataIgnored, DataNaked, InHandshake, InIgnored, InData, RxIgnored, Se0Begins, Se0Ends
    <3> QED BY <3>1, <3>2, RegisterStutters DEF mainVars, msgVars, appVars
  <2>5. CASE UNCHANGED busVars
    BY <2>5, RegisterStutters DEF busVars, vars, hostVars, mainVars, msgVars, appVars
  <2>6. ~HostOutData /\ ~HostInDropped /\ ~Abort
    BY NothingIsDropped DEF HostOutData, Writing, CleanIInv, CleanInv, StageInv, Abort, CleanTraffic
  <2> QED BY <2>1, <2>2, <2>3, <2>4, <2>5, <2>6 DEF BusNext, HostStep
<1> QED BY <1>1, <1>3, <1>4, PTL DEF BusSpec, Register!RegisterSafety
=============================================================================
