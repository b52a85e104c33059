------------------------------ MODULE ServoBus ------------------------------
(***************************************************************************)
(* The device of UsbDrv on a bus with a USB host that makes the control     *)
(* transfers of this project's clients: requests without data, requests     *)
(* that read, and dev_set's request with an eight-byte data stage.          *)
(*                                                                          *)
(* The host (controller and usb_control_msg) is outside src/: it is         *)
(* modelled as the clients' calls and the driver's comments use it.  Every  *)
(* packet it sends is one action of the interrupt routine.  Tokens and      *)
(* data are separate packets, so the main loop may run between them.        *)
(***************************************************************************)
EXTENDS UsbDrv

CONSTANTS
    Requests,       \* the SETUP packets the clients send, with id = 0
    OutData,        \* the data packets of OUT transfers, with id = 0
    MaxOperations,  \* bound: control transfers plus bus resets
    AbortAllowed,   \* a client's timeout may end a transfer early
    ResetAllowed,   \* the host may reset the bus
    OthersAllowed   \* the host may talk to another device in between

ASSUME RequestsAssumption ==
    /\ MaxOperations \in Nat
    /\ \A r \in Requests \cup OutData : r \in PacketFields /\ r.id = 0
    /\ \A r \in Requests : r.size = 8
    /\ \A n \in 1..MaxOperations, r \in Requests \cup OutData : [r EXCEPT !.id = n] \in Packets
\* The host gives out only addresses that are on the bus.
ASSUME AddressRequestsAssumption ==
    \A r \in Requests :
        r.type = "standard" /\ r.request = USBRQ_SET_ADDRESS => Lo(r.wValue) \in Addresses
ASSUME SwitchesAssumption == {AbortAllowed, ResetAllowed, OthersAllowed} \subseteq BOOLEAN

VARIABLES
    hStage,     \* stage of the control transfer in progress
    hXfer,      \* the SETUP packet of the current or last transfer
    hTok,       \* whom the SETUP or OUT token on the wire addressed
    hToggle,    \* PID the next data packet from the device must have
    hGot,       \* bytes received in the data stage
    hVal,       \* the number those bytes make
    hAddr,      \* the address the host has given the device
    hCount,     \* operations so far: also names the current transfer
    hResult     \* how the last operation ended

hostVars == <<hStage, hXfer, hTok, hToggle, hGot, hVal, hAddr, hCount, hResult>>
busVars  == <<vars, hostVars>>

HostInit ==
    /\ hStage = "idle"
    /\ hXfer = Junk
    /\ hTok = "none"
    /\ hToggle = USBPID_DATA1
    /\ hGot = 0 /\ hVal = 0
    /\ hAddr = 0
    /\ hCount = 0
    /\ hResult = "none"

BusInit == Init /\ HostInit

\* Which way the packets of the current stage go.
Reading == \/ hStage = "data" /\ hXfer.dir = "in"
           \/ hStage = "status" /\ (hXfer.dir = "out" \/ hXfer.wLength = 0)
Writing == \/ hStage = "data" /\ hXfer.dir = "out"
           \/ hStage = "status" /\ hXfer.dir = "in" /\ hXfer.wLength > 0

\* The status stage is over: SET_ADDRESS moves the host to the new address.
Complete ==
    /\ hStage' = "idle"
    /\ hResult' = "ok"
    /\ hAddr' = IF hXfer.type = "standard" /\ hXfer.request = USBRQ_SET_ADDRESS
                THEN Lo(hXfer.wValue) ELSE hAddr

\* A client calls usb_control_msg.
Call(r) ==
    /\ hStage = "idle" /\ ~se0
    /\ hCount < MaxOperations
    /\ hCount' = hCount + 1
    /\ hXfer' = [r EXCEPT !.id = hCount + 1]
    /\ hStage' = "setup"
    /\ hToggle' = USBPID_DATA1
    /\ hGot' = 0 /\ hVal' = 0
    /\ hResult' = "none"
    /\ UNCHANGED <<hTok, hAddr, vars>>

\* SETUP and OUT tokens for the servo.
HostToken ==
    /\ hTok = "none"
    /\ \/ hStage = "setup" /\ (IsSetupOrOut(USBPID_SETUP, hAddr) \/ OtherOutOrSetup(hAddr))
       \/ Writing /\ (IsSetupOrOut(USBPID_OUT, hAddr) \/ OtherOutOrSetup(hAddr))
    /\ hTok' = "own"
    /\ UNCHANGED <<hStage, hXfer, hToggle, hGot, hVal, hAddr, hCount, hResult>>

\* The SETUP packet, acknowledged: on to the data or the status stage.
HostSetup ==
    /\ hTok = "own" /\ hStage = "setup"
    /\ DataAccepted(hXfer)
    /\ hStage' = IF hXfer.wLength > 0 THEN "data" ELSE "status"
    /\ hTok' = "none"
    /\ UNCHANGED <<hXfer, hToggle, hGot, hVal, hAddr, hCount, hResult>>

HostOutData ==
    /\ hTok = "own" /\ Writing /\ hStage = "data"
    /\ \E p \in OutData : DataAccepted([p EXCEPT !.id = hCount])
    /\ hStage' = "status"
    /\ hTok' = "none"
    /\ UNCHANGED <<hXfer, hToggle, hGot, hVal, hAddr, hCount, hResult>>

\* The zero-length packet that ends a reading transfer.
HostStatusOut ==
    /\ hTok = "own" /\ Writing /\ hStage = "status"
    /\ DataZeroLength
    /\ Complete
    /\ hTok' = "none"
    /\ UNCHANGED <<hXfer, hToggle, hGot, hVal, hCount>>

\* No ACK for a SETUP or OUT packet: the host starts again with the token.
HostRetry ==
    /\ hTok = "own"
    /\ DataIgnored \/ DataNaked
    /\ hTok' = "none"
    /\ UNCHANGED <<hStage, hXfer, hToggle, hGot, hVal, hAddr, hCount, hResult>>

\* IN tokens.  A NAK, or no answer, leaves the host asking.
HostIn ==
    /\ hTok = "none" /\ Reading
    /\ InHandshake(hAddr) \/ InIgnored(hAddr)
    /\ UNCHANGED hostVars

\* A packet with a bad CRC is not acknowledged; one with the wrong toggle is
\* taken for a repetition and dropped.
HostInDropped ==
    /\ hTok = "none" /\ Reading
    /\ ~usbTxBuf.crc \/ usbTxBuf.pid # hToggle
    /\ InData(hAddr)
    /\ UNCHANGED hostVars

\* The data stage ends with a short packet or with the last byte asked for.
HostInData ==
    /\ hTok = "none" /\ Reading /\ hStage = "data"
    /\ usbTxBuf.crc /\ usbTxBuf.pid = hToggle
    /\ InData(hAddr)
    /\ hToggle' = IF hToggle = USBPID_DATA1 THEN USBPID_DATA0 ELSE USBPID_DATA1
    /\ hGot' = hGot + usbTxBuf.len
    /\ hVal' = usbTxBuf.val
    /\ hStage' = IF usbTxBuf.len < 8 \/ hGot + usbTxBuf.len >= hXfer.wLength
                 THEN "status" ELSE "data"
    /\ UNCHANGED <<hXfer, hTok, hAddr, hCount, hResult>>

\* The status stage of a request without data to read: a zero-length packet.
HostStatusIn ==
    /\ hTok = "none" /\ Reading /\ hStage = "status"
    /\ usbTxBuf.crc /\ usbTxBuf.pid = hToggle
    /\ InData(hAddr)
    /\ IF usbTxBuf.len = 0
       THEN Complete
       ELSE hStage' = "idle" /\ hResult' = "error" /\ UNCHANGED hAddr
    /\ UNCHANGED <<hXfer, hTok, hToggle, hGot, hVal, hCount>>

\* usb_control_msg times out, between two transactions.
Abort ==
    /\ AbortAllowed
    /\ hStage # "idle" /\ hTok = "none"
    /\ hStage' = "idle"
    /\ hResult' = "error"
    /\ UNCHANGED <<hXfer, hTok, hToggle, hGot, hVal, hAddr, hCount, vars>>

\* Resets are further apart than the main loop takes to come round.
HostReset ==
    /\ ResetAllowed
    /\ ~usbIsReset
    /\ hTok = "none" /\ hStage = "idle"
    /\ hCount < MaxOperations
    /\ hCount' = hCount + 1
    /\ Se0Begins
    /\ hAddr' = 0
    /\ hResult' = "reset"
    /\ UNCHANGED <<hStage, hXfer, hTok, hToggle, hGot, hVal>>

\* A reset lasts longer than the main loop takes to come round.
HostResetEnds ==
    /\ usbIsReset /\ pc # "readdress"
    /\ Se0Ends
    /\ UNCHANGED hostVars

\* SETUP or OUT transactions with another device on the same wire.
OtherToken ==
    /\ OthersAllowed
    /\ hTok = "none"
    /\ \E addr \in Addresses \ {0, hAddr} : OtherOutOrSetup(addr)
    /\ hTok' = "other"
    /\ UNCHANGED <<hStage, hXfer, hToggle, hGot, hVal, hAddr, hCount, hResult>>

OtherData ==
    /\ hTok = "other"
    /\ DataIgnored
    /\ hTok' = "none"
    /\ UNCHANGED <<hStage, hXfer, hToggle, hGot, hVal, hAddr, hCount, hResult>>

\* The host's ACK of the device's data, start-of-frame keep-alives and the like.
OtherPacket ==
    /\ hTok = "none"
    /\ RxIgnored
    /\ UNCHANGED hostVars

-----------------------------------------------------------------------------
MainStep == Main /\ UNCHANGED hostVars

HostStep ==
    \/ HostToken \/ HostSetup \/ HostOutData \/ HostStatusOut \/ HostRetry
    \/ HostIn \/ HostInDropped \/ HostInData \/ HostStatusIn

ResetStep == HostReset \/ HostResetEnds
OtherStep == OtherToken \/ OtherData \/ OtherPacket

BusNext ==
    \/ MainStep
    \/ \E r \in Requests : Call(r)
    \/ HostStep
    \/ Abort
    \/ ResetStep
    \/ OtherStep

BusSpec == BusInit /\ [][BusNext]_busVars

\* The main loop keeps running; the host controller keeps scheduling a started
\* transfer among the other traffic (hence SF), and ends what it began.  Nobody has
\* to start a transfer or a reset.
Fairness ==
    /\ WF_busVars(MainStep)
    /\ SF_busVars(HostStep)
    /\ WF_busVars(HostResetEnds)
    /\ WF_busVars(OtherData)
FairBusSpec == BusSpec /\ Fairness

-----------------------------------------------------------------------------
(* What a client relies on. *)

\* A request after which nothing is left over: no data for the device, no reply whose last
\* packet is full and also the last one asked for, no change of address before the end.
LeavesNothing(r) ==
    /\ r.dir = "out" => r.wLength = 0
    /\ r.wLength > 0 => ReplyLength(r) # r.wLength \/ ReplyLength(r) % 8 # 0
    /\ r.type = "standard" /\ r.request = USBRQ_SET_ADDRESS => r.wLength = 0

\* Clients that wait for the end of such requests.
CleanTraffic == ~AbortAllowed /\ \A r \in Requests : LeavesNothing(r)

Stages == {"idle", "setup", "data", "status"}

HostTypeOK ==
    /\ hStage \in Stages
    /\ hXfer \in OptionalPacket
    /\ hTok \in {"none", "own", "other"}
    /\ hToggle \in {USBPID_DATA0, USBPID_DATA1}
    /\ hGot \in Nat /\ hVal \in Word
    /\ hAddr \in Byte
    /\ hCount \in 0..MaxOperations
    /\ hResult \in {"none", "ok", "error", "reset"}

\* Device and host keep their ranges, whatever mix of requests, timeouts and resets.
BusTypeOK == TypeOK /\ HostTypeOK

\* Once a request has been acknowledged, no packet of an earlier transfer is
\* waiting to be sent as its reply: the token aborted it, and the main loop has
\* not built another (usbdrvasm.S:453-460 against usbdrv.c:528-531).
NoStaleReply ==
    hStage \in {"data", "status"} /\ ~TxIdle => usbTxBuf.ans.id = hXfer.id

\* The device frees its buffer when it sends, not when the host acknowledges, so a
\* packet the host drops is lost: every packet sent must have a correct CRC and
\* the toggle the host expects (usbdrvasm.S:413-430).
NothingDropped ==
    hTok = "none" /\ Reading /\ hAddr = usbDeviceAddr /\ ~TxIdle
        => usbTxBuf.crc /\ usbTxBuf.pid = hToggle

\* A transfer that ends well has received the whole reply to its own request, or
\* as much of it as was asked for.
ReplyComplete ==
    hResult = "ok" /\ hXfer.dir = "in" /\ hXfer.wLength > 0 =>
        hGot = IF FullLength(hXfer) < hXfer.wLength THEN FullLength(hXfer) ELSE hXfer.wLength

\* Device and host always agree on the address: it changes with the status stage
\* of SET_ADDRESS, neither before nor after, and a reset takes it back
\* (usbdrv.c:39, usbdrv.c:358-359, usbdrvasm.S:640-648).
AddressAgreed == ~se0 => usbDeviceAddr = hAddr

\* A SETUP packet is never refused: the buffer is free whenever one may come
\* (Changelog.txt:75-81, usbdrvasm.S:396-399).
SetupNotNaked ==
    [][hStage = "setup" /\ hTok = "own" /\ hTok' = "none" => hStage' # "setup"]_busVars

\* What the device has acknowledged it executes, once and in the order sent, the
\* data of a transfer after its SETUP, even if clients give up in between.
RequestsInOrder ==
    [][ /\ msgFor' # msgFor =>
              \/ msgFor = Junk
              \/ msgFor'.id > msgFor.id
              \/ msgFor'.id = msgFor.id /\ acked.tok = USBPID_OUT
        /\ acked' # acked => acked.pkt \in {Junk, msgFor} ]_busVars

\* A set request the device has acknowledged takes effect, even if the client gives
\* up or the host is told too early that all is done.
SetTakesEffect ==
    \A r \in Requests : r.type = "vendor" /\ r.request = CMD_SET =>
        (hStage \in {"data", "status"} /\ [hXfer EXCEPT !.id = 0] = r) ~> angle = Lo(r.wValue)

\* Every call ends well, though a transfer may meet any amount of other traffic.
CallsReturn == hStage = "setup" ~> hResult = "ok"
=============================================================================
