------------------------------- MODULE UsbWire -------------------------------
(***************************************************************************)
(* The bits of the interrupt routine (usbdrvasm.S): how it encodes what it   *)
(* sends, decodes what it receives, and the CRC under a packet.  UsbDrv takes *)
(* for granted that packets arrive as they were sent.                         *)
(*                                                                          *)
(* A byte is the set of the numbers of its one bits, bit 0 being sent first.  *)
(* The line is idle at "J"; "SE0" ends a packet.                              *)
(***************************************************************************)
EXTENDS Integers, Sequences, FiniteSetsExt

USB_BUFSIZE == 11
Bytes == SUBSET (0..7)

Toggle(line) == IF line = "J" THEN "K" ELSE "J"
Lsr(reg) == {i - 1 : i \in reg \ {0}}

-----------------------------------------------------------------------------
(* usbSendAndReti *)

\* A bit: shift out the next one; a zero changes the level, and so does the extra bit
\* behind six ones.  x2 is the history, of the last eight bits.
TxBit(tx, bit) ==
    LET level == IF bit THEN tx.level ELSE Toggle(tx.level)
        x2 == Lsr(tx.x2) \cup (IF bit THEN {7} ELSE {})
        bitstuff == 2..7 \subseteq x2
    IN  [level |-> IF bitstuff THEN Toggle(level) ELSE level,
         x2 |-> IF bitstuff THEN {} ELSE x2,
         out |-> tx.out \o (IF bitstuff THEN <<level, Toggle(level)>> ELSE <<level>>)]

BitsOf(bytes) == [k \in 1..8 * Len(bytes) |-> ((k - 1) % 8) \in bytes[(k - 1) \div 8 + 1]]

\* The line while a packet is sent behind the sync byte; x2 is what the register held.
UsbSend(packet, x2) ==
    LET bits == BitsOf(<<{7}>> \o packet)
        tx[k \in 0..Len(bits)] ==
            IF k = 0 THEN [level |-> "J", x2 |-> x2, out |-> <<>>] ELSE TxBit(tx[k - 1], bits[k])
    IN  tx[Len(bits)].out

-----------------------------------------------------------------------------
(* usbInterrupt, rxLoop *)

\* What the andi and cpi before each stuffed* label look at: the last six bits.
LastSix == [n \in 0..7 |-> {(n + 8 - k) % 8 : k \in 0..5}]

\* At the end of the sync byte.  shift has a one where the level changed, which is where
\* the byte has a zero; x3 has a zero where shift was corrected.
RxStart(line) ==
    [state |-> "receiving", n |-> 0, stuffed |-> FALSE, last |-> line,
     shift |-> {}, x3 |-> 0..7, cnt |-> USB_BUFSIZE, buf |-> <<>>]

\* The bit that stuffing has inserted is skipped.
RxStuffed(rx, line) ==
    IF line = "SE0" THEN [rx EXCEPT !.state = "se0"]
    ELSE [rx EXCEPT !.stuffed = FALSE, !.last = line]

\* Bits 0 to 3 of the first byte are not looked at: there is other work to do.
Looks(rx) == rx.buf # <<>> \/ rx.n >= 4

\* bld: a one for a change of level.
Bld(rx, line) ==
    (rx.shift \ {rx.n}) \cup (IF (line = "J") # (rx.last = "J") THEN {rx.n} ELSE {})

\* A stuffed bit is to come.
StuffedNext(rx, line) == Looks(rx) /\ Bld(rx, line) \cap LastSix[rx.n] = {}

\* The mask stays in shift except behind bits 6 and 7, which are compared.
Shift(rx, line) ==
    LET kept == IF Looks(rx) /\ rx.n <= 5 THEN Bld(rx, line) \cap LastSix[rx.n] ELSE Bld(rx, line)
    IN  IF StuffedNext(rx, line) THEN kept \cup {rx.n} ELSE kept

\* Bit 3 counts, from the second byte on.
Counts(rx) == rx.n = 3 /\ rx.buf # <<>>

RxBit(rx, line) ==
    CASE rx.n \in {1, 2, 4, 6} /\ Looks(rx) /\ line = "SE0" -> [rx EXCEPT !.state = "se0"]
      [] Counts(rx) /\ rx.cnt = 1 -> [rx EXCEPT !.state = "overflow"]
      [] OTHER ->
            [rx EXCEPT !.n = (rx.n + 1) % 8, !.last = line,
                       !.shift = Shift(rx, line), !.stuffed = StuffedNext(rx, line),
                       !.cnt = IF Counts(rx) THEN @ - 1 ELSE @,
                       !.x3 = IF rx.n = 7 THEN 0..7 ELSE IF StuffedNext(rx, line) THEN @ \ {rx.n} ELSE @,
                       !.buf = IF rx.n = 7 THEN Append(@, SymDiff(rx.x3, Bld(rx, line))) ELSE @]

RxStep(rx, line) ==
    CASE rx.state # "receiving" -> rx
    [] rx.state = "receiving" /\ rx.stuffed -> RxStuffed(rx, line)
    [] OTHER -> RxBit(rx, line)

\* What becomes of the line behind the sync byte, which takes eight bits.
Receive(lines) ==
    LET rx[k \in 8..Len(lines)] ==
            IF k = 8 THEN RxStart(lines[8]) ELSE RxStep(rx[k - 1], lines[k])
    IN  rx[Len(lines)]

-----------------------------------------------------------------------------
(* usbCrc16, usbCrc16Append *)

CrcBit(crc, bit) ==
    IF bit # (0 \in crc) THEN SymDiff(Lsr(crc), {0, 13, 15}) ELSE Lsr(crc)

UsbCrc16(data) ==
    LET bits == BitsOf(data)
        crc[k \in 0..Len(bits)] == IF k = 0 THEN 0..15 ELSE CrcBit(crc[k - 1], bits[k])
    IN  0..15 \ crc[Len(bits)]

UsbCrc16Append(data) ==
    LET crc == UsbCrc16(data) IN data \o <<crc \cap 0..7, {i - 8 : i \in crc \cap 8..15}>>

-----------------------------------------------------------------------------
(* The definitions of USB 1.1 *)

\* A zero follows six ones, counted from the end of the sync byte, which is one.
Stuffed(bits) ==
    LET ones[k \in 0..Len(bits)] ==      \* in a row, when bit k has been sent
            IF k = 0 THEN 0 ELSE IF bits[k] THEN (ones[k - 1] % 6) + 1 ELSE 0
        after[k \in 0..Len(bits)] ==
            IF k = 0 THEN <<>>
            ELSE after[k - 1] \o (IF ones[k] = 6 THEN <<TRUE, FALSE>> ELSE <<bits[k]>>)
    IN  after[Len(bits)]

\* The level changes at a zero.
Nrzi(bits) ==
    LET level[k \in 0..Len(bits)] ==
            IF k = 0 THEN "J" ELSE IF bits[k] THEN level[k - 1] ELSE Toggle(level[k - 1])
    IN  [k \in 1..Len(bits) |-> level[k]]

\* The remainder of a polynomial, the set of its exponents, by x^16 + x^15 + x^2 + 1.
Remainder(poly, top) ==
    LET rest[e \in 15..top] ==           \* the terms from e + 1 up have been divided
            IF e = top THEN poly
            ELSE LET p == rest[e + 1]
                 IN  IF e + 1 \in p THEN SymDiff(p, {e + 1, e, e - 13, e - 15}) ELSE p
    IN  rest[15]

\* The first bit sent is the highest term; the first sixteen are inverted, as is the result.
PolynomialCrc(data) ==
    LET bits == BitsOf(data)
        n == Len(bits)
        message == {n - k + 16 : k \in {k \in 1..n : bits[k]}}
    IN  0..15 \ {15 - e : e \in Remainder(SymDiff(message, n..n + 15), n + 15)}

-----------------------------------------------------------------------------
(* What the routine does is what these say.  Zeros and ones in every place of a byte, and *)
(* runs of ones across three bytes, starting anywhere.                                    *)
Runs == {{}} \cup {a..7 : a \in 0..7} \cup {0..b : b \in 0..6}
Packets3 == {<<a, b, c>> : a \in Runs, b \in {{}, {7}, 0..4, 2..7, 0..7}, c \in Runs}
Eop == {<<"SE0", "SE0">>, <<"J", "SE0">>, <<"K", "SE0">>}   \* hubs may delay its start

\* txLoop stuffs bits as the standard says, in each of its eight places, although x2 is
\* not initialised (usbdrvasm.S:510, 543-561, 563-628, 662-680).
ASSUME SendsByTheStandard ==
    /\ \A p \in Packets3 : UsbSend(p, {}) = Nrzi(Stuffed(BitsOf(<<{7}>> \o p)))
    /\ \A x2 \in Bytes : UsbSend(<<0..7>>, x2) = UsbSend(<<0..7>>, {})

\* rxLoop takes out what was stuffed and nothing else, also where the sync byte's last
\* bit counts and where a stuffed bit ends the packet (usbdrvasm.S:170, 216-323).
ASSUME ReceivesWhatWasSent ==
    /\ \A p \in Packets3 : \A eop \in Eop :
          LET rx == Receive(UsbSend(p, {}) \o eop) IN rx.state = "se0" /\ rx.buf = p
    /\ \A a \in Runs, b \in Bytes : Receive(UsbSend(<<a, b>>, {})).buf = <<a, b>>

\* A packet as long as the buffer fits, a longer one is dropped before it leaves it
\* (usbdrvasm.S:162, 301-302, 359).
ASSUME StaysInBuffer ==
    \A n \in {USB_BUFSIZE, USB_BUFSIZE + 1} : \A b \in {{}, 0..6, 1..7, 0..7} :
        LET p == [k \in 1..n |-> b]
            rx == Receive(UsbSend(p, {}) \o <<"SE0", "SE0">>)
        IN  /\ Len(rx.buf) <= USB_BUFSIZE
            /\ n <= USB_BUFSIZE <=> rx.state = "se0"
            /\ n <= USB_BUFSIZE => rx.buf = p

\* The bit loop computes the remainder, for no data, for every byte and for eight of them;
\* behind it a packet leaves the remainder every receiver expects (usbdrvasm.S:748-784).
ASSUME CrcIsRemainder ==
    LET data == {<<>>} \cup {<<a>> : a \in Bytes} \cup {<<a, b>> : a \in Runs, b \in Runs}
                \cup {[k \in 1..8 |-> IF k % 2 = 0 THEN a ELSE 0..7] : a \in Runs}
    IN  \A d \in data :
           /\ UsbCrc16(d) = PolynomialCrc(d)
           /\ UsbCrc16(UsbCrc16Append(d)) = UsbCrc16(UsbCrc16Append(<<>>))
=============================================================================
