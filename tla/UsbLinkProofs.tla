---------------------------- MODULE UsbLinkProofs ----------------------------
(***************************************************************************)
(* Whatever is sent comes out of the receiver as it went into the sender.   *)
(* The heart of it is a history of ones that both ends keep in their own way: *)
(* the sender in x2, of the last eight bits, the receiver in shift, where    *)
(* place n is the last bit with that number, of this byte or of the one      *)
(* before.  TxOnes and RxOnes say that both agree with the count that USB     *)
(* defines, so each of the eight tests for six ones finds a stuffed bit where *)
(* the sender has put one.                                                    *)
(***************************************************************************)
EXTENDS UsbLink, SequenceTheorems, TLAPS

Levels == {"J", "K"}
Senders == [level : Levels, x2 : Bytes, out : Seq(Levels)]
Receivers == [state : {"sync", "receiving", "se0", "overflow"}, n : 0..7, stuffed : BOOLEAN,
              last : Levels \cup {"SE0"}, shift : Bytes, x3 : Bytes, cnt : Int, buf : Seq(Bytes)]

\* How many bits ago the receiver has last put a bit into place j, when n is next.
Ago(n, j) == IF j < n THEN n - j ELSE n + 8 - j

\* The sender's history ends with n ones, and a zero before them.
TxOnes(t, n) == (\A i \in 1..n : 8 - i \in t.x2) /\ 7 - n \notin t.x2

\* The receiver's history, too; during the first byte the sync byte's last one counts.
RxOnes(r, n) ==
    /\ \A j \in 0..7 : Ago(r.n, j) <= n => j \notin r.shift
    /\ r.buf # <<>> \/ n < r.n => \A j \in 0..7 : Ago(r.n, j) = n + 1 => j \in r.shift
    /\ r.buf = <<>> /\ n >= r.n => n = r.n + 1

-----------------------------------------------------------------------------
(* A bit at the sender *)

LEMMA LsrIs ==
    ASSUME NEW reg \in Bytes
    PROVE  /\ Lsr(reg) \in Bytes
           /\ \A i \in 0..7 : i \in Lsr(reg) <=> i < 7 /\ i + 1 \in reg
BY DEF Lsr, Bytes

LEMMA TxBitIs ==
    ASSUME NEW t, t.level \in Levels, t.x2 \in Bytes, t.out = <<>>,
           NEW bit \in BOOLEAN, NEW n \in 0..5, bit => TxOnes(t, n)
    PROVE  LET u == TxBit(t, bit)
               next == IF bit THEN n + 1 ELSE 0
               level == IF bit THEN t.level ELSE Toggle(t.level)
           IN  /\ u.x2 \in Bytes
               /\ TxOnes(u, next % 6)
               /\ IF next = 6 THEN u.out = <<level, Toggle(level)>> /\ u.level = Toggle(level)
                              ELSE u.out = <<level>> /\ u.level = level
<1> DEFINE level == IF bit THEN t.level ELSE Toggle(t.level)
           x2 == Lsr(t.x2) \cup (IF bit THEN {7} ELSE {})
           next == IF bit THEN n + 1 ELSE 0
           u == TxBit(t, bit)
<1>1. x2 \in Bytes /\ (\A i \in 0..7 : i \in x2 <=> IF i = 7 THEN bit ELSE i + 1 \in t.x2)
  BY LsrIs DEF Bytes
<1>2. 2..7 \subseteq x2 <=> next = 6
  <2>1. CASE ~bit
    BY <1>1, <2>1
  <2>2. CASE bit /\ n = 5
    <3>1. \A i \in 2..6 : 8 - (7 - i) \in t.x2
      BY <2>2 DEF TxOnes
    <3>2. ASSUME NEW i \in 2..7 PROVE i \in x2
      BY <1>1, <2>2, <3>1
    <3> QED BY <2>2, <3>2
  <2>3. CASE bit /\ n < 5
    <3>1. 6 - n \in 2..6 /\ 6 - n \notin x2
      BY <1>1, <2>3 DEF TxOnes
    <3> QED BY <2>3, <3>1
  <2> QED BY <2>1, <2>2, <2>3
<1>3. next # 6 => (\A i \in 1..next : 8 - i \in x2) /\ 7 - next \notin x2
  <2>1. CASE ~bit
    BY <1>1, <2>1
  <2>2. CASE bit /\ n < 5
    <3>1. 6 - n \in 1..6 /\ 6 - n \notin x2 /\ 7 \in x2
      BY <1>1, <2>2 DEF TxOnes
    <3>2. ASSUME NEW i \in 2..n + 1 PROVE 8 - i \in x2
      <4>1. i - 1 \in 1..n /\ 8 - i \in 0..6 /\ 8 - (i - 1) = 8 - i + 1
        BY <2>2
      <4>2. 8 - i + 1 \in t.x2
        BY <2>2, <4>1 DEF TxOnes
      <4> QED BY <1>1, <2>2, <4>1, <4>2
    <3>3. ASSUME NEW i \in 1..n + 1 PROVE 8 - i \in x2
      BY <2>2, <3>1, <3>2
    <3> QED BY <2>2, <3>1, <3>3
  <2> QED BY <2>1, <2>2
<1>4. u = [level |-> IF next = 6 THEN Toggle(level) ELSE level,
           x2 |-> IF next = 6 THEN {} ELSE x2,
           out |-> <<>> \o (IF next = 6 THEN <<level, Toggle(level)>> ELSE <<level>>)]
  BY <1>2 DEF TxBit
<1>5. level \in Levels /\ Toggle(level) \in Levels
  BY DEF Toggle, Levels
<1>6. <<>> \o <<level, Toggle(level)>> = <<level, Toggle(level)>> /\ <<>> \o <<level>> = <<level>>
  OBVIOUS
<1>7. next # 6 => next % 6 = next
  OBVIOUS
<1>8. u.x2 \in Bytes /\ TxOnes(u, next % 6)
  BY <1>1, <1>3, <1>4, <1>7 DEF TxOnes, Bytes
<1> QED BY <1>4, <1>6, <1>8

-----------------------------------------------------------------------------
(* A bit at the receiver *)

Line(r, bit) == IF bit THEN r.last ELSE Toggle(r.last)

\* q is what a bit makes of r behind n ones.
BitTaken(r, bit, n, q) ==
    LET full == bit /\ n = 5
    IN  /\ q \in Receivers
        /\ q.state = r.state /\ q.last = Line(r, bit) /\ (q.stuffed <=> full)
        /\ q.n = IF r.n = 7 THEN 0 ELSE r.n + 1
        /\ q.cnt = IF Counts(r) THEN r.cnt - 1 ELSE r.cnt
        /\ q.buf = IF r.n = 7 THEN Append(r.buf, SymDiff(r.x3, Bld(r, Line(r, bit)))) ELSE r.buf
        /\ q.x3 = IF r.n = 7 THEN 0..7 ELSE IF full THEN r.x3 \ {r.n} ELSE r.x3
        /\ \A j \in 0..7 : j < r.n => (j \in q.shift <=> j \in r.shift)
        /\ r.n \in q.shift <=> ~bit \/ full
        /\ RxOnes(q, IF bit /\ n < 5 THEN n + 1 ELSE 0)

LEMMA AgoNext ==
    ASSUME NEW n \in 0..7, NEW j \in 0..7
    PROVE  /\ Ago(n, j) \in 1..8
           /\ Ago(IF n = 7 THEN 0 ELSE n + 1, j) = IF j = n THEN 1 ELSE Ago(n, j) + 1
BY DEF Ago

LEMMA LastSixIs ==
    ASSUME NEW n \in 0..7
    PROVE  /\ LastSix[n] \in Bytes
           /\ \A j \in 0..7 : j \in LastSix[n] <=> j = n \/ Ago(n, j) <= 5
<1>1. LastSix[n] = {(n + 8 - k) % 8 : k \in 0..5}
  BY DEF LastSix
<1>2. \A k \in 0..5 : (n + 8 - k) % 8 = IF k <= n THEN n - k ELSE n + 8 - k
  OBVIOUS
<1>3. LastSix[n] \in Bytes
  BY <1>1, <1>2 DEF Bytes
<1>4. ASSUME NEW j \in 0..7, j = n \/ Ago(n, j) <= 5 PROVE j \in LastSix[n]
  <2> DEFINE k == IF j <= n THEN n - j ELSE n + 8 - j
  <2>1. k \in 0..5 /\ (n + 8 - k) % 8 = j
    BY <1>2, <1>4 DEF Ago
  <2> QED BY <1>1, <2>1
<1>5. ASSUME NEW j \in 0..7, j \in LastSix[n] PROVE j = n \/ Ago(n, j) <= 5
  <2>1. PICK k \in 0..5 : j = (n + 8 - k) % 8
    BY <1>1, <1>5
  <2> QED BY <1>2, <2>1 DEF Ago
<1> QED BY <1>3, <1>4, <1>5

LEMMA BldIs ==
    ASSUME NEW r \in Receivers, r.last \in Levels, NEW bit \in BOOLEAN
    PROVE  LET line == IF bit THEN r.last ELSE Toggle(r.last)
           IN  /\ line \in Levels /\ line # "SE0"
               /\ Bld(r, line) \in Bytes
               /\ \A j \in 0..7 : j \in Bld(r, line) <=> IF j = r.n THEN ~bit ELSE j \in r.shift
<1> DEFINE line == IF bit THEN r.last ELSE Toggle(r.last)
<1>1. r.n \in 0..7 /\ r.last \in Levels /\ r.shift \in Bytes
  BY DEF Receivers
<1>2. line \in Levels /\ line # "SE0" /\ ((line = "J") # (r.last = "J") <=> ~bit)
  BY <1>1 DEF Levels, Toggle
<1>3. Bld(r, line) = (r.shift \ {r.n}) \cup (IF bit THEN {} ELSE {r.n})
  BY <1>2 DEF Bld
<1> QED BY <1>1, <1>2, <1>3 DEF Bytes

\* Each test for six ones finds them, wherever they began.
LEMMA StuffedNextIs ==
    ASSUME NEW r \in Receivers, r.last \in Levels, NEW bit \in BOOLEAN, NEW n \in 0..5, RxOnes(r, n)
    PROVE  LET line == IF bit THEN r.last ELSE Toggle(r.last)
           IN  StuffedNext(r, line) <=> bit /\ n = 5
<1> DEFINE line == IF bit THEN r.last ELSE Toggle(r.last)
           bld == Bld(r, line)
<1>1. r.n \in 0..7
  BY DEF Receivers
<1>2. bld \in Bytes /\ \A j \in 0..7 : j \in bld <=> IF j = r.n THEN ~bit ELSE j \in r.shift
  BY BldIs
<1>3. /\ \A j \in 0..7 : j \in LastSix[r.n] <=> j = r.n \/ Ago(r.n, j) <= 5
      /\ LastSix[r.n] \in Bytes
  BY <1>1, LastSixIs
<1>4. \A j \in 0..7 : Ago(r.n, j) \in 1..8
  BY <1>1 DEF Ago
<1>5. /\ \A j \in 0..7 : Ago(r.n, j) <= n => j \notin r.shift
      /\ r.buf # <<>> \/ n < r.n => \A j \in 0..7 : Ago(r.n, j) = n + 1 => j \in r.shift
      /\ r.buf = <<>> /\ n >= r.n => n = r.n + 1
  BY DEF RxOnes
<1> HIDE DEF bld
<1>6. Looks(r) /\ bld \cap LastSix[r.n] = {} <=> bit /\ n = 5
  <2>1. CASE ~bit
    BY <1>1, <1>2, <1>3, <2>1
  <2>2. CASE bit /\ n = 5
    <3>1. Looks(r)
      BY <1>1, <1>5, <2>2 DEF Looks
    <3>2. ASSUME NEW j \in 0..7, j \in LastSix[r.n] PROVE j \notin bld
      BY <1>2, <1>3, <1>4, <1>5, <2>2, <3>2
    <3>3. bld \cap LastSix[r.n] = {}
      BY <1>2, <3>2 DEF Bytes
    <3> QED BY <2>2, <3>1, <3>3
  <2>3. CASE bit /\ n < 5 /\ (r.buf # <<>> \/ n < r.n)
    <3> DEFINE j == IF n < r.n THEN r.n - n - 1 ELSE r.n + 7 - n
    <3>1. j \in 0..7 /\ j # r.n /\ Ago(r.n, j) = n + 1
      <4>1. n < 5
        BY <2>3
      <4> QED BY <1>1, <4>1 DEF Ago
    <3>2. j \in bld /\ j \in LastSix[r.n]
      BY <1>2, <1>3, <1>4, <1>5, <2>3, <3>1
    <3> QED BY <2>3, <3>2
  <2>4. CASE bit /\ n < 5 /\ ~(r.buf # <<>> \/ n < r.n)
    BY <1>1, <1>5, <2>4 DEF Looks
  <2> QED BY <2>1, <2>2, <2>3, <2>4
<1> QED BY <1>6 DEF StuffedNext, bld

LEMMA RxBitIs ==
    ASSUME NEW r \in Receivers, r.last \in Levels, NEW bit \in BOOLEAN, NEW n \in 0..5, RxOnes(r, n),
           ~(Counts(r) /\ r.cnt = 1)
    PROVE  BitTaken(r, bit, n, RxBit(r, Line(r, bit)))
<1> DEFINE line == Line(r, bit)
           full == bit /\ n = 5
           bld == Bld(r, line)
           q == RxBit(r, line)
<1>1. r.n \in 0..7 /\ r.shift \in Bytes /\ r.x3 \in Bytes /\ r.cnt \in Int /\ r.buf \in Seq(Bytes)
  BY DEF Receivers
<1>2. /\ line \in Levels /\ line # "SE0" /\ bld \in Bytes
      /\ \A j \in 0..7 : j \in bld <=> IF j = r.n THEN ~bit ELSE j \in r.shift
  BY BldIs DEF Line
<1>3. StuffedNext(r, line) <=> full
  BY StuffedNextIs DEF Line
<1>4. q = [r EXCEPT !.n = (r.n + 1) % 8, !.last = line,
                    !.shift = Shift(r, line), !.stuffed = StuffedNext(r, line),
                    !.cnt = IF Counts(r) THEN r.cnt - 1 ELSE r.cnt,
                    !.x3 = IF r.n = 7 THEN 0..7 ELSE IF StuffedNext(r, line) THEN r.x3 \ {r.n} ELSE r.x3,
                    !.buf = IF r.n = 7 THEN Append(r.buf, SymDiff(r.x3, bld)) ELSE r.buf]
  BY <1>2 DEF RxBit
<1>5. /\ q.state = r.state /\ q.last = line /\ (q.stuffed <=> full)
      /\ q.n = (r.n + 1) % 8
      /\ q.cnt = IF Counts(r) THEN r.cnt - 1 ELSE r.cnt
      /\ q.buf = IF r.n = 7 THEN Append(r.buf, SymDiff(r.x3, bld)) ELSE r.buf
      /\ q.x3 = IF r.n = 7 THEN 0..7 ELSE IF full THEN r.x3 \ {r.n} ELSE r.x3
      /\ q.shift = Shift(r, line)
  BY <1>3, <1>4 DEF Receivers
<1>6. q.n = IF r.n = 7 THEN 0 ELSE r.n + 1
  BY <1>1, <1>5
<1>7. /\ Shift(r, line) \in Bytes
      /\ \A j \in 0..7 : j \in Shift(r, line) <=>
            IF j = r.n THEN ~bit \/ full
            ELSE j \in r.shift /\ (Looks(r) /\ r.n <= 5 => Ago(r.n, j) <= 5)
  <2>1. /\ \A j \in 0..7 : j \in LastSix[r.n] <=> j = r.n \/ Ago(r.n, j) <= 5
        /\ LastSix[r.n] \in Bytes
    BY <1>1, LastSixIs
  <2> HIDE DEF bld
  <2> DEFINE kept == IF Looks(r) /\ r.n <= 5 THEN bld \cap LastSix[r.n] ELSE bld
  <2>2. Shift(r, line) = IF full THEN kept \cup {r.n} ELSE kept
    BY <1>3 DEF Shift, bld
  <2>3. kept \in Bytes
        /\ \A j \in 0..7 : j \in kept <=>
              IF j = r.n THEN ~bit ELSE j \in r.shift /\ (Looks(r) /\ r.n <= 5 => Ago(r.n, j) <= 5)
    BY <1>1, <1>2, <2>1 DEF Bytes
  <2> HIDE DEF kept
  <2> QED BY <1>1, <2>2, <2>3 DEF Bytes
<1>8. \A j \in 0..7 : j < r.n => (j \in q.shift <=> j \in r.shift)
  BY <1>1, <1>5, <1>7 DEF Ago
<1> HIDE DEF q, bld, line
<1>9. RxOnes(q, IF bit /\ n < 5 THEN n + 1 ELSE 0)
  <2>1. \A j \in 0..7 : /\ Ago(r.n, j) \in 1..8
                         /\ Ago(q.n, j) = IF j = r.n THEN 1 ELSE Ago(r.n, j) + 1
    BY <1>1, <1>6, AgoNext
  <2>2. q.buf = <<>> => r.buf = <<>> /\ r.n # 7
    <3>1. SymDiff(r.x3, bld) \in Bytes
      BY <1>1, <1>2 DEF SymDiff, Bytes
    <3>2. Append(r.buf, SymDiff(r.x3, bld)) # <<>>
      BY <1>1, <3>1, AppendProperties
    <3> QED BY <1>5, <3>2
  <2>3. /\ \A j \in 0..7 : Ago(r.n, j) <= n => j \notin r.shift
        /\ r.buf # <<>> \/ n < r.n => \A j \in 0..7 : Ago(r.n, j) = n + 1 => j \in r.shift
        /\ r.buf = <<>> /\ n >= r.n => n = r.n + 1
    BY DEF RxOnes
  <2>4. \A j \in 0..7 : j \in q.shift <=>
            IF j = r.n THEN ~bit \/ full
            ELSE j \in r.shift /\ (Looks(r) /\ r.n <= 5 => Ago(r.n, j) <= 5)
    BY <1>5, <1>7
  <2>5. CASE bit /\ n < 5
    <3>1. n < 5 /\ ~full
      BY <2>5
    <3>2. ASSUME NEW j \in 0..7, Ago(q.n, j) <= n + 1 PROVE j \notin q.shift
      BY <2>1, <2>3, <2>4, <2>5, <3>1, <3>2
    <3>3. ASSUME q.buf # <<>> \/ n + 1 < q.n, NEW j \in 0..7, Ago(q.n, j) = n + 2 PROVE j \in q.shift
      <4>1. r.buf # <<>> \/ n < r.n
        BY <1>1, <1>5, <1>6, <3>1, <3>3
      <4>2. j # r.n /\ Ago(r.n, j) = n + 1
        BY <2>1, <3>1, <3>3
      <4> QED BY <2>3, <2>4, <3>1, <4>1, <4>2
    <3>4. q.buf = <<>> /\ n + 1 >= q.n => n + 1 = q.n + 1
      BY <1>1, <1>6, <2>2, <2>3, <3>1
    <3> QED BY <2>5, <3>2, <3>3, <3>4 DEF RxOnes
  <2>6. CASE ~(bit /\ n < 5)
    <3>1. ~bit \/ full
      BY <2>6
    <3>2. ASSUME NEW j \in 0..7 PROVE Ago(q.n, j) >= 1 /\ (Ago(q.n, j) = 1 => j \in q.shift)
      BY <1>1, <2>1, <2>4, <3>1
    <3>3. ~(q.buf = <<>> /\ 0 >= q.n)
      BY <1>1, <1>6, <2>2
    <3>4. \A j \in 0..7 : ~(Ago(q.n, j) <= 0) /\ (Ago(q.n, j) = 0 + 1 => j \in q.shift)
      BY <2>1, <3>2
    <3>5. RxOnes(q, 0)
      BY <3>3, <3>4 DEF RxOnes
    <3> QED BY <2>6, <3>5
  <2> QED BY <2>5, <2>6
<1>10. q \in Receivers
  <2>1. SymDiff(r.x3, bld) \in Bytes
    BY <1>1, <1>2 DEF SymDiff, Bytes
  <2>2. Append(r.buf, SymDiff(r.x3, bld)) \in Seq(Bytes)
    BY <1>1, <2>1, AppendProperties
  <2>3. (r.n + 1) % 8 \in 0..7 /\ 0..7 \in Bytes /\ r.x3 \ {r.n} \in Bytes /\ StuffedNext(r, line) \in BOOLEAN
    BY <1>1 DEF Bytes, StuffedNext
  <2>4. /\ (IF r.n = 7 THEN 0..7 ELSE IF StuffedNext(r, line) THEN r.x3 \ {r.n} ELSE r.x3) \in Bytes
        /\ (IF r.n = 7 THEN Append(r.buf, SymDiff(r.x3, bld)) ELSE r.buf) \in Seq(Bytes)
        /\ (IF Counts(r) THEN r.cnt - 1 ELSE r.cnt) \in Int
    BY <1>1, <2>2, <2>3
  <2> QED BY <1>2, <1>4, <1>7, <2>3, <2>4 DEF Receivers, q
<1> QED BY <1>1, <1>5, <1>6, <1>7, <1>8, <1>9, <1>10 DEF q, bld, line, BitTaken

-----------------------------------------------------------------------------
(* The inductive invariant *)

LinkTypeOK ==
    /\ packet \in Seq(Bytes) /\ packet # <<>>
    /\ place \in [byte : Nat, bit : 0..7] /\ place.byte <= Len(packet) + 1
    /\ ended \in BOOLEAN
    /\ tx \in Senders /\ rx \in Receivers
    /\ ones \in 0..6
    /\ place.byte > Len(packet) => place.bit = 0
    /\ ended => place.byte > Len(packet)

Received == place.byte - 1

\* The bits of the byte under way, as far as they have come: x3 has a zero where shift was corrected.
Decoded ==
    \A j \in 0..7 : IF j < place.bit THEN (j \in rx.x3) # (j \in rx.shift) <=> j \in packet[place.byte]
                                    ELSE j \in rx.x3

TxInv ==
    /\ place # [byte |-> 0, bit |-> 0] => TxOnes(tx, ones % 6)
    /\ place.byte = 0 => ones = 0
    /\ StuffsByTheStandard

RxInv ==
    /\ rx.state = "sync" <=> place.byte = 0
    /\ rx.state = "sync" => rx.buf = <<>>
    /\ rx.state = "receiving" =>
          /\ ~ended /\ ~rx.stuffed
          /\ rx.last = tx.level /\ rx.n = place.bit
          /\ RxOnes(rx, ones % 6)
          /\ Decoded
          /\ rx.buf = SubSeq(packet, 1, Received)
          /\ rx.cnt = IF Received = 0 THEN USB_BUFSIZE
                      ELSE USB_BUFSIZE + 1 - Received - (IF rx.n > 3 THEN 1 ELSE 0)
          /\ rx.cnt >= 1
    /\ rx.state = "se0" => ended /\ rx.buf = packet /\ Len(packet) <= USB_BUFSIZE
    /\ rx.state = "overflow" => Len(packet) > USB_BUFSIZE /\ Len(rx.buf) <= USB_BUFSIZE

LinkInv == LinkTypeOK /\ TxInv /\ RxInv

LEMMA LinkStart == ASSUME Payloads \subseteq Seq(Bytes) \ {<<>>} PROVE LinkInit => LinkInv
<1> SUFFICES ASSUME LinkInit PROVE LinkInv
  OBVIOUS
<1>1. rx = [state |-> "sync", n |-> 0, stuffed |-> FALSE, last |-> "J",
            shift |-> {}, x3 |-> 0..7, cnt |-> USB_BUFSIZE, buf |-> <<>>]
  BY DEF LinkInit, RxStart
<1>2. rx \in Receivers
  BY <1>1 DEF Receivers, Levels, Bytes, USB_BUFSIZE
<1>3. tx \in Senders /\ tx.out = <<>>
  BY DEF LinkInit, Senders, Levels
<1>4. packet \in Seq(Bytes) /\ packet # <<>> /\ place = [byte |-> 0, bit |-> 0] /\ ended = FALSE /\ ones = 0
  BY DEF LinkInit
<1>5. LinkTypeOK
  <2>1. Len(packet) \in Nat
    BY <1>4
  <2>2. /\ place.byte = 0 /\ place.bit = 0 /\ place \in [byte : Nat, bit : 0..7]
    BY <1>4
  <2>3. place.byte <= Len(packet) + 1 /\ ~(place.byte > Len(packet))
    BY <2>1, <2>2
  <2>4. ended \in BOOLEAN /\ ~ended
    BY <1>4, Zenon
  <2>5. ones \in 0..6
    BY <1>4
  <2> QED BY <1>2, <1>3, <1>4, <2>2, <2>3, <2>4, <2>5 DEF LinkTypeOK
<1>6. TxInv /\ RxInv
  BY <1>1, <1>3, <1>4 DEF TxInv, RxInv, StuffsByTheStandard
<1> QED BY <1>5, <1>6 DEF LinkInv

\* The run of ones that USB counts is the one before the last stuffed bit or behind it.
LEMMA OnesNext ==
    ASSUME ones \in 0..6, NEW bit \in BOOLEAN
    PROVE  LET n == ones % 6
               next == IF bit THEN n + 1 ELSE 0
           IN  /\ n \in 0..5 /\ next \in 0..6
               /\ next = 6 <=> bit /\ n = 5
               /\ next % 6 = IF bit /\ n < 5 THEN n + 1 ELSE 0
OBVIOUS

LEMMA SendBitPlace ==
    ASSUME LinkInv, SendBit
    PROVE  /\ place' \in [byte : Nat, bit : 0..7] /\ place'.byte <= Len(packet) + 1
           /\ place'.byte > Len(packet) => place'.bit = 0
           /\ place'.byte = IF place.bit = 7 THEN place.byte + 1 ELSE place.byte
           /\ place'.bit = IF place.bit = 7 THEN 0 ELSE place.bit + 1
           /\ packet' = packet /\ ended' = ended /\ ~ended
           /\ place.byte \in 0..Len(packet) /\ place.bit \in 0..7 /\ packet \in Seq(Bytes) /\ Len(packet) \in Nat
BY DEF LinkInv, LinkTypeOK, SendBit

\* A bit at the sender.
LEMMA SendBitTx ==
    ASSUME LinkInv, SendBit
    PROVE  LET level == IF Bit THEN tx.level ELSE Toggle(tx.level)
           IN  /\ tx' \in Senders /\ ones' \in 0..6 /\ TxInv'
               /\ IF ones' = 6 THEN tx'.out = <<level, Toggle(level)>> /\ tx'.level = Toggle(level)
                               ELSE tx'.out = <<level>> /\ tx'.level = level
<1> DEFINE level == IF Bit THEN tx.level ELSE Toggle(tx.level)
           t == [tx EXCEPT !.out = <<>>]
           n == ones % 6
<1>1. /\ t.level = tx.level /\ t.x2 = tx.x2 /\ t.out = <<>>
      /\ tx.level \in Levels /\ tx.x2 \in Bytes /\ ones \in 0..6
  BY DEF LinkInv, LinkTypeOK, Senders
<1>2. Bit \in BOOLEAN /\ n \in 0..5
  BY <1>1 DEF Bit
<1>3. Bit => TxOnes(t, n)
  <2>1. Bit => place # [byte |-> 0, bit |-> 0]
    BY DEF Bit
  <2> QED BY <1>1, <2>1 DEF LinkInv, TxInv, TxOnes
<1>4. tx' = TxBit(t, Bit) /\ ones' = IF Bit THEN n + 1 ELSE 0
  BY DEF SendBit
<1>5. /\ tx'.x2 \in Bytes /\ TxOnes(tx', ones' % 6)
      /\ IF ones' = 6 THEN tx'.out = <<level, Toggle(level)>> /\ tx'.level = Toggle(level)
                      ELSE tx'.out = <<level>> /\ tx'.level = level
  <2> HIDE DEF t, level
  <2> QED BY <1>1, <1>2, <1>3, <1>4, TxBitIs DEF level
<1>6. level \in Levels /\ Toggle(level) \in Levels
  BY <1>1 DEF Levels, Toggle
<1>7. ones' \in 0..6
  BY <1>2, <1>4
<1>8. tx' \in Senders
  <2>1. tx' = [level |-> tx'.level, x2 |-> tx'.x2, out |-> tx'.out]
    BY <1>4 DEF TxBit
  <2>2. tx'.out \in Seq(Levels) /\ tx'.level \in Levels
    <3>1. <<level, Toggle(level)>> \in Seq(Levels) /\ <<level>> \in Seq(Levels)
      BY <1>6
    <3>2. CASE ones' = 6
      BY <1>5, <1>6, <3>1, <3>2
    <3>3. CASE ones' # 6
      BY <1>5, <1>6, <3>1, <3>3
    <3> QED BY <3>2, <3>3
  <2> QED BY <1>5, <2>1, <2>2 DEF Senders
<1>9. Len(tx'.out) = 2 <=> ones' = 6
  BY <1>5
<1>10. place'.byte = 0 => ones' = 0
  <2>1. ASSUME place'.byte = 0 PROVE place.byte = 0 /\ place.bit # 7
    BY <2>1, SendBitPlace
  <2> QED BY <1>4, <2>1 DEF Bit
<1> QED BY <1>5, <1>7, <1>8, <1>9, <1>10 DEF TxInv, StuffsByTheStandard

\* A bit at the receiver, with the level that stuffing has added.
LEMMA HeardBit ==
    ASSUME LinkInv, SendBit, place.byte > 0, rx.state = "receiving", ~(Counts(rx) /\ rx.cnt = 1)
    PROVE  LET q == RxBit(rx, Line(rx, Bit))
           IN  rx' = IF ones' = 6 THEN [q EXCEPT !.stuffed = FALSE, !.last = tx'.level] ELSE q
<1> DEFINE line == Line(rx, Bit)
           q == RxBit(rx, line)
<1>1. rx' = Heard(tx'.out)
  BY DEF SendBit
<1>2. rx.last = tx.level /\ ~rx.stuffed
  BY DEF LinkInv, RxInv
<1>3. IF ones' = 6 THEN tx'.out = <<line, Toggle(line)>> /\ tx'.level = Toggle(line)
                   ELSE tx'.out = <<line>> /\ tx'.level = line
  BY <1>2, SendBitTx DEF Line
<1>4. RxStep(rx, line) = q
  BY <1>2 DEF RxStep
<1>5. CASE ones' # 6
  BY <1>1, <1>3, <1>4, <1>5 DEF Heard
<1>6. CASE ones' = 6
  <2>1. rx' = RxStep(q, Toggle(line))
    BY <1>1, <1>3, <1>4, <1>6 DEF Heard
  <2>2. q.state = "receiving" /\ q.stuffed
    <3>1. /\ Bit \in BOOLEAN /\ ones % 6 \in 0..5 /\ (ones' = 6 <=> Bit /\ ones % 6 = 5)
      BY OnesNext DEF LinkInv, LinkTypeOK, SendBit, Bit
    <3>2. rx \in Receivers /\ RxOnes(rx, ones % 6) /\ rx.last \in Levels
      BY DEF LinkInv, LinkTypeOK, RxInv, Senders
    <3>3. q.state = rx.state /\ (q.stuffed <=> Bit /\ ones % 6 = 5)
      <4>1. BitTaken(rx, Bit, ones % 6, q)
        BY <3>1, <3>2, RxBitIs
      <4> HIDE DEF q, line
      <4> QED BY <4>1 DEF BitTaken
    <3> QED BY <1>6, <3>1, <3>3
  <2>3. Toggle(line) # "SE0"
    BY DEF Toggle
  <2> QED BY <1>3, <1>6, <2>1, <2>2, <2>3 DEF RxStep, RxStuffed
<1> QED BY <1>5, <1>6

LEMMA SymDiffIs ==
    ASSUME NEW a \in Bytes, NEW b \in Bytes, NEW c \in Bytes,
           \A j \in 0..7 : (j \in a) # (j \in b) <=> j \in c
    PROVE  SymDiff(a, b) = c
<1>1. \A j \in SymDiff(a, b) : j \in c
  BY DEF SymDiff, Bytes
<1>2. \A j \in c : j \in SymDiff(a, b)
  BY DEF SymDiff, Bytes
<1> QED BY <1>1, <1>2

LEMMA Grown ==
    ASSUME NEW s \in Seq(Bytes), NEW n \in 1..Len(s)
    PROVE  SubSeq(s, 1, n) = Append(SubSeq(s, 1, n - 1), s[n])
<1>1. SubSeq(s, 1, n) = SubSeq(s, 1, n - 1) \o <<s[n]>>
  BY SubSeqRecursiveSecond
<1>2. SubSeq(s, 1, n - 1) \in Seq(Bytes) /\ s[n] \in Bytes
  OBVIOUS
<1> QED BY <1>1, <1>2, AppendIsConcat

LEMMA SendBitRx ==
    ASSUME LinkInv, SendBit, place.byte > 0, rx.state = "receiving"
    PROVE  rx' \in Receivers /\ RxInv'
<1> DEFINE line == Line(rx, Bit)
           full == Bit /\ ones % 6 = 5
           bld == Bld(rx, line)
           q == RxBit(rx, line)
<1>1. /\ Bit \in BOOLEAN /\ ones % 6 \in 0..5 /\ (ones' = 6 <=> full)
      /\ ones' % 6 = IF Bit /\ ones % 6 < 5 THEN (ones % 6) + 1 ELSE 0
  BY OnesNext DEF LinkInv, LinkTypeOK, SendBit, Bit
<1>2. /\ rx \in Receivers /\ RxOnes(rx, ones % 6) /\ rx.last \in Levels
      /\ rx.n \in 0..7 /\ rx.cnt \in Int /\ rx.n = place.bit
      /\ rx.buf = SubSeq(packet, 1, Received) /\ Decoded
      /\ rx.cnt >= 1 /\ rx.cnt = IF Received = 0 THEN USB_BUFSIZE
                      ELSE USB_BUFSIZE + 1 - Received - (IF rx.n > 3 THEN 1 ELSE 0)
  BY DEF LinkInv, LinkTypeOK, RxInv, Receivers, Senders
<1>3. /\ packet \in Seq(Bytes) /\ Len(packet) \in Nat /\ place.byte \in 1..Len(packet) /\ place.bit \in 0..7
      /\ packet' = packet /\ ~ended /\ ~ended'
      /\ place'.byte = IF place.bit = 7 THEN place.byte + 1 ELSE place.byte
      /\ place'.bit = IF place.bit = 7 THEN 0 ELSE place.bit + 1
  BY SendBitPlace
<1>4. Received \in Nat /\ Len(rx.buf) = Received /\ (rx.buf = <<>> <=> Received = 0)
  <2>1. Received \in 0..Len(packet)
    BY <1>3 DEF Received
  <2>2. SubSeq(packet, 1, Received) \in Seq(Bytes) /\ Len(SubSeq(packet, 1, Received)) = Received
    BY <1>3, <2>1
  <2>3. rx.buf \in Seq(Bytes) /\ Len(rx.buf) = Received
    BY <1>2, <2>2
  <2>4. rx.buf = <<>> <=> Len(rx.buf) = 0
    BY <2>3, EmptySeq
  <2> QED BY <2>1, <2>3, <2>4
<1>5. CASE Counts(rx) /\ rx.cnt = 1
  <2> DEFINE r == [rx EXCEPT !.state = "overflow"]
  <2>1. Received = USB_BUFSIZE /\ Len(packet) > USB_BUFSIZE /\ Len(rx.buf) <= USB_BUFSIZE
    <3>1. rx.n = 3 /\ rx.cnt = 1 /\ Received # 0
      BY <1>4, <1>5 DEF Counts
    <3>2. Received = 11
      BY <1>2, <1>4, <3>1 DEF USB_BUFSIZE
    <3>3. place.byte = 12
      BY <1>3, <3>2 DEF Received
    <3> QED BY <1>3, <1>4, <3>2, <3>3 DEF USB_BUFSIZE
  <2>2. RxStep(rx, line) = r
    BY <1>2, <1>5 DEF RxStep, RxBit, Counts, LinkInv, RxInv
  <2>3. rx' = r
    <3>1. rx' = Heard(tx'.out)
      BY DEF SendBit
    <3>2. tx'.out[1] = line
      BY SendBitTx DEF Line, LinkInv, RxInv
    <3>3. \A l : RxStep(r, l) = r
      BY <1>2 DEF RxStep, Receivers
    <3> QED BY <2>2, <3>1, <3>2, <3>3 DEF Heard
  <2>4. r \in Receivers /\ r.state = "overflow" /\ r.buf = rx.buf
    BY <1>2 DEF Receivers
  <2>5. place'.byte # 0
    BY <1>3
  <2> QED BY <1>3, <2>1, <2>3, <2>4, <2>5 DEF RxInv
<1>6. CASE ~(Counts(rx) /\ rx.cnt = 1)
  <2>1. /\ q.state = "receiving" /\ q.last = line
        /\ q.n = place'.bit
        /\ q.cnt = IF Counts(rx) THEN rx.cnt - 1 ELSE rx.cnt
        /\ q.buf = IF rx.n = 7 THEN Append(rx.buf, SymDiff(rx.x3, bld)) ELSE rx.buf
        /\ q.x3 = IF rx.n = 7 THEN 0..7 ELSE IF full THEN rx.x3 \ {rx.n} ELSE rx.x3
        /\ q \in Receivers
        /\ \A j \in 0..7 : j < rx.n => (j \in q.shift <=> j \in rx.shift)
        /\ rx.n \in q.shift <=> ~Bit \/ full
        /\ RxOnes(q, ones' % 6)
        /\ q.stuffed <=> full
    <3>1. BitTaken(rx, Bit, ones % 6, q)
      BY <1>1, <1>2, <1>6, RxBitIs
    <3> HIDE DEF q, bld, line
    <3> QED BY <1>1, <1>2, <1>3, <3>1 DEF BitTaken, bld, line
  <2>2. rx' = IF ones' = 6 THEN [q EXCEPT !.stuffed = FALSE, !.last = tx'.level] ELSE q
    BY <1>6, HeardBit
  <2>3. /\ rx' \in Receivers /\ rx'.state = "receiving" /\ ~rx'.stuffed /\ rx'.last = tx'.level
        /\ rx'.n = q.n /\ rx'.cnt = q.cnt /\ rx'.buf = q.buf /\ rx'.x3 = q.x3 /\ rx'.shift = q.shift
    <3>1. q = [state |-> q.state, n |-> q.n, stuffed |-> q.stuffed, last |-> q.last, shift |-> q.shift,
               x3 |-> q.x3, cnt |-> q.cnt, buf |-> q.buf]
      BY <2>1 DEF Receivers
    <3>2. tx'.level \in Levels /\ (ones' # 6 => tx'.level = line)
      BY SendBitTx, <1>2 DEF Senders, Line, LinkInv, RxInv
    <3> QED BY <1>1, <2>1, <2>2, <3>1, <3>2 DEF Receivers
  <2>4. RxOnes(rx', ones' % 6)
    BY <2>1, <2>3 DEF RxOnes
  <2>5. rx'.cnt = (IF Received' = 0 THEN USB_BUFSIZE
                      ELSE USB_BUFSIZE + 1 - Received' - (IF rx'.n > 3 THEN 1 ELSE 0))
        /\ rx'.cnt >= 1
    <3>1. Received' = IF rx.n = 7 THEN Received + 1 ELSE Received
      BY <1>2, <1>3 DEF Received
    <3>2. rx'.n = IF rx.n = 7 THEN 0 ELSE rx.n + 1
      BY <1>2, <1>3, <2>1, <2>3
    <3>3. Counts(rx) <=> rx.n = 3 /\ Received # 0
      BY <1>4 DEF Counts
    <3>4. rx'.cnt = IF rx.n = 3 /\ Received # 0 THEN rx.cnt - 1 ELSE rx.cnt
      BY <2>1, <2>3, <3>3
    <3>5. rx.n = 3 /\ Received # 0 => rx.cnt > 1
      BY <1>2, <1>6, <3>3
    <3>6. CASE Received = 0
      BY <1>2, <3>1, <3>2, <3>4, <3>6 DEF USB_BUFSIZE
    <3>7. CASE Received # 0
      BY <1>2, <1>4, <3>1, <3>2, <3>4, <3>5, <3>7 DEF USB_BUFSIZE
    <3> QED BY <3>6, <3>7
  <2>6. Decoded'
    <3>1. CASE rx.n = 7
      BY <1>2, <1>3, <2>1, <2>3, <3>1 DEF Decoded
    <3>2. CASE rx.n # 7
      <4>1. /\ place'.bit = rx.n + 1 /\ place'.byte = place.byte
            /\ rx'.x3 = IF full THEN rx.x3 \ {rx.n} ELSE rx.x3
            /\ \A j \in 0..7 : j < rx.n => (j \in rx'.shift <=> j \in rx.shift)
            /\ rx.n \in rx'.shift <=> ~Bit \/ full
        BY <1>2, <1>3, <2>1, <2>3, <3>2
      <4>2. \A j \in 0..7 : IF j < rx.n THEN (j \in rx.x3) # (j \in rx.shift) <=> j \in packet[place.byte]
                                         ELSE j \in rx.x3
        BY <1>2 DEF Decoded
      <4>3. Bit <=> rx.n \in packet[place.byte]
        BY <1>2, <1>3 DEF Bit
      <4>4. full => Bit
        OBVIOUS
      <4> HIDE DEF full
      <4>5. ASSUME NEW j \in 0..7
            PROVE  IF j < place'.bit THEN (j \in rx'.x3) # (j \in rx'.shift) <=> j \in packet[place.byte]
                                     ELSE j \in rx'.x3
        <5>1. CASE j < rx.n
          <6>1. (j \in rx'.x3 <=> j \in rx.x3) /\ (j \in rx'.shift <=> j \in rx.shift)
            BY <1>2, <4>1, <5>1
          <6> QED BY <1>2, <4>1, <4>2, <5>1, <6>1
        <5>2. CASE j = rx.n
          <6>1. (j \in rx'.x3 <=> ~full) /\ (j \in rx'.shift <=> ~Bit \/ full)
            BY <1>2, <4>1, <4>2, <5>2
          <6> QED BY <1>2, <4>1, <4>3, <4>4, <5>2, <6>1
        <5>3. CASE j > rx.n
          <6>1. j \in rx.x3
            BY <1>2, <4>2, <5>3
          <6> QED BY <1>2, <4>1, <5>3, <6>1
        <5> QED BY <1>2, <5>1, <5>2, <5>3
      <4> QED BY <1>3, <4>1, <4>5 DEF Decoded
    <3> QED BY <3>1, <3>2
  <2>7. rx'.buf = SubSeq(packet', 1, Received')
    <3>1. Received' = IF rx.n = 7 THEN Received + 1 ELSE Received
      BY <1>2, <1>3 DEF Received
    <3>2. CASE rx.n # 7
      BY <1>2, <1>3, <2>1, <2>3, <3>1, <3>2
    <3>3. CASE rx.n = 7
      <4> DEFINE last == packet[place.byte]
      <4>1. last \in Bytes
        BY <1>3
      <4>2. bld \in Bytes /\ \A j \in 0..7 : j \in bld <=> IF j = 7 THEN ~Bit ELSE j \in rx.shift
        BY <1>1, <1>2, <3>3, BldIs DEF Line
      <4>3. \A j \in 0..7 : IF j < 7 THEN (j \in rx.x3) # (j \in rx.shift) <=> j \in last
                                      ELSE j \in rx.x3
        BY <1>2, <3>3 DEF Decoded
      <4>4. Bit <=> 7 \in last
        BY <1>2, <1>3, <3>3 DEF Bit
      <4>5. rx.x3 \in Bytes
        BY <1>2 DEF Receivers
      <4> HIDE DEF bld, last
      <4>6. \A j \in 0..7 : (j \in rx.x3) # (j \in bld) <=> j \in last
        BY <4>2, <4>3, <4>4
      <4>7. SymDiff(rx.x3, bld) = last
        BY <4>1, <4>2, <4>5, <4>6, SymDiffIs
      <4>8. rx'.buf = Append(SubSeq(packet, 1, Received), last)
        BY <1>2, <2>1, <2>3, <3>3, <4>7
      <4>9. Received' = place.byte /\ Received = place.byte - 1
        BY <1>3, <3>1, <3>3 DEF Received
      <4>10. SubSeq(packet, 1, place.byte) = Append(SubSeq(packet, 1, place.byte - 1), last)
        BY <1>3, Grown DEF last
      <4>11. SubSeq(packet', 1, Received') = SubSeq(packet, 1, place.byte)
        BY <1>3, <4>9
      <4>12. SubSeq(packet, 1, Received) = SubSeq(packet, 1, place.byte - 1)
        BY <4>9
      <4> QED BY <4>8, <4>10, <4>11, <4>12
    <3> QED BY <3>2, <3>3
  <2>8. rx'.n = place'.bit /\ place'.byte # 0
    BY <1>3, <2>1, <2>3
  <2> HIDE DEF q
  <2> QED BY <1>3, <2>3, <2>4, <2>5, <2>6, <2>7, <2>8 DEF RxInv
<1> QED BY <1>5, <1>6

\* The bits of the sync byte: behind the last of them the receiver starts.
LEMMA SendSyncRx ==
    ASSUME LinkInv, SendBit, place.byte = 0
    PROVE  rx' \in Receivers /\ RxInv'
<1>1. /\ packet \in Seq(Bytes) /\ Len(packet) \in Nat /\ place.bit \in 0..7
      /\ packet' = packet /\ ~ended /\ ~ended'
      /\ place'.byte = IF place.bit = 7 THEN 1 ELSE 0
      /\ place'.bit = IF place.bit = 7 THEN 0 ELSE place.bit + 1
  BY SendBitPlace
<1>2. rx \in Receivers /\ rx.state = "sync" /\ rx.buf = <<>>
  BY DEF LinkInv, LinkTypeOK, RxInv
<1>3. CASE place.bit # 7
  <2>1. rx' = rx
    BY <1>3 DEF SendBit
  <2> QED BY <1>1, <1>2, <1>3, <2>1 DEF RxInv
<1>4. CASE place.bit = 7
  <2>1. rx' = RxStart(tx'.level)
    BY <1>4 DEF SendBit
  <2>2. tx'.level \in Levels
    BY SendBitTx DEF Senders
  <2>3. /\ rx'.state = "receiving" /\ rx'.n = 0 /\ ~rx'.stuffed /\ rx'.last = tx'.level
        /\ rx'.shift = {} /\ rx'.x3 = 0..7 /\ rx'.cnt = 11 /\ rx'.buf = <<>> /\ rx' \in Receivers
    BY <2>1, <2>2 DEF RxStart, Receivers, Bytes, USB_BUFSIZE
  <2>4. ones' = 1
    <3>1. ones = 0
      BY <1>4 DEF LinkInv, TxInv
    <3> QED BY <1>4, <3>1 DEF SendBit, Bit
  <2>5. RxOnes(rx', ones' % 6)
    BY <2>3, <2>4 DEF RxOnes, Ago
  <2>6. Received' = 0
    BY <1>1, <1>4 DEF Received
  <2>7. Decoded'
    BY <1>1, <1>4, <2>3 DEF Decoded
  <2>8. SubSeq(packet', 1, Received') = <<>>
    BY <2>6, SubSeqEmpty
  <2> QED BY <1>1, <1>4, <2>3, <2>5, <2>6, <2>7, <2>8 DEF RxInv, USB_BUFSIZE
<1> QED BY <1>3, <1>4

\* A receiver that has given up stays there.
LEMMA SendDroppedRx ==
    ASSUME LinkInv, SendBit, rx.state = "overflow"
    PROVE  rx' \in Receivers /\ RxInv'
<1>1. /\ packet' = packet /\ ~ended /\ ~ended'
      /\ place'.byte = (IF place.bit = 7 THEN place.byte + 1 ELSE place.byte) /\ place.byte \in Nat
  BY SendBitPlace
<1>2. place.byte # 0
  BY DEF LinkInv, RxInv
<1>3. \A l : RxStep(rx, l) = rx
  BY DEF RxStep
<1>4. rx' = rx
  BY <1>1, <1>2, <1>3 DEF SendBit, Heard
<1>5. place'.byte # 0
  BY <1>1, <1>2
<1> QED BY <1>1, <1>4, <1>5 DEF LinkInv, LinkTypeOK, RxInv

LEMMA SendBitKeeps == LinkInv /\ SendBit => LinkInv'
<1> SUFFICES ASSUME LinkInv, SendBit PROVE LinkInv'
  OBVIOUS
<1>1. rx' \in Receivers /\ RxInv'
  <2>1. place.byte \in Nat /\ ~ended
    BY SendBitPlace
  <2>2. rx.state \in {"sync", "receiving", "se0", "overflow"} /\ rx.state # "se0"
    BY <2>1 DEF LinkInv, LinkTypeOK, RxInv, Receivers
  <2>3. rx.state = "sync" <=> place.byte = 0
    BY DEF LinkInv, RxInv
  <2> QED BY <2>1, <2>2, <2>3, SendBitRx, SendSyncRx, SendDroppedRx
<1>2. tx' \in Senders /\ ones' \in 0..6 /\ TxInv'
  BY SendBitTx
<1>3. LinkTypeOK'
  <2>1. /\ place' \in [byte : Nat, bit : 0..7] /\ place'.byte <= Len(packet) + 1
        /\ place'.byte > Len(packet) => place'.bit = 0
        /\ packet' = packet /\ packet \in Seq(Bytes) /\ packet # <<>> /\ ended' = ended /\ ~ended
    BY SendBitPlace DEF LinkInv, LinkTypeOK
  <2>2. ended' \in BOOLEAN /\ ~ended'
    BY <2>1, Zenon DEF LinkInv, LinkTypeOK
  <2> QED BY <1>1, <1>2, <2>1, <2>2 DEF LinkTypeOK
<1> QED BY <1>1, <1>2, <1>3 DEF LinkInv

\* The end of the packet finds it complete, or more of it than the buffer holds.
LEMMA SendEopKeeps == LinkInv /\ SendEop => LinkInv'
<1> SUFFICES ASSUME LinkInv, SendEop PROVE LinkInv'
  OBVIOUS
<1>1. /\ packet \in Seq(Bytes) /\ Len(packet) \in Nat /\ place.byte = Len(packet) + 1 /\ place.bit = 0
      /\ ones \in 0..6 /\ rx \in Receivers
  BY DEF LinkInv, LinkTypeOK, SendEop
<1>2. packet' = packet /\ place' = place /\ tx' = tx /\ ones' = ones /\ ended' = TRUE /\ ~ended
  BY DEF SendEop
<1>3. PICK eop \in Eop : rx' = Heard(eop)
  BY DEF SendEop
<1>4. Len(eop) = 2 /\ eop[1] \in {"SE0", "J", "K"} /\ eop[2] = "SE0"
  BY DEF Eop
<1>5. rx' = RxStep(RxStep(rx, eop[1]), eop[2])
  BY <1>3, <1>4 DEF Heard
<1>6. CASE rx.state = "receiving"
  <2> DEFINE q == RxBit(rx, eop[1])
  <2>1. /\ rx.n = 0 /\ ~rx.stuffed /\ rx.buf = packet
        /\ rx.cnt = IF Received = 0 THEN 11 ELSE 12 - Received
        /\ rx.cnt >= 1
    <3>1. Received = Len(packet)
      BY <1>1 DEF Received
    <3>2. SubSeq(packet, 1, Received) = packet
      BY <1>1, <3>1, SubSeqFull
    <3>3. rx.n = place.bit /\ ~rx.stuffed /\ rx.buf = SubSeq(packet, 1, Received)
      BY <1>6 DEF LinkInv, RxInv
    <3>4. rx.cnt >= 1 /\ rx.cnt = IF Received = 0 THEN USB_BUFSIZE
                      ELSE USB_BUFSIZE + 1 - Received - (IF rx.n > 3 THEN 1 ELSE 0)
      BY <1>6 DEF LinkInv, RxInv
    <3>5. rx.n = 0
      BY <1>1, <3>3
    <3>6. rx.cnt = IF Received = 0 THEN 11 ELSE 12 - Received
      BY <1>1, <3>1, <3>4, <3>5 DEF USB_BUFSIZE
    <3> QED BY <3>2, <3>3, <3>4, <3>5, <3>6
  <2>2. Len(packet) <= 11
    BY <1>1, <2>1 DEF Received, Receivers
  <2>3. q = [rx EXCEPT !.n = (rx.n + 1) % 8, !.last = eop[1],
                       !.shift = Shift(rx, eop[1]), !.stuffed = StuffedNext(rx, eop[1]),
                       !.cnt = IF Counts(rx) THEN rx.cnt - 1 ELSE rx.cnt,
                       !.x3 = IF rx.n = 7 THEN 0..7 ELSE IF StuffedNext(rx, eop[1]) THEN rx.x3 \ {rx.n} ELSE rx.x3,
                       !.buf = IF rx.n = 7 THEN Append(rx.buf, SymDiff(rx.x3, Bld(rx, eop[1]))) ELSE rx.buf]
    BY <2>1 DEF RxBit, Counts
  <2>4. q.state = "receiving" /\ q.n = 1 /\ q.buf = packet /\ (q.stuffed <=> StuffedNext(rx, eop[1]))
    <3> HIDE DEF q
    <3> QED BY <1>1, <1>6, <2>1, <2>3 DEF Receivers
  <2>5. RxStep(rx, eop[1]) = q
    BY <1>6, <2>1 DEF RxStep
  <2>6. rx' = [q EXCEPT !.state = "se0"]
    <3>1. RxStep(q, "SE0") = [q EXCEPT !.state = "se0"]
      <4> HIDE DEF q
      <4>1. q.state = "receiving" /\ q.n = 1 /\ q.buf # <<>>
        BY <2>4 DEF LinkInv, LinkTypeOK
      <4>2. Looks(q) /\ ~Counts(q)
        BY <4>1 DEF Looks, Counts
      <4> QED BY <4>1, <4>2 DEF RxStep, RxStuffed, RxBit
    <3> QED BY <1>4, <1>5, <2>5, <3>1
  <2>7. q \in Receivers
    <3>1. rx.n = 0 /\ rx.shift \in Bytes /\ eop[1] \in Levels \cup {"SE0"}
      BY <1>1, <1>4, <2>1 DEF Receivers, Levels
    <3>2. Bld(rx, eop[1]) \in Bytes
      BY <3>1 DEF Bld, Bytes
    <3>3. Shift(rx, eop[1]) \in Bytes
      BY <3>1, <3>2 DEF Shift, Bytes
    <3>4. StuffedNext(rx, eop[1]) \in BOOLEAN
      BY DEF StuffedNext
    <3>5. (rx.n + 1) % 8 = 1 /\ rx.n # 7 /\ ~Counts(rx)
      BY <3>1 DEF Counts
    <3>6. (IF rx.n = 7 THEN 0..7 ELSE IF StuffedNext(rx, eop[1]) THEN rx.x3 \ {rx.n} ELSE rx.x3) \in Bytes
      BY <1>1, <3>5 DEF Receivers, Bytes
    <3>7. /\ (IF rx.n = 7 THEN Append(rx.buf, SymDiff(rx.x3, Bld(rx, eop[1]))) ELSE rx.buf) \in Seq(Bytes)
          /\ (IF Counts(rx) THEN rx.cnt - 1 ELSE rx.cnt) \in Int
          /\ (rx.n + 1) % 8 \in 0..7
      BY <1>1, <3>5 DEF Receivers
    <3> HIDE DEF q
    <3> QED BY <1>1, <2>3, <3>1, <3>3, <3>4, <3>6, <3>7 DEF Receivers
  <2>8. rx' \in Receivers /\ rx'.state = "se0" /\ rx'.buf = packet
    <3> HIDE DEF q
    <3> QED BY <2>4, <2>6, <2>7 DEF Receivers
  <2>9. LinkTypeOK' /\ TxInv'
    BY <1>1, <1>2, <2>8 DEF LinkInv, LinkTypeOK, TxInv, StuffsByTheStandard
  <2>10. RxInv'
    BY <1>1, <1>2, <2>2, <2>8 DEF RxInv, USB_BUFSIZE
  <2> QED BY <2>9, <2>10 DEF LinkInv
<1>7. CASE rx.state = "overflow"
  <2>1. rx' = rx
    BY <1>5, <1>7 DEF RxStep
  <2> QED BY <1>1, <1>2, <1>7, <2>1 DEF LinkInv, LinkTypeOK, TxInv, RxInv, StuffsByTheStandard
<1>8. rx.state \in {"receiving", "overflow"}
  BY <1>1, <1>2 DEF LinkInv, RxInv, Receivers
<1> QED BY <1>6, <1>7, <1>8

LEMMA LinkInvariant ==
    ASSUME Payloads \subseteq Seq(Bytes) \ {<<>>}
    PROVE  LinkSpec => []LinkInv
<1>1. LinkInit => LinkInv
  BY LinkStart
<1>2. LinkInv /\ [LinkNext]_linkVars => LinkInv'
  <2>1. LinkInv /\ UNCHANGED linkVars => LinkInv'
    BY DEF linkVars, LinkInv, LinkTypeOK, TxInv, RxInv, StuffsByTheStandard, Decoded, Received
  <2> QED BY <2>1, SendBitKeeps, SendEopKeeps DEF LinkNext
<1> QED BY <1>1, <1>2, PTL DEF LinkSpec

-----------------------------------------------------------------------------

\* txLoop puts a zero behind six ones in a row, wherever in a byte they begin, and nowhere else.
THEOREM SenderStuffs ==
    ASSUME Payloads \subseteq Seq(Bytes) \ {<<>>}
    PROVE  LinkSpec => []StuffsByTheStandard
<1>1. LinkInv => StuffsByTheStandard
  BY DEF LinkInv, TxInv
<1> QED BY <1>1, LinkInvariant, PTL

\* rxLoop puts together the bytes that usbSendAndReti took apart.
THEOREM PacketsArrive ==
    ASSUME Payloads \subseteq Seq(Bytes) \ {<<>>}
    PROVE  LinkSpec => []ReceivedAsSent
<1>1. LinkInv => ReceivedAsSent
  <2> SUFFICES ASSUME LinkInv PROVE ReceivedAsSent
    OBVIOUS
  <2>1. rx.state = "receiving" => ~ended /\ rx.buf = SubSeq(packet, 1, place.byte - 1)
    BY DEF LinkInv, RxInv, Received
  <2>2. ended => rx.state \in {"se0", "overflow"}
    BY <2>1 DEF LinkInv, LinkTypeOK, RxInv, Receivers
  <2>3. /\ rx.state = "se0" => rx.buf = packet /\ Len(packet) <= USB_BUFSIZE
        /\ rx.state = "overflow" => Len(packet) > USB_BUFSIZE
        /\ Len(packet) \in Nat
    BY DEF LinkInv, LinkTypeOK, RxInv
  <2> QED BY <2>1, <2>2, <2>3 DEF ReceivedAsSent, USB_BUFSIZE
<1> QED BY <1>1, LinkInvariant, PTL

\* The overflow check comes in time for a packet of any length.
THEOREM NothingBehindTheBuffer ==
    ASSUME Payloads \subseteq Seq(Bytes) \ {<<>>}
    PROVE  LinkSpec => []StaysWithinBuffer
<1>1. LinkInv => StaysWithinBuffer
  <2> SUFFICES ASSUME LinkInv PROVE Len(rx.buf) <= USB_BUFSIZE
    BY DEF StaysWithinBuffer
  <2>1. CASE rx.state = "receiving"
    <3>1. /\ rx.buf = SubSeq(packet, 1, Received) /\ rx.cnt >= 1
          /\ rx.cnt = IF Received = 0 THEN USB_BUFSIZE
                      ELSE USB_BUFSIZE + 1 - Received - (IF rx.n > 3 THEN 1 ELSE 0)
      BY <2>1 DEF LinkInv, RxInv
    <3>2. place.byte \in 1..Len(packet) + 1 /\ packet \in Seq(Bytes) /\ Len(packet) \in Nat
      BY <2>1 DEF LinkInv, LinkTypeOK, RxInv
    <3>3. Received \in 0..Len(packet)
      BY <3>2 DEF Received
    <3>4. Len(rx.buf) = Received
      BY <3>1, <3>2, <3>3
    <3>5. Received <= USB_BUFSIZE
      BY <3>1, <3>3 DEF USB_BUFSIZE
    <3> QED BY <3>4, <3>5
  <2>2. CASE rx.state # "receiving"
    <3>1. /\ rx.state = "sync" => rx.buf = <<>>
          /\ rx.state = "se0" => rx.buf = packet /\ Len(packet) <= USB_BUFSIZE
          /\ rx.state = "overflow" => Len(rx.buf) <= USB_BUFSIZE
      BY DEF LinkInv, RxInv
    <3>2. rx.state \in {"sync", "se0", "overflow"}
      BY <2>2 DEF LinkInv, LinkTypeOK, Receivers
    <3>3. Len(<<>>) <= USB_BUFSIZE
      BY DEF USB_BUFSIZE
    <3> QED BY <3>1, <3>2, <3>3
  <2> QED BY <2>1, <2>2
<1> QED BY <1>1, LinkInvariant, PTL

=============================================================================
