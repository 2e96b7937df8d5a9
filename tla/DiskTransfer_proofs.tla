----------------------- MODULE DiskTransfer_proofs -----------------------
(***************************************************************************)
(* The disk electronics, for every set of bytes, ticks, control words and  *)
(* counts.  Every action is a composition of operators on the record,      *)
(* closed by refresh_interrupt_sources; so the proof shows that each       *)
(* operator keeps Stable, and that Refresh turns a stable record into one  *)
(* that satisfies all the invariants.                                      *)
(* Before it comes the 8253's channel by itself: its counts keep their     *)
(* range and are exact, for every base of the digits and every count.      *)
(*                                                                         *)
(* Then the transfer: what each operator does to the fields, and an        *)
(* invariant that says where every byte of the field is, for every length  *)
(* of the fields and of the track.                                         *)
(***************************************************************************)
EXTENDS DiskTransfer, Pit8253Channel, Ppi8255Lemmas, FiniteSetTheorems, TLAPS

(* What the operations of an 8253 channel preserve, for every base of the  *)
(* digits it counts in.                                                    *)

(* The ranges a count has are positive numbers. *)
LEMMA Bases == ByteBase \in Nat \ {0} /\ WordBase \in Nat \ {0} /\ DecimalWord \in Nat \ {0}
<1>1. NibbleBase \in Nat \ {0} /\ DecimalBase \in Nat \ {0} BY PitAssumption
<1>2. \A a, b \in Nat \ {0} : a * b \in Nat \ {0} OBVIOUS
<1>3. ByteBase \in Nat \ {0} BY <1>1, <1>2 DEF ByteBase
<1>4. WordBase \in Nat \ {0} BY <1>2, <1>3 DEF WordBase
<1>5. DecimalWord \in Nat \ {0}
  <2>1. DecimalBase * DecimalBase \in Nat \ {0} BY <1>1, <1>2
  <2>2. DecimalBase * DecimalBase * DecimalBase \in Nat \ {0} BY <1>1, <1>2, <2>1
  <2> QED BY <1>1, <1>2, <2>2 DEF DecimalWord
<1> QED BY <1>3, <1>4, <1>5

(* decode never yields an empty count. *)
LEMMA DecodeType ==
  ASSUME NEW raw \in Nat, NEW bcd \in BOOLEAN
  PROVE  DecodeCount(raw, bcd) \in Nat \ {0}
<1>1. CASE ~bcd BY <1>1, Bases DEF DecodeCount
<1>2. CASE bcd
  <2>1. \A n \in 0 .. 3 : Nibble(raw, n) \in Nat
    <3>1. \A a \in Nat, b \in Nat \ {0} : a \div b \in Nat /\ a % b \in Nat OBVIOUS
    <3>2. NibbleBase \in Nat \ {0} /\ ByteBase \in Nat \ {0} BY PitAssumption, Bases
    <3>3. ByteBase * NibbleBase \in Nat \ {0} BY <3>2
    <3>4. /\ raw % NibbleBase \in Nat
          /\ (raw \div NibbleBase) % NibbleBase \in Nat
          /\ (raw \div ByteBase) % NibbleBase \in Nat
          /\ (raw \div (ByteBase * NibbleBase)) % NibbleBase \in Nat
      BY <3>1, <3>2, <3>3
    <3> QED BY <3>4 DEF Nibble
  <2>2. DecimalBase \in Nat BY PitAssumption
  <2>3. \A a, b \in Nat : a + DecimalBase * b \in Nat BY <2>2
  <2> DEFINE high == Nibble(raw, 2) + DecimalBase * Nibble(raw, 3)
             middle == Nibble(raw, 1) + DecimalBase * high
             value == Nibble(raw, 0) + DecimalBase * middle
  <2>4. value \in Nat
    <3>1. /\ Nibble(raw, 0) \in Nat /\ Nibble(raw, 1) \in Nat
          /\ Nibble(raw, 2) \in Nat /\ Nibble(raw, 3) \in Nat
      BY <2>1
    <3>2. high \in Nat BY <2>3, <3>1, Zenon
    <3>3. middle \in Nat BY <2>3, <3>1, <3>2, Zenon
    <3> QED BY <2>3, <3>1, <3>3, Zenon
  <2>5. DecodeCount(raw, bcd) = IF value = 0 THEN DecimalWord ELSE value
    BY <1>2 DEF DecodeCount
  <2> QED BY <2>4, <2>5, Bases
<1> QED BY <1>1, <1>2

----------------------------------------------------------------------------
(* Every operation keeps the type of a channel. *)

(* Loading a count gives a channel that counts down from it. *)
LEMMA LoadType ==
  ASSUME NEW ch \in Channel, NEW raw \in Nat
  PROVE  Load(ch, raw) \in Channel
<1>1. DecodeCount(raw, ch.bcd) \in Nat BY DecodeType DEF Channel
<1> DEFINE count == DecodeCount(raw, ch.bcd)
           half == IF ch.mode = 3 THEN HighPhase(count) ELSE ch.phase
<1> HIDE DEF count
<1>2. count \in Nat BY <1>1 DEF count
<1>3. half \in Nat BY <1>2 DEF HighPhase, Channel
<1> HIDE DEF half
<1>4. [ch EXCEPT !.reload = count, !.current = count, !.loaded = TRUE, !.strobeLow = FALSE,
                 !.phaseHigh = TRUE, !.output = ch.mode # 0,
                 !.running = ch.mode \notin {1, 5} /\ ch.gate, !.phase = half] \in Channel
  BY <1>2, <1>3, ZenonT(60) DEF Channel
<1> QED BY <1>4 DEF Load, count, half

(* A byte to the count register, with or without a load. *)
LEMMA WriteChannelType ==
  ASSUME NEW ch \in Channel, NEW v \in Nat
  PROVE  WriteChannel(ch, v) \in Channel
<1>1. ByteBase * v \in Nat /\ ByteBase * v + ch.pendingLow \in Nat
  <2>1. ByteBase \in Nat /\ ch.pendingLow \in Nat BY Bases DEF Channel
  <2>2. ByteBase * v \in Nat BY <2>1
  <2> QED BY <2>1, <2>2
<1>2. [ch EXCEPT !.writeLow = TRUE] \in Channel BY DEF Channel
<1>3. [ch EXCEPT !.pendingLow = v, !.writeLow = FALSE] \in Channel BY DEF Channel
<1>4. ch.access \in Access /\ ch.writeLow \in BOOLEAN BY DEF Channel
<1> HIDE DEF ByteBase
<1> QED BY <1>1, <1>2, <1>3, <1>4, LoadType DEF WriteChannel, Access

(* A control word; modes 6 and 7 are 2 and 3. *)
LEMMA ConfigureType ==
  ASSUME NEW ch \in Channel, NEW access \in Access, NEW mode \in 0 .. 7, NEW bcd \in BOOLEAN
  PROVE  Configure(ch, access, mode, bcd) \in Channel
<1>1. ResetChannel \in Channel BY DEF ResetChannel, Channel, Access
<1>2. (CASE mode = 6 -> 2 [] mode = 7 -> 3 [] OTHER -> mode) \in 0 .. 5 OBVIOUS
<1> DEFINE m == CASE mode = 6 -> 2 [] mode = 7 -> 3 [] OTHER -> mode
<1> HIDE DEF m
<1>3. [ResetChannel EXCEPT !.access = access, !.mode = m, !.bcd = bcd, !.gate = ch.gate,
                           !.output = mode # 0, !.latchedValue = ch.latchedValue] \in Channel
  <2>1. m \in 0 .. 5 BY <1>2 DEF m
  <2> QED BY <1>1, <2>1, ZenonT(60) DEF Channel
<1> QED BY <1>3 DEF Configure, m

(* An edge or a level of GATE. *)
LEMMA SetGateType ==
  ASSUME NEW ch \in Channel, NEW high \in BOOLEAN
  PROVE  SetGate(ch, high) \in Channel
<1>1. \A n \in Nat : HighPhase(n) \in Nat BY DEF HighPhase
<1>2. [ch EXCEPT !.gate = high] \in Channel BY DEF Channel
<1>3. Trigger([ch EXCEPT !.gate = high]) \in Channel BY <1>2, ZenonT(60) DEF Trigger, Channel
<1>4. [ch EXCEPT !.gate = high, !.running = ch.loaded /\ high /\ ~ch.strobeLow] \in Channel
  BY DEF Channel
<1>5. [ch EXCEPT !.gate = high, !.running = FALSE, !.output = TRUE] \in Channel BY DEF Channel
<1>6. [ch EXCEPT !.gate = high, !.current = ch.reload, !.phaseHigh = TRUE,
                 !.phase = IF ch.mode = 3 THEN HighPhase(ch.reload) ELSE 0,
                 !.output = TRUE, !.running = TRUE] \in Channel
  BY <1>1 DEF Channel
<1> QED BY <1>2, <1>3, <1>4, <1>5, <1>6 DEF SetGate

(* A clock in every mode. *)
LEMMA ClockOnceType ==
  ASSUME NEW ch \in Channel
  PROVE  ClockOnce(ch) \in Channel
<1>1. CountDown(ch) \in Channel BY DEF CountDown, Channel
<1>2. ToTerminalCount(ch) \in Channel BY <1>1, ZenonT(60) DEF ToTerminalCount, Channel
<1>3. DivideByN(ch) \in Channel BY <1>1 DEF DivideByN, Channel
<1>4. SquareWave(ch) \in Channel
  <2>1. \A n \in Nat : HighPhase(n) \in Nat /\ n \div 2 \in Nat BY DEF HighPhase
  <2> DEFINE half == IF ch.output THEN ch.reload \div 2 ELSE HighPhase(ch.reload)
  <2>2. half \in Nat BY <2>1 DEF Channel
  <2> HIDE DEF half
  <2>3. [ch EXCEPT !.output = ~@, !.phaseHigh = ~ch.output,
                   !.phase = IF half = 0 THEN 1 ELSE half] \in Channel
    BY <2>2, ZenonT(60) DEF Channel
  <2>4. ch.phase > 1 => [ch EXCEPT !.phase = @ - 1] \in Channel BY DEF Channel
  <2> QED BY <2>3, <2>4 DEF SquareWave, half
<1>5. Strobe(ch) \in Channel
  <2>1. /\ [ch EXCEPT !.output = TRUE, !.strobeLow = FALSE, !.running = FALSE] \in Channel
        /\ [ch EXCEPT !.current = 0, !.output = FALSE, !.strobeLow = TRUE] \in Channel
    BY DEF Channel
  <2> QED BY <1>1, <2>1 DEF Strobe
<1>6. ch.mode \in 0 .. 5 BY DEF Channel
<1> QED BY <1>2, <1>3, <1>4, <1>5, <1>6 DEF ClockOnce

----------------------------------------------------------------------------
(* The channel under every operation: its counts stay in their range.      *)

(* A low digit and a high part. *)
LEMMA Digits ==
  ASSUME NEW n \in Nat \ {0}, NEW m \in Nat, NEW x \in Nat, NEW y \in Nat, x < n, y < m
  PROVE  x + n * y \in Nat /\ x + n * y < n * m
<1>1. n * y <= n * (m - 1)
  <2>1. \A a, b, c \in Nat : a <= b => c * a <= c * b
    OBVIOUS
  <2> QED BY <2>1
<1>2. n * (m - 1) = n * m - n
  OBVIOUS
<1>3. n * y \in Nat /\ n * m \in Nat
  OBVIOUS
<1> QED BY <1>1, <1>2, <1>3

(* Four digits are a word, in any base that a nibble holds.                *)
LEMMA FourDigits ==
  ASSUME NEW base \in 1 .. NibbleBase, NEW a \in Nat, NEW b \in Nat, NEW c \in Nat, NEW d \in Nat,
         a < NibbleBase, b < NibbleBase, c < NibbleBase, d < NibbleBase
  PROVE  LET value == a + base * (b + base * (c + base * d))
         IN value \in Nat /\ value < WordBase
<1> DEFINE N == NibbleBase
<1>1. N \in Nat \ {0} /\ base \in Nat
  BY PitAssumption
<1>2. WordBase = N * (N * (N * N)) /\ WordBase \in Nat
  BY <1>1, Bases DEF WordBase, ByteBase
<1> HIDE DEF N
<1>3. ASSUME NEW x \in Nat, x < N, NEW y \in Nat, NEW m \in Nat, y < m
      PROVE  x + base * y \in Nat /\ x + base * y < N * m
  <2>1. x + N * y < N * m
    BY <1>1, <1>3, Digits
  <2>2. base * y <= N * y
    <3>1. \A p, q, r \in Nat : p <= q => p * r <= q * r
      OBVIOUS
    <3>2. base <= N
      BY DEF N
    <3> QED BY <1>1, <1>3, <3>1, <3>2
  <2>3. base * y \in Nat /\ N * y \in Nat /\ N * m \in Nat
    BY <1>1, <1>3
  <2> QED BY <2>1, <2>2, <2>3, <1>3
<1> DEFINE v1 == c + base * d
           v2 == b + base * v1
           v3 == a + base * v2
<1>4. a < N /\ b < N /\ c < N /\ d < N
  BY DEF N
<1>5. N \in Nat /\ N * N \in Nat /\ N * (N * N) \in Nat
  BY <1>1
<1>6. v1 \in Nat /\ v1 < N * N
  BY <1>3, <1>4, <1>5
<1> HIDE DEF v1
<1>7. v2 \in Nat /\ v2 < N * (N * N)
  BY <1>3, <1>4, <1>5, <1>6
<1> HIDE DEF v2
<1>8. v3 \in Nat /\ v3 < N * (N * (N * N))
  BY <1>3, <1>4, <1>5, <1>7
<1> QED BY <1>2, <1>8 DEF v1, v2, v3

LEMMA Remainders ==
  ASSUME NEW x \in Nat, NEW n \in Nat \ {0}
  PROVE  x \div n \in Nat /\ x % n \in Nat /\ x % n < n
OBVIOUS

(* decode never exceeds the range of a word, ...                           *)
LEMMA DecodeRange ==
  ASSUME NEW raw \in Nat, raw < WordBase, NEW bcd \in BOOLEAN
  PROVE  DecodeCount(raw, bcd) \in 1 .. WordBase
<1>1. DecodeCount(raw, bcd) \in Nat \ {0} /\ WordBase \in Nat
  BY DecodeType, Bases
<1>2. NibbleBase \in Nat \ {0} /\ DecimalBase \in 1 .. NibbleBase
      /\ DecimalBase \in Nat /\ ByteBase \in Nat \ {0}
  BY PitAssumption, Bases
<1>3. CASE ~bcd
  <2>1. DecodeCount(raw, bcd) = IF raw = 0 THEN WordBase ELSE raw
    BY <1>3 DEF DecodeCount
  <2> QED BY <1>1, <2>1
<1>4. CASE bcd
  <2>1. \A k \in 0 .. 3 : Nibble(raw, k) \in Nat /\ Nibble(raw, k) < NibbleBase
    <3>1. ByteBase * NibbleBase \in Nat \ {0}
      BY <1>2
    <3>2. \A x \in Nat : x % NibbleBase \in Nat /\ x % NibbleBase < NibbleBase
      BY <1>2, Remainders
    <3>3. /\ raw \div NibbleBase \in Nat /\ raw \div ByteBase \in Nat
          /\ raw \div (ByteBase * NibbleBase) \in Nat
      BY <1>2, <3>1, Remainders
    <3>4. /\ Nibble(raw, 0) = raw % NibbleBase
          /\ Nibble(raw, 1) = (raw \div NibbleBase) % NibbleBase
          /\ Nibble(raw, 2) = (raw \div ByteBase) % NibbleBase
          /\ Nibble(raw, 3) = (raw \div (ByteBase * NibbleBase)) % NibbleBase
      BY DEF Nibble
    <3>5. \A k \in 0 .. 3 : k = 0 \/ k = 1 \/ k = 2 \/ k = 3
      OBVIOUS
    <3> QED BY <3>2, <3>3, <3>4, <3>5
  <2> DEFINE a == Nibble(raw, 0)
             b == Nibble(raw, 1)
             c == Nibble(raw, 2)
             d == Nibble(raw, 3)
             value == a + DecimalBase * (b + DecimalBase * (c + DecimalBase * d))
  <2>2. /\ a \in Nat /\ a < NibbleBase /\ b \in Nat /\ b < NibbleBase
        /\ c \in Nat /\ c < NibbleBase /\ d \in Nat /\ d < NibbleBase
    BY <2>1
  <2>3. DecodeCount(raw, bcd) = IF value = 0 THEN DecimalWord ELSE value
    BY <1>4 DEF DecodeCount
  <2>4. DecimalWord < WordBase \/ DecimalWord = WordBase
    <3>1. \A p, q, r, s \in Nat : p <= q /\ r <= s => p * r <= q * s
      <4>1. \A p, q, r \in Nat : p <= q => p * r <= q * r /\ r * p <= r * q
        OBVIOUS
      <4>2. ASSUME NEW p \in Nat, NEW q \in Nat, NEW r \in Nat, NEW s \in Nat, p <= q, r <= s
            PROVE  p * r <= q * s
        <5>1. p * r <= q * r /\ q * r <= q * s
          BY <4>1, <4>2
        <5>2. p * r \in Nat /\ q * r \in Nat /\ q * s \in Nat
          OBVIOUS
        <5> QED BY <5>1, <5>2
      <4> QED BY <4>2
    <3> DEFINE dd == DecimalBase * DecimalBase
    <3>2. dd <= ByteBase /\ dd \in Nat
      BY <1>2, <3>1 DEF ByteBase
    <3>3. DecimalWord = dd * dd
      BY <1>2 DEF DecimalWord
    <3> HIDE DEF dd
    <3>4. dd * dd <= ByteBase * ByteBase
      BY <1>2, <3>1, <3>2
    <3> QED BY <1>1, <3>2, <3>3, <3>4 DEF WordBase
  <2> HIDE DEF a, b, c, d
  <2>5. value \in Nat /\ value < WordBase
    BY <1>2, <2>2, FourDigits
  <2> HIDE DEF value
  <2> QED BY <1>1, <2>3, <2>4, <2>5, Bases
<1> QED BY <1>3, <1>4

(* ... and neither does a count as it is read.                             *)
LEMMA EncodeRange ==
  ASSUME NEW value \in Nat, NEW bcd \in BOOLEAN
  PROVE  EncodeCount(value, bcd) \in Nat /\ EncodeCount(value, bcd) < WordBase
<1>1. NibbleBase \in Nat \ {0} /\ DecimalBase \in Nat \ {0} /\ DecimalBase <= NibbleBase
  BY PitAssumption
<1>2. CASE ~bcd
  BY <1>2, Bases, Remainders DEF EncodeCount
<1>3. CASE bcd
  <2> DEFINE digit(weight) == (value \div weight) % DecimalBase
             a == digit(1)
             b == digit(DecimalBase)
             c == digit(DecimalBase * DecimalBase)
             d == digit(DecimalBase * DecimalBase * DecimalBase)
  <2>1. \A w \in Nat \ {0} : digit(w) \in Nat /\ digit(w) < NibbleBase
    <3> SUFFICES ASSUME NEW w \in Nat \ {0} PROVE digit(w) \in Nat /\ digit(w) < NibbleBase
      OBVIOUS
    <3>1. value \div w \in Nat
      BY Remainders
    <3>2. digit(w) \in Nat /\ digit(w) < DecimalBase
      BY <1>1, <3>1, Remainders
    <3> HIDE DEF digit
    <3> QED BY <1>1, <3>2
  <2>2. DecimalBase * DecimalBase \in Nat \ {0}
        /\ DecimalBase * DecimalBase * DecimalBase \in Nat \ {0}
    <3>1. \A x, y \in Nat \ {0} : x * y \in Nat \ {0}
      OBVIOUS
    <3> QED BY <1>1, <3>1
  <2>3. EncodeCount(value, bcd)
          = a + NibbleBase * b + ByteBase * c + ByteBase * NibbleBase * d
    BY <1>3 DEF EncodeCount
  <2>4. /\ a \in Nat /\ a < NibbleBase /\ b \in Nat /\ b < NibbleBase
        /\ c \in Nat /\ c < NibbleBase /\ d \in Nat /\ d < NibbleBase
    BY <1>1, <2>1, <2>2
  <2> HIDE DEF a, b, c, d
  <2>5. a + NibbleBase * b + ByteBase * c + ByteBase * NibbleBase * d
          = a + NibbleBase * (b + NibbleBase * (c + NibbleBase * d))
    BY <1>1, <2>4 DEF ByteBase
  <2>6. NibbleBase \in 1 .. NibbleBase
    BY <1>1
  <2> DEFINE horner == a + NibbleBase * (b + NibbleBase * (c + NibbleBase * d))
  <2>7. horner \in Nat /\ horner < WordBase
    BY <2>4, <2>6, FourDigits
  <2>8. EncodeCount(value, bcd) = horner
    BY <2>3, <2>5
  <2> HIDE DEF horner
  <2> QED BY <2>7, <2>8
<1> QED BY <1>2, <1>3

(* What the type says of a channel, and what it says beyond the record.    *)
InRange(ch) ==
  /\ ch \in Channel
  /\ ch.pendingLow < ByteBase /\ ch.latchedValue < WordBase
  /\ ch.loaded =>
       /\ ch.reload \in 1 .. WordBase
       /\ ch.current \in 0 .. ch.reload
       /\ ch.mode = 3 => ch.phase \in 1 .. HighPhase(ch.reload)
  /\ ch.running => ch.loaded

(* What remains of a count is what has not been counted of it, ...         *)
Remaining(ch, n) ==
  /\ \/ ch.mode \in {0, 1} /\ ch.loaded /\ ~ch.output
     \/ ch.mode = 5 /\ ch.running /\ ~ch.strobeLow
  => ch.current >= 1 /\ n + ch.current = ch.reload
(* ... and of a period, what has not passed since OUT rose.                *)
Periodic(ch, a) ==
  ch.mode \in {2, 3} /\ ch.running =>
    /\ ch.mode = 2 => ch.current >= 1 /\ (~ch.output => ch.current = ch.reload)
    /\ a >= 0 /\ ch.reload > 1 =>
         /\ ch.mode = 2 =>
              IF ch.output THEN a + ch.current = ch.reload - 1 ELSE a = ch.reload - 1
         /\ ch.mode = 3 =>
              a + ch.phase = (IF ch.output THEN HighPhase(ch.reload) ELSE ch.reload)

LEMMA Halves ==
  ASSUME NEW n \in Nat \ {0}
  PROVE  /\ HighPhase(n) \in 1 .. n /\ n \div 2 \in Nat
         /\ HighPhase(n) + (n \div 2) = n
         /\ n \div 2 <= HighPhase(n)
         /\ n > 1 => n \div 2 >= 1
BY DEF HighPhase

LEMMA VisibleRange ==
  ASSUME NEW ch, InRange(ch)
  PROVE  VisibleCount(ch) \in Nat /\ VisibleCount(ch) < WordBase
<1>1. ch.current \in Nat /\ ch.phase \in Nat /\ ch.bcd \in BOOLEAN
  BY DEF InRange, Channel
<1> DEFINE twice == 2 * ch.phase
           shown == IF ch.phaseHigh /\ ch.reload % 2 # 0 /\ twice # 0 THEN twice - 1 ELSE twice
<1>2. shown \in Nat
  BY <1>1
<1>3. VisibleCount(ch) = EncodeCount(IF ch.mode # 3 THEN ch.current ELSE shown, ch.bcd)
  BY DEF VisibleCount
<1> HIDE DEF shown
<1>4. (IF ch.mode # 3 THEN ch.current ELSE shown) \in Nat
  BY <1>1, <1>2
<1> QED BY <1>1, <1>3, <1>4, EncodeRange

(* The fields that a load, a mode, a gate and a clock set.                 *)
LEMMA LoadInRange ==
  ASSUME NEW ch, InRange(ch), NEW raw \in Nat, raw < WordBase
  PROVE  /\ InRange(Load(ch, raw))
         /\ Remaining(Load(ch, raw), 0) /\ Periodic(Load(ch, raw), -1)
<1> DEFINE count == DecodeCount(raw, ch.bcd)
           l == Load(ch, raw)
<1>0. ch \in Channel /\ ch.bcd \in BOOLEAN
  BY DEF InRange, Channel
<1>1. count \in 1 .. WordBase /\ WordBase \in Nat
  BY <1>0, DecodeRange, Bases
<1>2. /\ l.reload = count /\ l.current = count /\ l.loaded /\ ~l.strobeLow
      /\ l.output = (ch.mode # 0) /\ l.running = (ch.mode \notin {1, 5} /\ ch.gate)
      /\ l.mode = ch.mode /\ (ch.mode = 3 => l.phase = HighPhase(count))
      /\ l.pendingLow = ch.pendingLow /\ l.latchedValue = ch.latchedValue
  BY <1>0 DEF Load, Channel
<1>3. l \in Channel
  BY <1>0, LoadType
<1> HIDE DEF count, l
<1>4. HighPhase(count) \in 1 .. count /\ count \in Nat
  BY <1>1, Halves
<1>5. InRange(l)
  BY <1>1, <1>2, <1>3, <1>4 DEF InRange
<1>6. Remaining(l, 0)
  BY <1>1, <1>2, <1>4 DEF Remaining
<1>7. Periodic(l, -1)
  BY <1>1, <1>2, <1>4 DEF Periodic
<1> QED BY <1>5, <1>6, <1>7 DEF l

SameCount(ch, v) ==
  /\ v.mode = ch.mode /\ v.loaded = ch.loaded /\ v.running = ch.running
  /\ v.output = ch.output /\ v.strobeLow = ch.strobeLow
  /\ v.reload = ch.reload /\ v.current = ch.current /\ v.phase = ch.phase

LEMMA SameCountKept ==
  ASSUME NEW ch, NEW v \in Channel, SameCount(ch, v), InRange(ch),
         v.pendingLow < ByteBase, v.latchedValue < WordBase
  PROVE  /\ InRange(v)
         /\ \A n, a : (Remaining(ch, n) => Remaining(v, n)) /\ (Periodic(ch, a) => Periodic(v, a))
BY DEF SameCount, InRange, Remaining, Periodic

LEMMA ConfigureInRange ==
  ASSUME NEW ch, InRange(ch), NEW access \in Access, NEW mode \in 0 .. 7, NEW bcd \in BOOLEAN
  PROVE  LET v == Configure(ch, access, mode, bcd)
         IN InRange(v) /\ Remaining(v, 0) /\ Periodic(v, -1) /\ ~v.latched
<1> DEFINE v == Configure(ch, access, mode, bcd)
<1>1. ch \in Channel /\ ch.latchedValue < WordBase
  BY DEF InRange
<1>2. v \in Channel
  BY <1>1, ConfigureType
<1>3. /\ ~v.loaded /\ ~v.running /\ ~v.latched /\ v.pendingLow = 0
      /\ v.latchedValue = ch.latchedValue
  BY DEF Configure, ResetChannel
<1> HIDE DEF v
<1>4. InRange(v)
  BY <1>1, <1>2, <1>3, Bases DEF InRange
<1> QED BY <1>3, <1>4 DEF Remaining, Periodic, v

(* The first byte of two waits; the last one loads the count.              *)
LEMMA WriteInRange ==
  ASSUME NEW ch, InRange(ch), NEW v \in 0 .. ByteBase - 1, NEW n, NEW a,
         Remaining(ch, n), Periodic(ch, a)
  PROVE  LET w == WriteChannel(ch, v)
         IN /\ InRange(w) /\ w.latched = ch.latched /\ w.latchedValue = ch.latchedValue
            /\ IF ch.access = "lsb_msb" /\ ch.writeLow
               THEN Remaining(w, n) /\ Periodic(w, a)
               ELSE Remaining(w, 0) /\ Periodic(w, -1)
<1> DEFINE w == WriteChannel(ch, v)
           opened == [ch EXCEPT !.writeLow = TRUE]
<1>0. /\ ch \in Channel /\ ch.access \in Access /\ ch.pendingLow \in Nat
      /\ ch.pendingLow < ByteBase /\ v \in Nat /\ v < ByteBase /\ ByteBase \in Nat \ {0}
  BY Bases DEF InRange, Channel
<1>1. /\ ByteBase * v \in Nat /\ ByteBase * v < WordBase
      /\ ByteBase * v + ch.pendingLow \in Nat /\ ByteBase * v + ch.pendingLow < WordBase
      /\ v < WordBase
  <2>1. \A low \in Nat : low < ByteBase =>
          low + ByteBase * v \in Nat /\ low + ByteBase * v < ByteBase * ByteBase
    BY <1>0, Digits
  <2>2. 0 + ByteBase * v = ByteBase * v /\ ByteBase * v \in Nat
        /\ ch.pendingLow + ByteBase * v = ByteBase * v + ch.pendingLow
    BY <1>0
  <2>3. 0 \in Nat /\ 0 < ByteBase
    BY <1>0
  <2>4. ByteBase <= ByteBase * ByteBase
    <3>1. \A x \in Nat \ {0} : x <= x * x
      OBVIOUS
    <3> QED BY <1>0, <3>1
  <2>5. ByteBase * ByteBase = WordBase /\ WordBase \in Nat
    BY Bases DEF WordBase
  <2>6. v < WordBase
    BY <1>0, <2>4, <2>5
  <2>7. ByteBase * v < WordBase /\ ByteBase * v \in Nat
    BY <2>1, <2>2, <2>3, <2>5
  <2>8. ByteBase * v + ch.pendingLow \in Nat /\ ByteBase * v + ch.pendingLow < WordBase
    BY <1>0, <2>1, <2>2, <2>5
  <2> QED BY <2>6, <2>7, <2>8
<1>2. opened \in Channel /\ SameCount(ch, opened)
      /\ opened.pendingLow = ch.pendingLow /\ opened.latchedValue = ch.latchedValue
      /\ opened.latched = ch.latched
  BY <1>0 DEF Channel, SameCount
<1>3. InRange(opened)
  BY <1>2, SameCountKept DEF InRange
<1>4. \A c, raw : Load(c, raw).latched = c.latched /\ Load(c, raw).latchedValue = c.latchedValue
  BY DEF Load
<1>5. CASE ch.access = "lsb_msb" /\ ch.writeLow
  <2>1. w = [ch EXCEPT !.pendingLow = v, !.writeLow = FALSE]
    BY <1>5 DEF WriteChannel
  <2>2. w \in Channel
    BY <1>0, WriteChannelType
  <2>3. /\ SameCount(ch, w) /\ w.pendingLow = v /\ w.latchedValue = ch.latchedValue
        /\ w.latched = ch.latched
    BY <1>0, <2>1 DEF SameCount, Channel
  <2> HIDE DEF w
  <2>4. InRange(w) /\ Remaining(w, n) /\ Periodic(w, a)
    BY <1>0, <2>2, <2>3, SameCountKept DEF InRange
  <2> QED BY <1>5, <2>3, <2>4 DEF w
<1>6. CASE ~(ch.access = "lsb_msb" /\ ch.writeLow)
  <2>1. \/ w = Load(ch, v) \/ w = Load(ch, ByteBase * v)
        \/ w = Load(opened, ByteBase * v + ch.pendingLow)
    BY <1>0, <1>6 DEF WriteChannel, Access
  <2>2. ASSUME NEW c, InRange(c), c.latched = ch.latched, c.latchedValue = ch.latchedValue,
               NEW raw \in Nat, raw < WordBase, w = Load(c, raw)
        PROVE  /\ InRange(w) /\ w.latched = ch.latched /\ w.latchedValue = ch.latchedValue
               /\ Remaining(w, 0) /\ Periodic(w, -1)
    <3> HIDE DEF w
    <3> QED BY <2>2, <1>4, LoadInRange
  <2> HIDE DEF w, opened
  <2>3. /\ InRange(w) /\ w.latched = ch.latched /\ w.latchedValue = ch.latchedValue
        /\ Remaining(w, 0) /\ Periodic(w, -1)
    BY <1>0, <1>1, <1>2, <1>3, <2>1, <2>2
  <2> QED BY <1>6, <2>3 DEF w
<1> QED BY <1>5, <1>6

(* An edge of GATE stops the count, goes on with it or starts it again.    *)
Restarts(ch, high) ==
  \/ ~ch.gate /\ high /\ ch.mode \in {1, 2, 3, 5}
  \/ ch.gate /\ ~high /\ ch.mode \in {2, 3}

LEMMA GateInRange ==
  ASSUME NEW ch, InRange(ch), NEW high \in BOOLEAN, NEW n, NEW a,
         Remaining(ch, n), Periodic(ch, a)
  PROVE  LET g == SetGate(ch, high)
         IN /\ InRange(g) /\ g.latched = ch.latched /\ g.latchedValue = ch.latchedValue
            /\ IF Restarts(ch, high) THEN Remaining(g, 0) /\ Periodic(g, -1)
               ELSE Remaining(g, n) /\ Periodic(g, a)
<1> DEFINE g == SetGate(ch, high)
           moved == [ch EXCEPT !.gate = high]
<1>0. /\ ch \in Channel /\ ch.mode \in 0 .. 5 /\ ch.gate \in BOOLEAN
  BY DEF InRange, Channel
<1>1. g \in Channel
  BY <1>0, SetGateType
<1>2. /\ g.latched = ch.latched /\ g.latchedValue = ch.latchedValue
      /\ g.pendingLow = ch.pendingLow /\ g.mode = ch.mode /\ g.loaded = ch.loaded
      /\ g.reload = ch.reload
  BY <1>0 DEF SetGate, Trigger, Channel
<1>3. CASE ch.mode \in {0, 4}
  <2>1. g = [moved EXCEPT !.running = ch.loaded /\ high /\ ~ch.strobeLow]
    BY <1>3 DEF SetGate
  <2>2. /\ g.running => ch.loaded
        /\ g.current = ch.current /\ g.output = ch.output
    BY <1>0, <2>1 DEF Channel
  <2> HIDE DEF g
  <2>3. InRange(g) /\ Remaining(g, n) /\ Periodic(g, a)
    BY <1>1, <1>2, <1>3, <2>2 DEF InRange, Remaining, Periodic
  <2> QED BY <1>2, <1>3, <2>3 DEF Restarts, g
<1>4. CASE ch.mode \in {1, 5} /\ ~ch.gate /\ high /\ ch.loaded
  <2>1. g = Trigger(moved)
    BY <1>4 DEF SetGate
  <2>2. /\ g.running /\ ~g.strobeLow /\ g.current = ch.reload
        /\ g.output = (ch.mode # 1)
    BY <1>0, <2>1 DEF Trigger, Channel
  <2> HIDE DEF g
  <2>3. ch.reload \in 1 .. WordBase /\ WordBase \in Nat
    BY <1>4, Bases DEF InRange
  <2>4. InRange(g) /\ Remaining(g, 0) /\ Periodic(g, -1)
    BY <1>1, <1>2, <1>4, <2>2, <2>3 DEF InRange, Remaining, Periodic
  <2> QED BY <1>2, <1>4, <2>4 DEF Restarts, g
<1>5. CASE ch.mode \in {2, 3} /\ ch.gate /\ ~high
  <2>1. g = [moved EXCEPT !.running = FALSE, !.output = TRUE]
    BY <1>5 DEF SetGate
  <2>2. ~g.running /\ g.current = ch.current /\ g.phase = ch.phase
    BY <1>0, <2>1 DEF Channel
  <2> HIDE DEF g
  <2>3. InRange(g) /\ Remaining(g, 0) /\ Periodic(g, -1)
    BY <1>1, <1>2, <1>5, <2>2 DEF InRange, Remaining, Periodic
  <2> QED BY <1>2, <1>5, <2>3 DEF Restarts, g
<1>6. CASE ch.mode \in {2, 3} /\ ~ch.gate /\ high /\ ch.loaded
  <2>1. g = [moved EXCEPT !.current = ch.reload, !.phaseHigh = TRUE,
                      !.phase = IF ch.mode = 3 THEN HighPhase(ch.reload) ELSE 0,
                      !.output = TRUE, !.running = TRUE]
    BY <1>6 DEF SetGate
  <2>2. /\ g.running /\ g.current = ch.reload
        /\ ch.mode = 3 => g.phase = HighPhase(ch.reload)
    BY <1>0, <2>1 DEF Channel
  <2> HIDE DEF g
  <2>3. ch.reload \in 1 .. WordBase /\ WordBase \in Nat
    BY <1>6, Bases DEF InRange
  <2>4. HighPhase(ch.reload) \in 1 .. HighPhase(ch.reload)
    BY <2>3, Halves
  <2>5. InRange(g) /\ Remaining(g, 0) /\ Periodic(g, -1)
    BY <1>1, <1>2, <1>6, <2>2, <2>3, <2>4 DEF InRange, Remaining, Periodic
  <2> QED BY <1>2, <1>6, <2>5 DEF Restarts, g
<1>7. CASE /\ ch.mode \notin {0, 4}
           /\ ~(ch.mode \in {1, 5} /\ ~ch.gate /\ high /\ ch.loaded)
           /\ ~(ch.mode \in {2, 3} /\ ch.gate /\ ~high)
           /\ ~(ch.mode \in {2, 3} /\ ~ch.gate /\ high /\ ch.loaded)
  <2>1. g = moved
    BY <1>7 DEF SetGate
  <2>2. SameCount(ch, g)
    BY <1>0, <2>1 DEF SameCount, Channel
  <2> HIDE DEF g
  <2>3. InRange(g) /\ Remaining(g, n) /\ Periodic(g, a)
    BY <1>1, <1>2, <2>2, SameCountKept DEF InRange
  <2>4. Restarts(ch, high) => ~g.loaded /\ ~g.running
    BY <1>2, <1>7, <2>3 DEF Restarts, InRange
  <2>5. Restarts(ch, high) => Remaining(g, 0) /\ Periodic(g, -1)
    BY <2>4 DEF Remaining, Periodic
  <2> QED BY <1>2, <2>3, <2>5 DEF g
<1> QED BY <1>0, <1>3, <1>4, <1>5, <1>6, <1>7

(* A clock of a running channel takes one from what remains; OUT moves as  *)
(* nothing remains.                                                        *)
Ticked(ch, m) == IF ch.running /\ m \in 0 .. WordBase THEN m + 1 ELSE m
AgeAfter(ch, a) == IF ~ch.output /\ ClockOnce(ch).output THEN 0 ELSE Ticked(ch, a)

LEMMA ClockInRange ==
  ASSUME NEW ch, InRange(ch), NEW n \in Nat, NEW a \in Nat \cup {-1},
         Remaining(ch, n), Periodic(ch, a)
  PROVE  LET v == ClockOnce(ch)
         IN /\ InRange(v) /\ v.latched = ch.latched /\ v.latchedValue = ch.latchedValue
            /\ Remaining(v, Ticked(ch, n)) /\ Periodic(v, AgeAfter(ch, a))
            /\ ch.mode \in {0, 1} /\ ~ch.output /\ v.output => Ticked(ch, n) = ch.reload
            /\ ch.mode = 5 /\ ch.output /\ ~v.output => Ticked(ch, n) = ch.reload
            /\ ch.mode \in {2, 3} /\ ~ch.output /\ v.output /\ a >= 0 /\ ch.reload > 1
                 => a + 1 = ch.reload
<1> DEFINE v == ClockOnce(ch)
           Claim == /\ InRange(v)
                    /\ Remaining(v, Ticked(ch, n)) /\ Periodic(v, AgeAfter(ch, a))
                    /\ ch.mode \in {0, 1} /\ ~ch.output /\ v.output => Ticked(ch, n) = ch.reload
                    /\ ch.mode = 5 /\ ch.output /\ ~v.output => Ticked(ch, n) = ch.reload
                    /\ ch.mode \in {2, 3} /\ ~ch.output /\ v.output /\ a >= 0 /\ ch.reload > 1
                         => a + 1 = ch.reload
<1>0. /\ ch \in Channel /\ ch.mode \in 0 .. 5 /\ ch.output \in BOOLEAN /\ ch.current \in Nat
      /\ ch.reload \in Nat /\ ch.phase \in Nat /\ ch.strobeLow \in BOOLEAN
      /\ ch.running \in BOOLEAN /\ WordBase \in Nat /\ ch.loaded \in BOOLEAN
  BY Bases DEF InRange, Channel
<1>1. v \in Channel /\ v.output \in BOOLEAN
  <2>1. v \in Channel
    BY <1>0, ClockOnceType
  <2> HIDE DEF v
  <2> QED BY <2>1 DEF Channel
<1>2. /\ v.latched = ch.latched /\ v.latchedValue = ch.latchedValue
      /\ v.pendingLow = ch.pendingLow /\ v.mode = ch.mode /\ v.loaded = ch.loaded
      /\ v.reload = ch.reload
  BY <1>0 DEF ClockOnce, ToTerminalCount, CountDown, DivideByN, SquareWave, Strobe, Channel
<1>3. CASE ~ch.running \/ ~ch.loaded
  <2>1. v = ch
    BY <1>3 DEF ClockOnce
  <2>2. ~ch.running
    BY <1>3 DEF InRange
  <2>3. Ticked(ch, n) = n /\ AgeAfter(ch, a) = a
    BY <2>1, <2>2 DEF Ticked, AgeAfter
  <2> QED BY <1>2, <2>1, <2>3
<1>4. ASSUME ch.running, ch.loaded PROVE Claim
  <2>0. /\ ch.reload \in 1 .. WordBase /\ ch.current <= ch.reload
        /\ ch.mode = 3 => ch.phase \in 1 .. HighPhase(ch.reload)
    BY <1>4 DEF InRange
  <2>t. /\ n <= WordBase => Ticked(ch, n) = n + 1
        /\ a = -1 => Ticked(ch, a) = -1
        /\ a \in Nat /\ a <= WordBase => Ticked(ch, a) = a + 1
        /\ Ticked(ch, a) \in Nat \cup {-1}
        /\ Ticked(ch, a) >= 0 => a \in Nat
    BY <1>0, <1>4 DEF Ticked
  <2>1. CASE ch.mode \in {0, 1}
    <3>1. v = ToTerminalCount(ch)
      BY <1>4, <2>1 DEF ClockOnce
    <3>2. /\ ch.current > 1 => v.current = ch.current - 1 /\ (v.output <=> ch.output)
          /\ ch.current <= 1 => v.current = 0 /\ v.output
      <4>1. CASE ch.current > 1
        BY <1>0, <3>1, <4>1 DEF ToTerminalCount, CountDown, Channel
      <4>2. CASE ~(ch.current > 1)
        BY <1>0, <3>1, <4>2 DEF ToTerminalCount, Channel
      <4> QED BY <1>0, <4>1, <4>2
    <3> HIDE DEF v
    <3>c. v.current \in 0 .. ch.reload
      BY <1>0, <2>0, <3>2
    <3>3. ~ch.output => ch.current >= 1 /\ n + ch.current = ch.reload
      BY <1>4, <2>1 DEF Remaining
    <3>4. ~ch.output => Ticked(ch, n) = n + 1
      BY <1>0, <2>0, <2>t, <3>3
    <3>5. InRange(v)
      BY <1>0, <1>1, <1>2, <1>4, <2>0, <2>1, <3>c DEF InRange
    <3>6. Remaining(v, Ticked(ch, n))
      BY <1>0, <1>2, <2>1, <3>2, <3>3, <3>4 DEF Remaining
    <3>7. Periodic(v, AgeAfter(ch, a))
      BY <1>2, <2>1 DEF Periodic
    <3>8. ASSUME ~ch.output, v.output PROVE Ticked(ch, n) = ch.reload
      <4>1. ch.current = 1
        BY <1>0, <1>1, <3>2, <3>3, <3>8
      <4> QED BY <1>0, <3>3, <3>4, <3>8, <4>1
    <3> QED BY <2>1, <3>5, <3>6, <3>7, <3>8
  <2>2. CASE ch.mode = 2
    <3>1. v = DivideByN(ch)
      BY <1>4, <2>2 DEF ClockOnce
    <3>2. v.running = ch.running
      BY <1>0, <3>1 DEF DivideByN, CountDown, Channel
    <3>3. \/ /\ ~ch.output \/ ch.current > 1
             /\ v.output /\ v.current = (IF ch.current > 1 THEN ch.current - 1 ELSE ch.current)
          \/ ch.output /\ ch.current <= 1 /\ ~v.output /\ v.current = ch.reload
      BY <1>0, <3>1 DEF DivideByN, CountDown, Channel
    <3>4. AgeAfter(ch, a) = IF ~ch.output /\ v.output THEN 0 ELSE Ticked(ch, a)
      BY DEF AgeAfter
    <3> HIDE DEF v
    <3>5. InRange(v)
      BY <1>0, <1>1, <1>2, <1>4, <2>0, <2>2, <3>3 DEF InRange
    <3>6. Remaining(v, Ticked(ch, n))
      BY <1>2, <2>2 DEF Remaining
    <3>7. /\ ch.current >= 1 /\ (~ch.output => ch.current = ch.reload)
          /\ a >= 0 /\ ch.reload > 1 =>
               IF ch.output THEN a + ch.current = ch.reload - 1 ELSE a = ch.reload - 1
      BY <1>4, <2>2 DEF Periodic
    <3>8. ~ch.output /\ v.output /\ a >= 0 /\ ch.reload > 1 => a + 1 = ch.reload
      BY <1>0, <3>7
    <3>9. v.current >= 1 /\ (~v.output => v.current = ch.reload) /\ v.current \in Nat
      BY <1>0, <2>0, <3>3, <3>7
    <3>10. ASSUME AgeAfter(ch, a) >= 0, ch.reload > 1
           PROVE  IF v.output THEN AgeAfter(ch, a) + v.current = ch.reload - 1
                  ELSE AgeAfter(ch, a) = ch.reload - 1
      <4>1. CASE ~ch.output
        <5>1. v.output /\ AgeAfter(ch, a) = 0 /\ v.current = ch.reload - 1
          BY <1>0, <3>3, <3>4, <3>7, <3>10, <4>1
        <5> QED BY <1>0, <5>1
      <4>2. CASE ch.output
        <5>1. AgeAfter(ch, a) = Ticked(ch, a)
          BY <3>4, <4>2
        <5>2. a \in Nat /\ a + ch.current = ch.reload - 1
          BY <2>t, <3>7, <3>10, <4>2, <5>1
        <5>3. AgeAfter(ch, a) = a + 1
          BY <1>0, <2>0, <2>t, <3>7, <5>1, <5>2
        <5> QED BY <1>0, <3>3, <3>7, <4>2, <5>2, <5>3
      <4> QED BY <4>1, <4>2
    <3>11. Periodic(v, AgeAfter(ch, a))
      BY <1>2, <2>2, <3>9, <3>10 DEF Periodic
    <3> QED BY <2>2, <3>5, <3>6, <3>8, <3>11
  <2>3. CASE ch.mode = 3
    <3> DEFINE high == HighPhase(ch.reload)
               low == ch.reload \div 2
    <3>1. v = SquareWave(ch)
      BY <1>4, <2>3 DEF ClockOnce
    <3>2. v.running = ch.running /\ v.current = ch.current
      BY <1>0, <3>1 DEF SquareWave, Channel
    <3>3. \/ ch.phase > 1 /\ v.phase = ch.phase - 1 /\ (v.output <=> ch.output)
          \/ /\ ch.phase <= 1 /\ (v.output <=> ~ch.output)
             /\ ch.output => v.phase = (IF low = 0 THEN 1 ELSE low)
             /\ ~ch.output => v.phase = (IF high = 0 THEN 1 ELSE high)
      <4>1. CASE ch.phase > 1
        <5>1. v = [ch EXCEPT !.phase = @ - 1]
          BY <3>1, <4>1 DEF SquareWave
        <5> QED BY <1>0, <4>1, <5>1 DEF Channel
      <4>2. CASE ~(ch.phase > 1) /\ ch.output
        <5>1. v = [ch EXCEPT !.output = ~@, !.phaseHigh = ~ch.output,
                             !.phase = IF low = 0 THEN 1 ELSE low]
          BY <3>1, <4>2 DEF SquareWave
        <5>2. ~v.output /\ v.phase = (IF low = 0 THEN 1 ELSE low)
          BY <1>0, <4>2, <5>1 DEF Channel
        <5> QED BY <1>0, <4>2, <5>2
      <4>3. CASE ~(ch.phase > 1) /\ ~ch.output
        <5>1. v = [ch EXCEPT !.output = ~@, !.phaseHigh = ~ch.output,
                             !.phase = IF high = 0 THEN 1 ELSE high]
          BY <3>1, <4>3 DEF SquareWave
        <5>2. v.output /\ v.phase = (IF high = 0 THEN 1 ELSE high)
          BY <1>0, <4>3, <5>1 DEF Channel
        <5> QED BY <1>0, <4>3, <5>2
      <4> QED BY <1>0, <4>1, <4>2, <4>3
    <3>4. AgeAfter(ch, a) = IF ~ch.output /\ v.output THEN 0 ELSE Ticked(ch, a)
      BY DEF AgeAfter
    <3> HIDE DEF v
    <3>5. /\ high \in 1 .. ch.reload /\ low \in Nat /\ high + low = ch.reload /\ low <= high
          /\ ch.reload > 1 => low >= 1
      BY <2>0, Halves
    <3> HIDE DEF low
    <3>6. v.phase \in 1 .. high
      BY <1>0, <2>0, <2>3, <3>3, <3>5
    <3>7. InRange(v)
      BY <1>0, <1>1, <1>2, <1>4, <2>0, <2>3, <3>2, <3>6 DEF InRange
    <3>8. Remaining(v, Ticked(ch, n))
      BY <1>2, <2>3 DEF Remaining
    <3>9. a >= 0 /\ ch.reload > 1 =>
            a + ch.phase = (IF ch.output THEN high ELSE ch.reload)
      BY <1>4, <2>3 DEF Periodic
    <3> HIDE DEF high
    <3>p. ch.phase >= 1 /\ ch.phase <= high
      BY <2>0, <2>3 DEF high
    <3>10. ASSUME ~ch.output, v.output, a >= 0, ch.reload > 1 PROVE a + 1 = ch.reload
      <4>1. ch.phase = 1
        BY <1>0, <1>1, <3>3, <3>p, <3>10
      <4> QED BY <1>0, <3>9, <3>10, <4>1
    <3>11. ASSUME AgeAfter(ch, a) >= 0, ch.reload > 1
           PROVE  AgeAfter(ch, a) + v.phase = (IF v.output THEN high ELSE ch.reload)
      <4>1. CASE ~ch.output /\ v.output
        <5>1. AgeAfter(ch, a) = 0 /\ v.phase = high
          BY <1>0, <1>1, <3>3, <3>4, <3>5, <4>1
        <5> QED BY <3>5, <4>1, <5>1
      <4>2. CASE ch.output \/ ~v.output
        <5>1. AgeAfter(ch, a) = Ticked(ch, a)
          BY <3>4, <4>2
        <5>2. a \in Nat /\ a + ch.phase = (IF ch.output THEN high ELSE ch.reload)
          BY <2>t, <3>9, <3>11, <5>1
        <5>3. AgeAfter(ch, a) = a + 1
          BY <1>0, <2>0, <2>t, <3>5, <3>p, <5>1, <5>2
        <5>4. v.phase \in Nat
          BY <3>5, <3>6
        <5> QED BY <1>0, <1>1, <3>3, <3>5, <3>p, <3>11, <4>2, <5>2, <5>3, <5>4
      <4> QED BY <4>1, <4>2
    <3>12. Periodic(v, AgeAfter(ch, a))
      BY <1>2, <2>3, <3>11 DEF Periodic, high
    <3> QED BY <2>3, <3>7, <3>8, <3>10, <3>12
  <2>4. CASE ch.mode \in {4, 5}
    <3>1. v = Strobe(ch)
      BY <1>4, <2>4 DEF ClockOnce
    <3>2. \/ /\ ch.strobeLow /\ v.output /\ ~v.strobeLow /\ ~v.running
             /\ v.current = ch.current
          \/ /\ ~ch.strobeLow /\ ch.current > 1 /\ v.current = ch.current - 1
             /\ (v.output <=> ch.output) /\ ~v.strobeLow /\ v.running
          \/ /\ ~ch.strobeLow /\ ch.current <= 1 /\ v.current = 0
             /\ ~v.output /\ v.strobeLow
      BY <1>0, <1>4, <3>1 DEF Strobe, CountDown, Channel
    <3> HIDE DEF v
    <3>3. InRange(v)
      BY <1>0, <1>1, <1>2, <1>4, <2>0, <2>4, <3>2 DEF InRange
    <3>4. ch.mode = 5 /\ ~ch.strobeLow => ch.current >= 1 /\ n + ch.current = ch.reload
      BY <1>4, <2>4 DEF Remaining
    <3>5. ch.mode = 5 /\ ~ch.strobeLow => Ticked(ch, n) = n + 1
      BY <1>0, <2>0, <2>t, <3>4
    <3>6. Remaining(v, Ticked(ch, n))
      BY <1>0, <1>2, <2>4, <3>2, <3>4, <3>5 DEF Remaining
    <3>7. Periodic(v, AgeAfter(ch, a))
      BY <1>2, <2>4 DEF Periodic
    <3>8. ch.mode = 5 /\ ch.output /\ ~v.output => Ticked(ch, n) = ch.reload
      BY <1>0, <1>1, <3>2, <3>4, <3>5
    <3> QED BY <2>4, <3>3, <3>6, <3>7, <3>8
  <2> QED BY <1>0, <2>1, <2>2, <2>3, <2>4
<1> QED BY <1>2, <1>3, <1>4

(* Latching and reading move no count.                                     *)
LEMMA LatchInRange ==
  ASSUME NEW ch, InRange(ch)
  PROVE  /\ InRange(Latch(ch)) /\ SameCount(ch, Latch(ch)) /\ Latch(ch).latched
         /\ Latch(ch).latchedValue = (IF ch.latched THEN ch.latchedValue ELSE VisibleCount(ch))
<1> DEFINE value == VisibleCount(ch)
           l == [ch EXCEPT !.latchedValue = value, !.latched = TRUE, !.latchedLow = TRUE]
<1>1. ch \in Channel /\ value \in Nat /\ value < WordBase
  BY VisibleRange DEF InRange
<1> HIDE DEF value
<1>2. l \in Channel
  BY <1>1 DEF Channel
<1>3. SameCount(ch, l) /\ l.latched /\ l.latchedValue = value /\ l.pendingLow = ch.pendingLow
  BY <1>1 DEF SameCount, Channel
<1>4. Latch(ch) = IF ch.latched THEN ch ELSE l
  BY DEF Latch, value
<1> HIDE DEF l
<1>5. InRange(l)
  BY <1>1, <1>2, <1>3, SameCountKept DEF InRange
<1>6. SameCount(ch, ch)
  BY DEF SameCount
<1> QED BY <1>3, <1>4, <1>5, <1>6 DEF value

LEMMA ReadInRange ==
  ASSUME NEW ch, InRange(ch)
  PROVE  LET r == ReadChannel(ch)
         IN /\ InRange(r) /\ SameCount(ch, r)
            /\ r.latchedValue = ch.latchedValue
            /\ r.latched => /\ ch.latched /\ ch.access = "lsb_msb" /\ ch.latchedLow
                            /\ ~r.latchedLow
            /\ ch.latched /\ ~r.latched /\ ch.access = "lsb_msb" => ~ch.latchedLow
<1> DEFINE r == ReadChannel(ch)
<1>0. ch \in Channel /\ ch.access \in Access /\ ch.latchedLow \in BOOLEAN /\ ch.latched \in BOOLEAN
  BY DEF InRange, Channel
<1>1. \/ ch.access \in {"lsb", "msb"} /\ r = [ch EXCEPT !.latched = FALSE]
      \/ /\ ch.access = "lsb_msb" /\ ch.latched
         /\ r = [ch EXCEPT !.latchedLow = ~@, !.latched = ch.latchedLow]
      \/ ch.access = "lsb_msb" /\ ~ch.latched /\ r = [ch EXCEPT !.readLow = ~@]
  BY <1>0 DEF ReadChannel, Access
<1>2. r \in Channel
  <2>1. [ch EXCEPT !.latched = FALSE] \in Channel
    BY <1>0 DEF Channel
  <2>2. [ch EXCEPT !.latchedLow = ~@, !.latched = ch.latchedLow] \in Channel
    BY <1>0, ZenonT(30) DEF Channel
  <2>3. [ch EXCEPT !.readLow = ~@] \in Channel
    BY <1>0 DEF Channel
  <2> QED BY <1>1, <2>1, <2>2, <2>3
<1>3. SameCount(ch, r) /\ r.latchedValue = ch.latchedValue /\ r.pendingLow = ch.pendingLow
  BY <1>0, <1>1 DEF SameCount, Channel
<1>4. /\ r.latched => ch.latched /\ ch.access = "lsb_msb" /\ ch.latchedLow /\ ~r.latchedLow
      /\ ch.latched /\ ~r.latched /\ ch.access = "lsb_msb" => ~ch.latchedLow
  <2>1. CASE r = [ch EXCEPT !.latched = FALSE] /\ ch.access \in {"lsb", "msb"}
    <3>1. ~r.latched /\ ch.access # "lsb_msb"
      BY <1>0, <2>1 DEF Channel
    <3> QED BY <3>1
  <2>2. CASE /\ r = [ch EXCEPT !.latchedLow = ~@, !.latched = ch.latchedLow]
             /\ ch.access = "lsb_msb" /\ ch.latched
    <3>1. r.latched = ch.latchedLow /\ r.latchedLow = ~ch.latchedLow
      BY <1>0, <2>2 DEF Channel
    <3> QED BY <1>0, <2>2, <3>1
  <2>3. CASE r = [ch EXCEPT !.readLow = ~@] /\ ~ch.latched
    <3>1. ~r.latched
      BY <1>0, <2>3 DEF Channel
    <3> QED BY <2>3, <3>1
  <2> QED BY <1>1, <2>1, <2>2, <2>3
<1> HIDE DEF r
<1>5. InRange(r)
  BY <1>2, <1>3, SameCountKept DEF InRange
<1> QED BY <1>3, <1>4, <1>5 DEF r

ChannelInv ==
  /\ InRange(channel) /\ counted \in Nat /\ age \in Nat \cup {-1}
  /\ Remaining(channel, counted) /\ Periodic(channel, age)
  /\ channel.latched => promised = channel.latchedValue

LEMMA ChannelInit8253 == ChannelInit => ChannelInv
<1> SUFFICES ASSUME ChannelInit PROVE ChannelInv
  OBVIOUS
<1>1. ResetChannel \in Channel
  BY DEF ResetChannel, Channel, Access
<1>2. /\ ~ResetChannel.loaded /\ ~ResetChannel.running /\ ~ResetChannel.latched
      /\ ResetChannel.pendingLow = 0 /\ ResetChannel.latchedValue = 0
  BY DEF ResetChannel
<1>3. InRange(ResetChannel)
  BY <1>1, <1>2, Bases DEF InRange
<1>4. Remaining(ResetChannel, 0) /\ Periodic(ResetChannel, -1)
  BY <1>2 DEF Remaining, Periodic
<1> HIDE DEF ResetChannel
<1> QED BY <1>2, <1>3, <1>4 DEF ChannelInit, ChannelInv

(* What a clock and a read must do, in every state of the invariant.       *)
Exactly ==
  Clock => /\ channel.mode \in {0, 1} /\ OutRises => counted' = channel.reload
           /\ channel.mode = 5 /\ OutFalls => counted' = channel.reload
           /\ channel.mode \in {2, 3} /\ OutRises /\ age >= 0 /\ channel.reload > 1
                => age + 1 = channel.reload
Truly ==
  ReadCount /\ channel.latched =>
    /\ ReadValue(channel) = IF channel.access = "lsb" \/ channel'.latched
                            THEN promised % ByteBase ELSE promised \div ByteBase
    /\ channel'.latched => channel.access = "lsb_msb" /\ ~channel'.latchedLow

LEMMA ChannelClock ==
  ASSUME ChannelInv, Clock
  PROVE  ChannelInv' /\ Exactly
<1>1. /\ InRange(channel) /\ counted \in Nat /\ age \in Nat \cup {-1}
      /\ Remaining(channel, counted) /\ Periodic(channel, age)
  BY DEF ChannelInv
<1>2. channel' = ClockOnce(channel)
  BY DEF Clock
<1>3. counted' = Ticked(channel, counted)
  <2>1. WordBase \in Nat
    BY Bases
  <2> QED BY <1>1, <2>1 DEF Clock, Ticked
<1>4. age' = AgeAfter(channel, age)
  BY <1>2 DEF Clock, AgeAfter, Ticked
<1>5. /\ InRange(channel') /\ channel'.latched = channel.latched
      /\ channel'.latchedValue = channel.latchedValue
      /\ Remaining(channel', counted') /\ Periodic(channel', age')
      /\ channel.mode \in {0, 1} /\ ~channel.output /\ channel'.output => counted' = channel.reload
      /\ channel.mode = 5 /\ channel.output /\ ~channel'.output => counted' = channel.reload
      /\ channel.mode \in {2, 3} /\ ~channel.output /\ channel'.output /\ age >= 0
           /\ channel.reload > 1 => age + 1 = channel.reload
  <2> DEFINE n == counted
             a == age
  <2>1. InRange(channel) /\ n \in Nat /\ a \in Nat \cup {-1} /\ Remaining(channel, n)
        /\ Periodic(channel, a)
    BY <1>1
  <2> HIDE DEF n, a
  <2> QED BY <2>1, <1>2, <1>3, <1>4, ClockInRange DEF n, a
<1>6. counted' \in Nat /\ age' \in Nat \cup {-1}
  <2>1. WordBase \in Nat
    BY Bases
  <2> QED BY <1>1, <1>3, <1>4, <2>1 DEF Ticked, AgeAfter
<1>7. promised' = promised
  BY DEF Clock
<1>8. ChannelInv'
  BY <1>5, <1>6, <1>7 DEF ChannelInv
<1>9. Exactly
  BY <1>5 DEF Exactly, OutRises, OutFalls
<1> QED BY <1>8, <1>9

LEMMA ChannelRead ==
  ASSUME ChannelInv, ReadCount
  PROVE  ChannelInv' /\ Truly
<1>1. InRange(channel) /\ (channel.latched => promised = channel.latchedValue)
  BY DEF ChannelInv
<1>2. channel' = ReadChannel(channel) /\ counted' = counted /\ age' = age /\ promised' = promised
  BY DEF ReadCount
<1>3. /\ InRange(channel') /\ SameCount(channel, channel')
      /\ channel'.latchedValue = channel.latchedValue
      /\ channel'.latched => /\ channel.latched /\ channel.access = "lsb_msb"
                             /\ channel.latchedLow /\ ~channel'.latchedLow
      /\ channel.latched /\ ~channel'.latched /\ channel.access = "lsb_msb" => ~channel.latchedLow
  BY <1>1, <1>2, ReadInRange
<1>4. Remaining(channel', counted') /\ Periodic(channel', age')
  BY <1>1, <1>2, <1>3, SameCountKept DEF ChannelInv, InRange
<1>5. ChannelInv'
  BY <1>2, <1>3, <1>4 DEF ChannelInv
<1>6. ASSUME channel.latched
      PROVE  ReadValue(channel) = IF channel.access = "lsb" \/ channel'.latched
                                  THEN promised % ByteBase ELSE promised \div ByteBase
  <2>1. channel.access \in Access
    BY <1>1 DEF InRange, Channel
  <2>2. ReadValue(channel) = IF \/ channel.access = "lsb"
                                \/ channel.access = "lsb_msb" /\ channel.latchedLow
                             THEN promised % ByteBase ELSE promised \div ByteBase
    BY <1>1, <1>6 DEF ReadValue, LowNext
  <2> QED BY <1>3, <1>6, <2>1, <2>2 DEF Access
<1>7. Truly
  BY <1>3, <1>6 DEF Truly
<1> QED BY <1>5, <1>7

LEMMA ChannelStep ==
  ASSUME ChannelInv, [ChannelNext]_cvars
  PROVE  ChannelInv'
<1>0. /\ InRange(channel) /\ counted \in Nat /\ age \in Nat \cup {-1}
      /\ Remaining(channel, counted) /\ Periodic(channel, age)
      /\ channel.latched => promised = channel.latchedValue
  BY DEF ChannelInv
<1>1. ASSUME NEW access \in Accesses, NEW mode \in Modes, NEW bcd \in Codes,
             Program(access, mode, bcd)
      PROVE  ChannelInv'
  <2>1. access \in Access /\ mode \in 0 .. 7 /\ bcd \in BOOLEAN
    BY ChannelAssumption
  <2>2. channel' = Configure(channel, access, mode, bcd) /\ counted' = 0 /\ age' = -1
    BY <1>1 DEF Program, Restarted
  <2>3. InRange(channel') /\ Remaining(channel', 0) /\ Periodic(channel', -1) /\ ~channel'.latched
    BY <1>0, <2>1, <2>2, ConfigureInRange
  <2> QED BY <2>2, <2>3 DEF ChannelInv
<1>2. ASSUME NEW v \in Counts, WriteCount(v)
      PROVE  ChannelInv'
  <2>1. v \in 0 .. ByteBase - 1
    BY ChannelAssumption
  <2>2. /\ channel' = WriteChannel(channel, v) /\ promised' = promised
        /\ IF channel.access = "lsb_msb" /\ channel.writeLow
           THEN counted' = counted /\ age' = age ELSE counted' = 0 /\ age' = -1
    BY <1>2 DEF WriteCount, Restarted
  <2>3. /\ InRange(channel') /\ channel'.latched = channel.latched
        /\ channel'.latchedValue = channel.latchedValue
        /\ IF channel.access = "lsb_msb" /\ channel.writeLow
           THEN Remaining(channel', counted) /\ Periodic(channel', age)
           ELSE Remaining(channel', 0) /\ Periodic(channel', -1)
    BY <1>0, <2>1, <2>2, WriteInRange
  <2> QED BY <1>0, <2>2, <2>3 DEF ChannelInv
<1>3. CASE LatchCommand
  <2>1. /\ channel' = Latch(channel) /\ counted' = counted /\ age' = age
        /\ promised' = IF channel.latched THEN promised ELSE VisibleCount(channel)
    BY <1>3 DEF LatchCommand
  <2>2. /\ InRange(channel') /\ SameCount(channel, channel')
        /\ channel'.latchedValue
             = (IF channel.latched THEN channel.latchedValue ELSE VisibleCount(channel))
    BY <1>0, <2>1, LatchInRange
  <2>3. Remaining(channel', counted') /\ Periodic(channel', age')
    BY <1>0, <2>1, <2>2, SameCountKept DEF InRange
  <2> QED BY <1>0, <2>1, <2>2, <2>3 DEF ChannelInv
<1>4. CASE ReadCount
  BY <1>4, ChannelRead
<1>5. ASSUME NEW high \in BOOLEAN, Gate(high)
      PROVE  ChannelInv'
  <2>1. /\ channel' = SetGate(channel, high) /\ promised' = promised
        /\ IF Restarts(channel, high) THEN counted' = 0 /\ age' = -1
           ELSE counted' = counted /\ age' = age
    BY <1>5 DEF Gate, Restarted, Restarts
  <2>2. /\ InRange(channel') /\ channel'.latched = channel.latched
        /\ channel'.latchedValue = channel.latchedValue
        /\ IF Restarts(channel, high)
           THEN Remaining(channel', 0) /\ Periodic(channel', -1)
           ELSE Remaining(channel', counted) /\ Periodic(channel', age)
    BY <1>0, <2>1, GateInRange
  <2> QED BY <1>0, <2>1, <2>2 DEF ChannelInv
<1>6. CASE Clock
  BY <1>6, ChannelClock
<1>7. CASE UNCHANGED cvars
  BY <1>7 DEF cvars, ChannelInv
<1> QED BY <1>1, <1>2, <1>3, <1>4, <1>5, <1>6, <1>7 DEF ChannelNext

LEMMA ChannelCorrect == ChannelSpec => []ChannelInv
<1>1. ChannelInv /\ [ChannelNext]_cvars => ChannelInv'
  BY ChannelStep
<1> QED BY <1>1, ChannelInit8253, PTL DEF ChannelSpec

(* The counts keep their range under every operation, in every mode and in *)
(* both number systems: nothing counts below zero, or above what a word    *)
(* holds.                                                                  *)
THEOREM ChannelTypeCorrect == ChannelSpec => []ChannelTypeOK
<1>1. ChannelInv => ChannelTypeOK
  BY DEF ChannelInv, InRange, ChannelTypeOK
<1> QED BY <1>1, ChannelCorrect, PTL

(* OUT moves exactly as the programmed count is complete, for every count  *)
(* and number system, however GATE and the CPU interfere.                  *)
THEOREM CountAlwaysExact == ChannelSpec => CountIsExact
<1>1. ChannelInv /\ [ChannelNext]_cvars => [Exactly]_cvars
  BY ChannelClock DEF Exactly
<1>2. ChannelSpec => []ChannelInv /\ [][ChannelNext]_cvars
  BY ChannelCorrect, PTL DEF ChannelSpec
<1> QED BY <1>1, <1>2, PTL DEF CountIsExact, Exactly

(* What is read after a latch command is the count as it was then.         *)
THEOREM LatchedReadAlwaysTrue == ChannelSpec => LatchedReadIsTrue
<1>1. ChannelInv /\ [ChannelNext]_cvars => [Truly]_cvars
  BY ChannelRead DEF Truly
<1>2. ChannelSpec => []ChannelInv /\ [][ChannelNext]_cvars
  BY ChannelCorrect, PTL DEF ChannelSpec
<1> QED BY <1>1, <1>2, PTL DEF LatchedReadIsTrue, Truly

----------------------------------------------------------------------------

(* The invariants as predicates on a record. *)
Gated(d) == d.c1.gate = (~d.timing \/ d.sync)
Idle(d) == /\ d.aux = AuxClear
           /\ ~d.sync /\ ~d.ordinary /\ ~d.format
Enabled(d) == (d.ordinary => d.aux.we) /\ (d.format => d.aux.fm)

Stable(d) ==
  /\ d \in DiskState /\ SettledPpi(d.ppi)
  /\ Gated(d) /\ Enabled(d)
  /\ ~d.timing => Idle(d) /\ ~d.timeout

(* GATE1 is what was set last, and clocks, counts and modes leave it alone. *)
LEMMA GateKept ==
  ASSUME NEW ch \in Channel
  PROVE  /\ \A high \in BOOLEAN : SetGate(ch, high).gate = high
         /\ ClockOnce(ch).gate = ch.gate
         /\ \A mode \in 0 .. 7 : Configure(ch, "lsb", mode, FALSE).gate = ch.gate
         /\ \A v \in Nat : WriteChannel(ch, v).gate = ch.gate
<1>1. ASSUME NEW high \in BOOLEAN PROVE SetGate(ch, high).gate = high
  BY DEF SetGate, Trigger, Channel
<1>2. ClockOnce(ch).gate = ch.gate
  BY DEF ClockOnce, ToTerminalCount, CountDown, DivideByN, SquareWave, Strobe, Channel
<1>3. ASSUME NEW mode \in 0 .. 7 PROVE Configure(ch, "lsb", mode, FALSE).gate = ch.gate
  BY DEF Configure, ResetChannel
<1>4. ASSUME NEW v \in Nat PROVE WriteChannel(ch, v).gate = ch.gate
  BY DEF WriteChannel, Load, Channel, Access
<1> QED BY <1>1, <1>2, <1>3, <1>4

(* Closing a gate twice is closing it once. *)
LEMMA SetGateTwice ==
  ASSUME NEW ch \in Channel
  PROVE  SetGate(SetGate(ch, FALSE), FALSE) = SetGate(ch, FALSE)
BY DEF SetGate, Trigger, Channel

(* A clear auxiliary register is one. *)
LEMMA AuxClearType == AuxClear \in Aux
BY DEF AuxClear, Aux

----------------------------------------------------------------------------
(* refresh_interrupt_sources. *)

(* The edge counter of refresh_interrupt_sources touches counter 2 only. *)
LEMMA CountEdgeStable ==
  ASSUME NEW d, Stable(d)
  PROVE  /\ Stable(CountEdge(d))
         /\ CountEdge(d).level = (d.ppi.a.intr \/ d.ppi.b.intr)
         /\ CountEdge(d).ppi = d.ppi
         /\ CountEdge(d).pending = d.pending
<1> DEFINE e == CountEdge(d)
<1>1. d \in DiskState /\ d.ppi \in PpiState /\ d.c2 \in Channel BY DEF Stable, DiskState
<1>2. (d.ppi.a.intr \/ d.ppi.b.intr) \in BOOLEAN OBVIOUS
<1>3. ClockOnce(d.c2) \in Channel BY <1>1, ClockOnceType
<1> DEFINE line == d.ppi.a.intr \/ d.ppi.b.intr
           suppress == d.suppress /\ ~(line /\ ~d.level)
           count == IF line /\ ~d.level /\ ~d.suppress THEN ClockOnce(d.c2) ELSE d.c2
<1>4. e \in DiskState
  <2>1. line \in BOOLEAN /\ suppress \in BOOLEAN /\ count \in Channel BY <1>1, <1>3
  <2>2. e = [d EXCEPT !.level = line, !.suppress = suppress, !.c2 = count] BY DEF CountEdge
  <2> HIDE DEF e, line, suppress, count
  <2> QED BY <1>1, <2>1, <2>2 DEF DiskState
<1>5. /\ e.level = (d.ppi.a.intr \/ d.ppi.b.intr) /\ e.ppi = d.ppi
      /\ e.c1 = d.c1 /\ e.timing = d.timing /\ e.sync = d.sync /\ e.aux = d.aux
      /\ e.ordinary = d.ordinary /\ e.format = d.format /\ e.timeout = d.timeout
      /\ e.pending = d.pending
  BY <1>1 DEF CountEdge, DiskState
<1> QED BY <1>4, <1>5 DEF Stable, Gated, Enabled, Idle

(* OUT2 shuts the operation down, and doing it twice is doing it once. *)
LEMMA EndOfDataStable ==
  ASSUME NEW d, Stable(d)
  PROVE  /\ Stable(EndOfData(d)) /\ Idle(EndOfData(d))
         /\ EndOfData(d).ppi = d.ppi /\ EndOfData(d).level = d.level
         /\ EndOfData(d).c2 = d.c2 /\ EndOfData(d).pending = d.pending
         /\ EndOfData(EndOfData(d)) = EndOfData(d)
<1> DEFINE e == EndOfData(d)
           gate == IF d.timing THEN SetGate(d.c1, FALSE) ELSE d.c1
<1>1. d \in DiskState /\ d.c1 \in Channel BY DEF Stable, DiskState
<1>2. gate \in Channel BY <1>1, SetGateType
<1>3. e \in DiskState BY <1>1, <1>2, AuxClearType DEF EndOfData, DiskState
<1>4. /\ e.c1 = gate /\ e.timing = d.timing /\ ~e.sync /\ e.aux = AuxClear
      /\ ~e.ordinary /\ ~e.format /\ e.timeout = d.timeout
      /\ e.ppi = d.ppi /\ e.level = d.level /\ e.c2 = d.c2 /\ e.pending = d.pending
  BY <1>1 DEF EndOfData, DiskState
<1>5. Gated(e)
  <2>1. d.timing => gate.gate = FALSE BY <1>1, GateKept
  <2>2. ~d.timing => gate.gate = TRUE BY DEF Stable, Gated
  <2> QED BY <1>4, <2>1, <2>2 DEF Gated
<1>6. Stable(e) /\ Idle(e) BY <1>3, <1>4, <1>5 DEF Stable, Idle, Enabled
<1>7. EndOfData(e) = e
  <2>1. (IF e.timing THEN SetGate(e.c1, FALSE) ELSE e.c1) = e.c1
    BY <1>1, <1>4, SetGateTwice
  <2>2. EndOfData(e) = [e EXCEPT !.aux = AuxClear, !.sync = FALSE, !.ordinary = FALSE,
                                 !.format = FALSE, !.c1 = e.c1]
    BY <2>1 DEF EndOfData
  <2>3. e.sync = FALSE /\ e.ordinary = FALSE /\ e.format = FALSE BY <1>3, <1>4 DEF DiskState
  <2> HIDE DEF e
  <2> QED BY <1>3, <1>4, <2>2, <2>3, ZenonT(60) DEF DiskState
<1> QED BY <1>4, <1>6, <1>7

(* A stable record leaves refresh_interrupt_sources with all its invariants, *)
(* and a second refresh would change nothing.                                *)
LEMMA RefreshStable ==
  ASSUME NEW d, Stable(d)
  PROVE  /\ Stable(Refresh(d))
         /\ Refresh(d).c2.output => Idle(Refresh(d))
         /\ Refresh(Refresh(d)) = Refresh(d)
         /\ Refresh(d).pending = d.pending
<1> DEFINE e == CountEdge(d)
           r == Refresh(d)
<1>1. /\ Stable(e) /\ e.level = (d.ppi.a.intr \/ d.ppi.b.intr) /\ e.ppi = d.ppi
      /\ e.pending = d.pending
  BY CountEdgeStable
<1> HIDE DEF e
<1>2. r = IF e.c2.output THEN EndOfData(e) ELSE e BY DEF Refresh, e
<1>3. /\ Stable(r) /\ r.ppi = e.ppi /\ r.level = e.level /\ r.c2 = e.c2
      /\ r.c2.output => Idle(r) /\ EndOfData(r) = r
      /\ r.pending = d.pending
  BY <1>1, <1>2, EndOfDataStable
<1> HIDE DEF r
<1>4. CountEdge(r) = r
  <2>1. r \in DiskState BY <1>3 DEF Stable
  <2>2. r.level = (r.ppi.a.intr \/ r.ppi.b.intr) BY <1>1, <1>3
  <2>3. CountEdge(r) = [r EXCEPT !.level = r.level, !.suppress = r.suppress, !.c2 = r.c2]
    <3>1. r.suppress \in BOOLEAN /\ r.level \in BOOLEAN BY <2>1 DEF DiskState
    <3> QED BY <2>1, <2>2, <3>1 DEF CountEdge, DiskState
  <2> QED BY <2>1, <2>3 DEF DiskState
<1>5. Refresh(r) = r BY <1>3, <1>4 DEF Refresh
<1> QED BY <1>3, <1>5 DEF r

----------------------------------------------------------------------------
(* The byte path. *)

(* An operation of the disk-data 8255 leaves the rest of the record alone. *)
LEMMA WithPpi ==
  ASSUME NEW d, Stable(d), NEW p, SettledPpi(p), NEW cells \in Seq(Cell)
  PROVE  Stable([d EXCEPT !.pending = cells, !.ppi = p])
<1> DEFINE e == [d EXCEPT !.pending = cells, !.ppi = p]
<1>1. e \in DiskState BY DEF Stable, SettledPpi, DiskState
<1>2. /\ e.c1 = d.c1 /\ e.timing = d.timing /\ e.sync = d.sync /\ e.aux = d.aux
      /\ e.ordinary = d.ordinary /\ e.format = d.format /\ e.timeout = d.timeout
      /\ e.ppi = p
  BY DEF Stable, DiskState
<1> QED BY <1>1, <1>2 DEF Stable, Gated, Enabled, Idle

(* What the serializer puts on the track is a cell. *)
LEMMA WrittenCellType ==
  ASSUME NEW d, Stable(d), NEW tick \in Ticks
  PROVE  WrittenCell(d, tick) \in Cell
<1>1. d.ppi.a.out \in Byte /\ d.markClocks \in BOOLEAN
  BY DEF Stable, DiskState, PpiState, Group
<1> QED BY <1>1 DEF WrittenCell, Cell

(* Taking a byte from PA keeps the invariants of the record. *)
LEMMA TransferWriteByteStable ==
  ASSUME NEW d, Stable(d), NEW tick \in Ticks
  PROVE  Stable(TransferWriteByte(d, tick))
<1>1. Append(d.pending, WrittenCell(d, tick)) \in Seq(Cell)
  BY WrittenCellType DEF Stable, DiskState
<1>2. SettledPpi(PulseAckA(d.ppi)) BY DeviceOperationsSettle DEF Stable
<1> QED BY <1>1, <1>2, WithPpi, RefreshStable DEF TransferWriteByte

(* So does handing one over on PB, *)
LEMMA DeserializeStable ==
  ASSUME NEW d, Stable(d), NEW v \in Byte
  PROVE  Stable(Deserialize(d, v))
<1>1. SettledPpi(PulseStrobeB(d.ppi, v)) BY DeviceOperationsSettle DEF Stable
<1>2. d \in DiskState /\ d.pending \in Seq(Cell) BY DEF Stable, DiskState
<1>3. [d EXCEPT !.ppi = PulseStrobeB(@, v)]
        = [d EXCEPT !.pending = d.pending, !.ppi = PulseStrobeB(d.ppi, v)]
  BY <1>2 DEF DiskState
<1> QED BY <1>1, <1>2, <1>3, WithPpi, RefreshStable DEF Deserialize

(* recognizing a mark, *)
LEMMA SynchronizeStable ==
  ASSUME NEW d, Stable(d), d.timing
  PROVE  Stable(Synchronize(d))
<1> DEFINE e == Synchronize(d)
<1>1. d \in DiskState /\ d.c1 \in Channel BY DEF Stable, DiskState
<1>2. SetGate(d.c1, TRUE) \in Channel /\ SetGate(d.c1, TRUE).gate = TRUE
  BY <1>1, SetGateType, GateKept
<1>3. e \in DiskState BY <1>1, <1>2 DEF Synchronize, DiskState
<1>4. /\ e.c1 = SetGate(d.c1, TRUE) /\ e.timing = d.timing /\ e.sync = TRUE /\ e.aux = d.aux
      /\ e.ordinary = d.ordinary /\ e.format = d.format /\ e.ppi = d.ppi
  BY <1>1 DEF Synchronize, DiskState
<1> QED BY <1>2, <1>3, <1>4 DEF Stable, Gated, Enabled

(* and so the whole read half of process_floppy_byte. *)
LEMMA ByteReadStable ==
  ASSUME NEW d, Stable(d), NEW cell \in Cell
  PROVE  Stable(ByteRead(d, cell))
<1>1. cell.data \in Byte BY DEF Cell
<1>2. CASE d.aux.re
  <2>1. d.timing BY <1>2 DEF Stable, Idle, AuxClear
  <2>2. Stable(Synchronize(d)) BY <2>1, SynchronizeStable
  <2> QED BY <1>1, <2>2, DeserializeStable DEF ByteRead
<1>3. CASE ~d.aux.re BY <1>3 DEF ByteRead
<1> QED BY <1>2, <1>3

(* The second Index of a format operation; here a write gate may still be  *)
(* open without its enable bit, which is why the hypotheses are weaker.    *)
LEMMA FormatEndStable ==
  ASSUME NEW d, d \in DiskState, SettledPpi(d.ppi), d.timing
  PROVE  Stable(FormatEnd(d))
<1> DEFINE e == [d EXCEPT !.ordinary = FALSE, !.format = FALSE, !.aux = AuxClear,
                          !.sync = FALSE, !.c1 = SetGate(@, FALSE)]
<1>1. SetGate(d.c1, FALSE) \in Channel /\ SetGate(d.c1, FALSE).gate = FALSE
  BY SetGateType, GateKept DEF DiskState
<1>2. e \in DiskState BY <1>1, AuxClearType DEF DiskState
<1>3. /\ e.c1 = SetGate(d.c1, FALSE) /\ e.timing = d.timing /\ e.sync = FALSE
      /\ e.ordinary = FALSE /\ e.format = FALSE /\ e.ppi = d.ppi
  BY DEF DiskState
<1>4. Gated(e) /\ Enabled(e)
  <2>1. d.timing = TRUE BY DEF DiskState
  <2> HIDE DEF e
  <2> QED BY <1>1, <1>3, <2>1 DEF Gated, Enabled
<1>5. Stable(e)
  <2> HIDE DEF e
  <2> QED BY <1>2, <1>3, <1>4 DEF Stable
<1> QED BY <1>5, RefreshStable DEF FormatEnd

(* process_floppy_byte, every path of it. *)
LEMMA ProcessByteStable ==
  ASSUME NEW d, Stable(d), NEW cell \in Cell
  PROVE  Stable(ProcessByte(d, cell))
<1> DEFINE at == [d EXCEPT !.tick = cell.tick, !.format = @ \/ AtIndex(d, cell)]
           seen == IF at.format \/ at.ordinary THEN WrittenCell(at, cell.tick) ELSE cell
<1>1. d \in DiskState /\ cell.tick \in Ticks BY DEF Stable, DiskState, Cell
<1>2. AtIndex(d, cell) \in BOOLEAN /\ (AtIndex(d, cell) => d.timing /\ d.aux.fm)
  BY <1>1 DEF AtIndex, DiskState, Aux
<1>3. at \in DiskState BY <1>1, <1>2 DEF DiskState
<1>4. /\ at.c1 = d.c1 /\ at.timing = d.timing /\ at.sync = d.sync /\ at.aux = d.aux
      /\ at.ordinary = d.ordinary /\ at.format = (d.format \/ AtIndex(d, cell))
      /\ at.timeout = d.timeout /\ at.ppi = d.ppi
  BY <1>1 DEF DiskState
<1>5. Stable(at) BY <1>2, <1>3, <1>4 DEF Stable, Gated, Enabled, Idle
<1> HIDE DEF at
<1>6. seen \in Cell BY <1>1, <1>5, WrittenCellType
<1>7. Stable(ByteWritten(at, cell)) BY <1>1, <1>5, TransferWriteByteStable DEF ByteWritten
<1>8. Stable(ByteRead(ByteWritten(at, cell), seen)) BY <1>6, <1>7, ByteReadStable
<1>9. d.timing => Stable(FormatEnd(at)) BY <1>3, <1>4, <1>5, FormatEndStable DEF Stable
<1>10. ProcessByte(d, cell) =
         IF ~d.timing THEN at
         ELSE IF d.format /\ AtIndex(d, cell) THEN FormatEnd(at)
         ELSE ByteRead(ByteWritten(at, cell), seen)
  BY DEF ProcessByte, at
<1> HIDE DEF seen
<1> QED BY <1>5, <1>8, <1>9, <1>10

----------------------------------------------------------------------------
(* advance_time. *)

(* A tick of CLK1, with the timeout and the write gate OUT1 opens. *)
LEMMA ClockCounterOneStable ==
  ASSUME NEW d, Stable(d)
  PROVE  Stable(ClockCounterOne(d))
<1> DEFINE rises == Out1Rises(d)
           late == d.timeout \/ (d.timing /\ d.aux.re /\ d.aux.dm /\ rises)
           t == [d EXCEPT !.c1 = ClockOnce(@), !.timeout = late]
           w == [t EXCEPT !.ordinary = TRUE]
<1>1. d \in DiskState /\ d.c1 \in Channel /\ d.tick \in Ticks BY DEF Stable, DiskState
<1>2. /\ ClockOnce(d.c1) \in Channel /\ ClockOnce(d.c1).gate = d.c1.gate
      /\ late \in BOOLEAN /\ (late => d.timeout \/ d.timing)
  BY <1>1, ClockOnceType, GateKept DEF DiskState
<1> HIDE DEF late
<1>3. t \in DiskState BY <1>1, <1>2 DEF DiskState
<1>4. /\ t.c1 = ClockOnce(d.c1) /\ t.timing = d.timing /\ t.sync = d.sync /\ t.aux = d.aux
      /\ t.ordinary = d.ordinary /\ t.format = d.format /\ t.timeout = late /\ t.ppi = d.ppi
  BY <1>1 DEF DiskState
<1> HIDE DEF t
<1>5. Stable(t) BY <1>2, <1>3, <1>4 DEF Stable, Gated, Enabled, Idle
<1>6. w \in DiskState BY <1>3 DEF DiskState
<1>7. /\ w.c1 = t.c1 /\ w.timing = t.timing /\ w.sync = t.sync /\ w.aux = t.aux
      /\ w.ordinary = TRUE /\ w.format = t.format /\ w.timeout = t.timeout /\ w.ppi = t.ppi
  BY <1>3 DEF DiskState
<1> HIDE DEF w
<1>8. d.timing /\ d.aux.we => Stable(w)
  BY <1>4, <1>5, <1>6, <1>7 DEF Stable, Gated, Enabled
<1>9. ClockCounterOne(d) =
        IF rises /\ d.timing /\ d.aux.we /\ ~d.ordinary THEN TransferWriteByte(w, d.tick) ELSE t
  BY DEF ClockCounterOne, t, w, late
<1> HIDE DEF rises
<1> QED BY <1>1, <1>5, <1>8, <1>9, TransferWriteByteStable

----------------------------------------------------------------------------
(* The invariant: between two calls nothing is left to flush or to count.  *)
Good(d) ==
  /\ Stable(d) /\ d.pending = <<>>
  /\ d.c2.output => Idle(d)
  /\ Refresh(d) = d

(* A refresh makes a state with nothing to flush a good one. *)
LEMMA RefreshGood ==
  ASSUME NEW d, Stable(d), d.pending = <<>>
  PROVE  Good(Refresh(d))
BY RefreshStable DEF Good

(* advance_time ends in a good state. *)
LEMMA AfterAdvanceGood ==
  ASSUME NEW d, Stable(d), NEW pulse \in BOOLEAN
  PROVE  Good(AfterAdvance(d, pulse))
<1> DEFINE b == BeforeFlush(d, pulse)
           e == [b EXCEPT !.pending = <<>>]
<1>1. Stable(b) BY ClockCounterOneStable DEF BeforeFlush
<1> HIDE DEF b
<1>2. b \in DiskState BY <1>1 DEF Stable
<1>3. e \in DiskState
  <2>1. <<>> \in Seq(Cell) OBVIOUS
  <2> QED BY <1>2, <2>1 DEF DiskState
<1>4. /\ e.c1 = b.c1 /\ e.timing = b.timing /\ e.sync = b.sync /\ e.aux = b.aux
      /\ e.ordinary = b.ordinary /\ e.format = b.format /\ e.timeout = b.timeout /\ e.ppi = b.ppi
      /\ e.pending = <<>>
  BY <1>2 DEF DiskState
<1> HIDE DEF e
<1>5. Stable(e) BY <1>1, <1>3, <1>4 DEF Stable, Gated, Enabled, Idle
<1> QED BY <1>4, <1>5, RefreshGood DEF AfterAdvance, b, e

(* The control PPI decides disk timing; switching it off clears everything. *)
LEMMA SynchronizeControlStable ==
  ASSUME NEW d, d \in DiskState, SettledPpi(d.ppi), Enabled(d)
  PROVE  Stable(SynchronizeControl(d)) /\ SynchronizeControl(d).pending = d.pending
<1> DEFINE on == d.aOut /\ ~d.pa6
           s == IF on THEN [d EXCEPT !.timing = TRUE]
                ELSE [d EXCEPT !.timing = FALSE, !.sync = FALSE, !.ordinary = FALSE,
                               !.format = FALSE, !.timeout = FALSE, !.aux = AuxClear]
           gate == ~s.timing \/ s.sync
           e == [s EXCEPT !.c1 = SetGate(@, gate)]
<1>1. s \in DiskState BY AuxClearType, ZenonT(60) DEF DiskState
<1>2. /\ s.ppi = d.ppi /\ s.pending = d.pending
      /\ Enabled(s)
      /\ ~s.timing => Idle(s) /\ ~s.timeout
  BY DEF DiskState, Enabled, Idle, AuxClear
<1> HIDE DEF s
<1>3. gate \in BOOLEAN /\ s.c1 \in Channel BY <1>1 DEF DiskState
<1>4. SetGate(s.c1, gate) \in Channel /\ SetGate(s.c1, gate).gate = gate
  BY <1>3, SetGateType, GateKept
<1>5. e \in DiskState BY <1>1, <1>4 DEF DiskState
<1>6. /\ e.c1 = SetGate(s.c1, gate) /\ e.timing = s.timing /\ e.sync = s.sync /\ e.aux = s.aux
      /\ e.ordinary = s.ordinary /\ e.format = s.format /\ e.timeout = s.timeout /\ e.ppi = s.ppi
      /\ e.pending = s.pending
  BY <1>1 DEF DiskState
<1>7. Gated(e) BY <1>4, <1>6 DEF Gated
<1> HIDE DEF e, gate
<1>8. Stable(e) BY <1>2, <1>5, <1>6, <1>7 DEF Stable, Enabled, Idle
<1>9. SynchronizeControl(d) = e BY DEF SynchronizeControl, s, e, gate
<1> QED BY <1>2, <1>6, <1>8, <1>9

(* OUT 50h shuts the write gates whose enable bits it clears. *)
LEMMA AfterWriteAuxGood ==
  ASSUME NEW d, Stable(d), d.pending = <<>>, NEW a \in Aux
  PROVE  Good(AfterWriteAux(d, a))
<1> DEFINE next == IF d.timing THEN a ELSE AuxClear
           ordinary == d.ordinary /\ a.we
           format == d.format /\ a.fm
           timeout == d.timeout /\ (a.re \/ a.fm)
           e == [d EXCEPT !.ordinary = ordinary, !.format = format,
                          !.timeout = timeout, !.aux = next]
<1>1. d \in DiskState /\ next \in Aux BY AuxClearType DEF Stable, DiskState
<1>2. e \in DiskState
  <2>1. ordinary \in BOOLEAN /\ format \in BOOLEAN /\ timeout \in BOOLEAN OBVIOUS
  <2> HIDE DEF next, ordinary, format, timeout
  <2> QED BY <1>1, <2>1 DEF DiskState
<1>3. /\ e.c1 = d.c1 /\ e.timing = d.timing /\ e.sync = d.sync /\ e.aux = next
      /\ e.ordinary = ordinary /\ e.format = format /\ e.timeout = timeout /\ e.ppi = d.ppi /\ e.pending = d.pending
  BY <1>1 DEF DiskState
<1>4. Stable(e) BY <1>2, <1>3 DEF Stable, Gated, Enabled, Idle
<1> QED BY <1>3, <1>4, RefreshGood DEF AfterWriteAux

----------------------------------------------------------------------------
(* The theorem. *)

Inv == Good(disk)

(* The invariant implies the six properties the runs check. *)
LEMMA InvImplies ==
  Inv => TypeOK /\ Settled /\ GateFollowsSync /\ OffIsIdle /\ EndOfDataHolds /\ WriteGatesEnabled
BY DEF Inv, Good, Stable, Gated, Enabled, Idle, TypeOK, Settled, GateFollowsSync, OffIsIdle,
       EndOfDataHolds, WriteGatesEnabled

(* Machine::reset starts it. *)
LEMMA ResetStable == Stable(ResetDisk) /\ ResetDisk.pending = <<>>
<1>1. SettledPpi([ResetPpi EXCEPT !.pinC = {5}])
  <2>1. ResetPpi \in PpiState /\ UpdateInterrupts(ResetPpi) = ResetPpi
    BY ResetSettles DEF SettledPpi
  <2> DEFINE p == [ResetPpi EXCEPT !.pinC = {5}]
  <2>2. p \in PpiState /\ p.a = ResetPpi.a /\ p.b = ResetPpi.b BY <2>1 DEF PpiState, Bit
  <2> HIDE DEF p
  <2>3. UpdateInterrupts(p) = p BY <2>1, <2>2, SettledPins
  <2> QED BY <2>2, <2>3 DEF SettledPpi, p
<1>2. ResetChannel \in Channel BY DEF ResetChannel, Channel, Access
<1>3. SetGate(ResetChannel, TRUE) \in Channel /\ SetGate(ResetChannel, TRUE).gate = TRUE
  BY <1>2, SetGateType, GateKept
<1>4. ResetDisk \in DiskState
  <2>1. <<>> \in Seq(Cell) OBVIOUS
  <2> QED BY <1>1, <1>3, <2>1, AuxClearType, DiskAssumption DEF ResetDisk, DiskState, SettledPpi
<1>5. Stable(ResetDisk) /\ ResetDisk.pending = <<>>
  BY <1>1, <1>3, <1>4 DEF Stable, Gated, Enabled, Idle, ResetDisk
<1> QED BY <1>5

LEMMA ResetGood == Good(Refresh(ResetDisk))
BY ResetStable, RefreshGood

(* Programming and loading the counters leave everything but them alone;   *)
(* a timeout may only be acknowledged.                                     *)
LEMMA CountersGood ==
  ASSUME NEW d, Good(d)
  PROVE  /\ \A c \in Channel, keep \in BOOLEAN :
              c.gate = d.c1.gate
                => Good(Refresh([d EXCEPT !.c1 = c, !.timeout = @ /\ keep]))
         /\ \A c \in Channel : Good(Refresh([d EXCEPT !.c2 = c]))
<1>1. d \in DiskState /\ Stable(d) /\ d.pending = <<>> BY DEF Good, Stable
<1>2. ASSUME NEW c \in Channel, NEW keep \in BOOLEAN, c.gate = d.c1.gate
      PROVE  Good(Refresh([d EXCEPT !.c1 = c, !.timeout = @ /\ keep]))
  <2> DEFINE timeout == d.timeout /\ keep
             e == [d EXCEPT !.c1 = c, !.timeout = timeout]
  <2>1. timeout \in BOOLEAN OBVIOUS
  <2>2. timeout => d.timeout OBVIOUS
  <2> HIDE DEF timeout
  <2>3. e \in DiskState BY <1>1, <2>1 DEF DiskState
  <2>4. /\ e.c1 = c /\ e.timing = d.timing /\ e.sync = d.sync /\ e.aux = d.aux
        /\ e.ordinary = d.ordinary /\ e.format = d.format /\ e.timeout = timeout
        /\ e.ppi = d.ppi /\ e.pending = d.pending
    BY <1>1 DEF DiskState
  <2> HIDE DEF e
  <2>5. Stable(e) BY <1>1, <1>2, <2>2, <2>3, <2>4 DEF Stable, Gated, Enabled, Idle
  <2> QED BY <1>1, <2>4, <2>5, RefreshGood DEF e, timeout
<1>3. ASSUME NEW c \in Channel PROVE Good(Refresh([d EXCEPT !.c2 = c]))
  <2> DEFINE e == [d EXCEPT !.c2 = c]
  <2>1. e \in DiskState BY <1>1 DEF DiskState
  <2>2. /\ e.c1 = d.c1 /\ e.timing = d.timing /\ e.sync = d.sync /\ e.aux = d.aux
        /\ e.ordinary = d.ordinary /\ e.format = d.format /\ e.timeout = d.timeout
        /\ e.ppi = d.ppi /\ e.pending = d.pending
    BY <1>1 DEF DiskState
  <2> HIDE DEF e
  <2>3. Stable(e) BY <1>1, <2>1, <2>2 DEF Stable, Gated, Enabled, Idle
  <2> QED BY <1>1, <2>2, <2>3, RefreshGood DEF e
<1> QED BY <1>2, <1>3

(* The CPU may do anything with the disk-data 8255. *)
LEMMA DataPpiGood ==
  ASSUME NEW d, Good(d), NEW p, SettledPpi(p)
  PROVE  Good(Refresh([d EXCEPT !.ppi = p]))
<1>1. d \in DiskState /\ Stable(d) /\ d.pending = <<>> BY DEF Good, Stable
<1> DEFINE e == [d EXCEPT !.pending = <<>>, !.ppi = p]
<1>2. [d EXCEPT !.ppi = p] = e BY <1>1 DEF DiskState
<1>3. <<>> \in Seq(Cell) OBVIOUS
<1>4. Stable(e) BY <1>1, <1>3, WithPpi
<1>5. e.pending = <<>> BY <1>1 DEF DiskState
<1> HIDE DEF e
<1> QED BY <1>2, <1>4, <1>5, RefreshGood

(* Rewriting the control PPI's outputs and letting Machine follow them. *)
LEMMA ControlGood ==
  ASSUME NEW d, Good(d), NEW out \in BOOLEAN, NEW off \in BOOLEAN, NEW marks \in BOOLEAN
  PROVE  Good(Refresh(SynchronizeControl([d EXCEPT !.aOut = out, !.pa6 = off,
                                                   !.markClocks = marks])))
<1> DEFINE e == [d EXCEPT !.aOut = out, !.pa6 = off, !.markClocks = marks]
<1>1. d \in DiskState /\ Stable(d) /\ d.pending = <<>> BY DEF Good, Stable
<1>2. e \in DiskState BY <1>1 DEF DiskState
<1>3. /\ e.aux = d.aux /\ e.ordinary = d.ordinary /\ e.format = d.format
      /\ e.ppi = d.ppi /\ e.pending = d.pending
  BY <1>1 DEF DiskState
<1> HIDE DEF e
<1>4. SettledPpi(e.ppi) /\ Enabled(e) BY <1>1, <1>3 DEF Stable, Enabled
<1>5. /\ Stable(SynchronizeControl(e)) /\ SynchronizeControl(e).pending = <<>>
  BY <1>1, <1>2, <1>3, <1>4, SynchronizeControlStable
<1> QED BY <1>5, RefreshGood DEF e

(* Every access of the CPU keeps the invariant. *)
LEMMA CpuKeepsInv == Inv /\ Cpu => Inv'
<1> SUFFICES ASSUME Good(disk), Cpu PROVE Good(disk') BY DEF Inv
<1>1. disk \in DiskState /\ SettledPpi(disk.ppi) /\ Stable(disk) /\ disk.pending = <<>>
  BY DEF Good, Stable
<1>2. disk.c1 \in Channel /\ disk.c2 \in Channel /\ disk.aOut \in BOOLEAN
  BY <1>1 DEF DiskState
<1>3. \A m \in Modes1 \cup Modes2 : m \in 0 .. 7
  BY DiskAssumption
<1>4. \A v \in Counts1 \cup Counts2 : v \in Nat
  BY DiskAssumption, Bases
<1>5. CASE ProgramDataPpi \/ SetDataPpiBit \/ WriteData \/ ReadData
  <2>1. CASE ProgramDataPpi
    <3>1. PICK cw \in PpiWords : DataPpi(WriteMode(disk.ppi, cw)) BY <2>1 DEF ProgramDataPpi
    <3>2. SettledPpi(WriteMode(disk.ppi, cw)) BY <1>1, DiskAssumption, CpuOperationsSettle
    <3> QED BY <3>1, <3>2, DataPpiGood DEF DataPpi
  <2>2. CASE SetDataPpiBit
    <3>1. PICK bit \in Intes, set \in BOOLEAN : DataPpi(BitSetReset(disk.ppi, bit, set))
      BY <2>2 DEF SetDataPpiBit
    <3>2. SettledPpi(BitSetReset(disk.ppi, bit, set))
      BY <1>1, DiskAssumption, CpuOperationsSettle
    <3> QED BY <3>1, <3>2, DataPpiGood DEF DataPpi
  <2>3. CASE WriteData
    <3>1. PICK v \in WriteBytes : DataPpi(WriteA(disk.ppi, v)) BY <2>3 DEF WriteData
    <3>2. SettledPpi(WriteA(disk.ppi, v)) BY <1>1, DiskAssumption, CpuOperationsSettle
    <3> QED BY <3>1, <3>2, DataPpiGood DEF DataPpi
  <2>4. CASE ReadData
    <3>1. SettledPpi(ReadB(disk.ppi)) BY <1>1, CpuOperationsSettle
    <3> QED BY <2>4, <3>1, DataPpiGood DEF ReadData, DataPpi
  <2> QED BY <1>5, <2>1, <2>2, <2>3, <2>4
<1>6. CASE ProgramCounter1
  <2>1. PICK mode \in Modes1 :
          disk' = Refresh([disk EXCEPT !.c1 = Configure(@, "lsb", mode, FALSE), !.timeout = FALSE])
    BY <1>6 DEF ProgramCounter1
  <2> DEFINE c == Configure(disk.c1, "lsb", mode, FALSE)
  <2>2. c \in Channel /\ c.gate = disk.c1.gate
    BY <1>2, <1>3, ConfigureType, GateKept DEF Access
  <2>3. [disk EXCEPT !.c1 = c, !.timeout = FALSE] = [disk EXCEPT !.c1 = c, !.timeout = @ /\ FALSE]
    BY <1>1 DEF DiskState
  <2> HIDE DEF c
  <2>4. Good(Refresh([disk EXCEPT !.c1 = c, !.timeout = @ /\ FALSE])) BY <2>2, CountersGood
  <2> QED BY <2>1, <2>3, <2>4 DEF c
<1>7. CASE ProgramCounter2
  <2>1. PICK mode \in Modes2 :
          disk' = Refresh([disk EXCEPT !.c2 = Configure(@, "lsb", mode, FALSE)])
    BY <1>7 DEF ProgramCounter2
  <2>2. Configure(disk.c2, "lsb", mode, FALSE) \in Channel
    BY <1>2, <1>3, ConfigureType DEF Access
  <2> QED BY <2>1, <2>2, CountersGood
<1>8. CASE LoadCounter1
  <2>1. PICK v \in Counts1 : disk' = Refresh([disk EXCEPT !.c1 = WriteChannel(@, v)])
    BY <1>8 DEF LoadCounter1
  <2> DEFINE c == WriteChannel(disk.c1, v)
  <2>2. c \in Channel /\ c.gate = disk.c1.gate
    BY <1>2, <1>4, WriteChannelType, GateKept
  <2>3. [disk EXCEPT !.c1 = c] = [disk EXCEPT !.c1 = c, !.timeout = @ /\ TRUE]
    BY <1>1 DEF DiskState
  <2> HIDE DEF c
  <2>4. Good(Refresh([disk EXCEPT !.c1 = c, !.timeout = @ /\ TRUE])) BY <2>2, CountersGood
  <2> QED BY <2>1, <2>3, <2>4 DEF c
<1>9. CASE LoadCounter2
  <2>1. PICK v \in Counts2 : disk' = Refresh([disk EXCEPT !.c2 = WriteChannel(@, v)])
    BY <1>9 DEF LoadCounter2
  <2>2. WriteChannel(disk.c2, v) \in Channel BY <1>2, <1>4, WriteChannelType
  <2> QED BY <2>1, <2>2, CountersGood
<1>10. CASE WriteAux BY <1>1, <1>10, DiskAssumption, AfterWriteAuxGood DEF WriteAux
<1>11. CASE ProgramControlPpi BY <1>11, ControlGood DEF ProgramControlPpi
<1>12. CASE WriteControlPortA
  <2>1. PICK off \in BOOLEAN, marks \in Clocks :
          disk' = Refresh(SynchronizeControl([disk EXCEPT !.pa6 = off, !.markClocks = marks]))
    BY <1>12 DEF WriteControlPortA
  <2>2. [disk EXCEPT !.pa6 = off, !.markClocks = marks]
          = [disk EXCEPT !.aOut = disk.aOut, !.pa6 = off, !.markClocks = marks]
    BY <1>1 DEF DiskState
  <2> QED BY <1>2, <2>1, <2>2, DiskAssumption, ControlGood
<1>13. CASE WriteControlOther
  <2>1. Enabled(disk) BY <1>1 DEF Stable
  <2>2. Stable(SynchronizeControl(disk)) /\ SynchronizeControl(disk).pending = <<>>
    BY <1>1, <2>1, SynchronizeControlStable
  <2> QED BY <1>13, <2>2, RefreshGood DEF WriteControlOther
<1>14. CASE Reset BY <1>14, ResetGood DEF Reset
<1> QED BY <1>5, <1>6, <1>7, <1>8, <1>9, <1>10, <1>11, <1>12, <1>13, <1>14 DEF Cpu

(* Every step keeps it. *)
LEMMA InvStep == Inv /\ [Next]_vars => Inv'
<1> SUFFICES ASSUME Inv, [Next]_vars PROVE Good(disk') BY DEF Inv
<1>0. Good(disk) /\ Stable(disk) BY DEF Inv, Good
<1>1. CASE Cpu BY <1>1, CpuKeepsInv DEF Inv
<1>2. ASSUME NEW pulse \in BOOLEAN, AdvanceIdle(pulse) PROVE Good(disk')
  BY <1>0, <1>2, AfterAdvanceGood DEF AdvanceIdle
<1>3. ASSUME NEW pulse \in BOOLEAN, NEW cell \in Cell, AdvanceByte(cell, pulse)
      PROVE  Good(disk')
  BY <1>0, <1>3, ProcessByteStable, AfterAdvanceGood DEF AdvanceByte
<1>4. CASE UNCHANGED vars BY <1>0, <1>4 DEF vars
<1> QED BY <1>1, <1>2, <1>3, <1>4 DEF Next

(* The inductive invariant holds for every set of bytes, byte positions,   *)
(* control words, register values, modes and counts, in every order of CPU *)
(* accesses, clocks and bytes from the disk.                               *)
THEOREM Correct == Spec => []Inv
<1>1. Init => Inv BY ResetGood DEF Init, Inv
<1> QED BY <1>1, InvStep, PTL DEF Spec

(* After every call the interrupt edges are counted and the writes flushed. *)
THEOREM AlwaysSettled == Spec => []Settled
<1>1. Inv => Settled BY InvImplies
<1> QED BY <1>1, Correct, PTL

(* The state keeps its type, GATE1 follows disk timing and synchronization, *)
(* disk timing off leaves nothing of an operation behind, a high OUT2 keeps *)
(* the register and the write gates shut, and no gate is open without its   *)
(* enable bit.                                                              *)
THEOREM LatchesAlwaysAgree == Spec => []LatchesAgree
<1>1. Inv => LatchesAgree BY InvImplies DEF LatchesAgree
<1> QED BY <1>1, Correct, PTL

(* With the register clear and both gates shut. *)
Stopped(e, p) == e.aux = AuxClear /\ ~e.ordinary /\ ~e.format /\ e.ppi = p

(* refresh_interrupt_sources starts nothing. *)
LEMMA RefreshStopped ==
  ASSUME NEW d \in DiskState, Stopped(d, d.ppi)
  PROVE  Stopped(Refresh(d), d.ppi)
<1> DEFINE c == CountEdge(d)
<1>1. Stopped(c, d.ppi) /\ DOMAIN c = DOMAIN d BY DEF CountEdge, Stopped, DiskState
<1>2. DOMAIN d = {"ppi", "c1", "c2", "aux", "aOut", "pa6", "markClocks", "timing", "sync",
                  "level", "suppress", "ordinary", "format", "timeout", "tick", "pending"}
  BY DEF DiskState
<1> HIDE DEF c
<1>3. Stopped(EndOfData(c), d.ppi) BY <1>1, <1>2 DEF EndOfData, Stopped
<1> QED BY <1>1, <1>3 DEF Refresh, c

(* Nor does advance_time without a byte: OUT1 opens no write gate while    *)
(* the auxiliary register is clear.                                        *)
LEMMA AdvanceStopped ==
  ASSUME NEW d, Stable(d), Stopped(d, d.ppi), NEW pulse \in BOOLEAN
  PROVE  Stopped(AfterAdvance(d, pulse), d.ppi)
<1> DEFINE rises == Out1Rises(d)
           late == d.timeout \/ (d.timing /\ d.aux.re /\ d.aux.dm /\ rises)
           t == [d EXCEPT !.c1 = ClockOnce(@), !.timeout = late]
           b == BeforeFlush(d, pulse)
           e == [b EXCEPT !.pending = <<>>]
<1>1. d \in DiskState BY DEF Stable
<1>2. ~d.aux.we BY DEF AuxClear, Stopped
<1>3. ClockCounterOne(d) = t BY <1>2 DEF ClockCounterOne
<1> HIDE DEF rises, late
<1>4. Stopped(t, d.ppi) BY <1>1 DEF Stopped, DiskState
<1>5. Stopped(b, d.ppi) BY <1>3, <1>4 DEF BeforeFlush, Stopped
<1>6. b \in DiskState BY ClockCounterOneStable DEF BeforeFlush, Stable
<1> HIDE DEF b
<1>7. e \in DiskState /\ Stopped(e, d.ppi) /\ e.ppi = d.ppi
  <2>1. <<>> \in Seq(Cell) OBVIOUS
  <2>2. e \in DiskState BY <1>6, <2>1 DEF DiskState
  <2> QED BY <1>5, <1>6, <2>2 DEF DiskState, Stopped
<1> HIDE DEF e
<1>8. Stopped(Refresh(e), d.ppi) BY <1>7, RefreshStopped
<1> QED BY <1>8 DEF AfterAdvance, e, b

(* The second Index stops a format operation before the serializer runs.   *)
LEMMA FormatEndStops ==
  ASSUME NEW d \in DiskState PROVE Stopped(FormatEnd(d), d.ppi)
<1> DEFINE closed == SetGate(d.c1, FALSE)
           e == [d EXCEPT !.ordinary = FALSE, !.format = FALSE, !.aux = AuxClear,
                          !.sync = FALSE, !.c1 = closed]
<1>1. closed \in Channel BY SetGateType DEF DiskState
<1>2. FormatEnd(d) = Refresh(e) BY DEF FormatEnd
<1> HIDE DEF closed
<1>3. e \in DiskState /\ Stopped(e, d.ppi) /\ e.ppi = d.ppi
  BY <1>1, AuxClearType DEF DiskState, Stopped
<1> HIDE DEF e
<1> QED BY <1>2, <1>3, RefreshStopped

(* Formatting lasts exactly one revolution: whatever the CPU did before,   *)
(* the second Index hands no byte to the serializer.                       *)
THEOREM FormatEndsAtSecondIndex == Spec => []SecondIndexWritesNothing
<1>1. Inv => SecondIndexWritesNothing
  <2> SUFFICES ASSUME Inv, NEW cell \in Cell, NEW pulse \in BOOLEAN,
                      disk.format, AtIndex(disk, cell)
               PROVE  Stopped(AfterAdvance(ProcessByte(disk, cell), pulse), disk.ppi)
    BY DEF SecondIndexWritesNothing, Stopped
  <2> DEFINE started == disk.format \/ AtIndex(disk, cell)
             at == [disk EXCEPT !.tick = cell.tick, !.format = started]
             d == ProcessByte(disk, cell)
  <2>1. Stable(disk) /\ disk \in DiskState BY DEF Inv, Good, Stable
  <2>2. started /\ disk.timing BY DEF AtIndex
  <2>3. d = FormatEnd(at) BY <2>2 DEF ProcessByte
  <2>4. at \in DiskState /\ at.ppi = disk.ppi
    <3> HIDE DEF started
    <3> QED BY <2>1, <2>2 DEF DiskState, Cell
  <2> HIDE DEF at
  <2>5. Stopped(d, disk.ppi) /\ Stable(d) BY <2>1, <2>3, <2>4, FormatEndStops, ProcessByteStable
  <2> HIDE DEF d
  <2>6. d.ppi = disk.ppi BY <2>5 DEF Stopped
  <2> QED BY <2>5, <2>6, AdvanceStopped DEF d
<1> QED BY <1>1, Correct, PTL

----------------------------------------------------------------------------
(* I5 and I7.  OUT2 rises only where refresh_interrupt_sources counts an   *)
(* edge of the request, and at once ends the operation, so that nothing    *)
(* later in the same call can serve the request again: whatever the call   *)
(* does after it, OUT2 that rose in it leaves it with the request up.      *)
Asking(d) == d.ppi.a.intr \/ d.ppi.b.intr
Announced(d) == Idle(d) /\ d.level /\ Asking(d)

(* The state d inside a call that began with OUT2 at was.  Counter 2 counts *)
(* in mode 0 throughout.                                                    *)
Announces(d, was) == d.c2.mode = 0 /\ (d.c2.output => was \/ Announced(d))

(* In mode 0 neither a new count, a new mode nor the gate raises OUT2. *)
LEMMA ModeZeroKept ==
  ASSUME NEW ch \in Channel, ch.mode = 0
  PROVE  /\ ClockOnce(ch).mode = 0
         /\ Configure(ch, "lsb", 0, FALSE).mode = 0
         /\ ~Configure(ch, "lsb", 0, FALSE).output
         /\ \A v \in Nat : /\ WriteChannel(ch, v).mode = 0
                           /\ WriteChannel(ch, v).output => ch.output
<1>1. ClockOnce(ch).mode = 0
  BY DEF ClockOnce, ToTerminalCount, CountDown, Channel
<1>2. Configure(ch, "lsb", 0, FALSE).mode = 0 /\ ~Configure(ch, "lsb", 0, FALSE).output
  <2> DEFINE output == 0 # 0
  <2>1. /\ Configure(ch, "lsb", 0, FALSE).mode = 0
        /\ Configure(ch, "lsb", 0, FALSE).output = output
    <3> HIDE DEF output
    <3> QED BY DEF Configure, ResetChannel, output
  <2> QED BY <2>1
<1>3. ASSUME NEW v \in Nat
      PROVE  WriteChannel(ch, v).mode = 0 /\ (WriteChannel(ch, v).output => ch.output)
  BY DEF WriteChannel, Load, Channel, Access
<1> QED BY <1>1, <1>2, <1>3

(* refresh_interrupt_sources, *)
LEMMA RefreshAnnounces ==
  ASSUME NEW d, Stable(d), NEW was \in BOOLEAN, Announces(d, was)
  PROVE  Announces(Refresh(d), was)
<1> DEFINE e == CountEdge(d)
           line == Asking(d)
           edge == line /\ ~d.level
           suppress == d.suppress /\ ~edge
           count == IF edge /\ ~d.suppress THEN ClockOnce(d.c2) ELSE d.c2
<1>1. d \in DiskState /\ d.c2 \in Channel /\ d.c2.mode = 0
  BY DEF Stable, DiskState, Announces
<1>2. e = [d EXCEPT !.level = line, !.suppress = suppress, !.c2 = count]
  BY DEF CountEdge, Asking
<1>3. count.mode = 0 /\ (count.output => d.c2.output \/ edge)
  BY <1>1, ModeZeroKept
<1>4. line \in BOOLEAN /\ suppress \in BOOLEAN
  BY DEF Asking
<1>5. Stable(e) /\ e.ppi = d.ppi
  BY CountEdgeStable
<1> HIDE DEF e, suppress, count
<1>6. e.level = line /\ e.c2 = count /\ e.aux = d.aux /\ e.sync = d.sync
      /\ e.ordinary = d.ordinary /\ e.format = d.format
  BY <1>1, <1>2 DEF DiskState
<1>7. e.c2.output => was \/ (e.level /\ Asking(e))
  BY <1>3, <1>5, <1>6 DEF Announces, Announced, Asking
<1>8. CASE ~e.c2.output
  BY <1>3, <1>6, <1>8 DEF Refresh, e, Announces
<1>9. CASE e.c2.output
  <2> DEFINE r == EndOfData(e)
  <2>1. Refresh(d) = r
    BY <1>9 DEF Refresh, e
  <2>2. Idle(r) /\ r.ppi = e.ppi /\ r.level = e.level /\ r.c2 = e.c2
    BY <1>5, EndOfDataStable
  <2> HIDE DEF r
  <2> QED BY <1>3, <1>6, <1>7, <2>1, <2>2 DEF Announces, Announced, Asking
<1> QED BY <1>8, <1>9

(* a byte taken or handed over while an operation is on, *)
LEMMA TransferAnnounces ==
  ASSUME NEW d, Stable(d), ~Idle(d), NEW was \in BOOLEAN, Announces(d, was)
  PROVE  /\ \A tick \in Ticks : Announces(TransferWriteByte(d, tick), was)
         /\ \A v \in Byte : Announces(Deserialize(d, v), was)
<1>1. d \in DiskState /\ d.pending \in Seq(Cell) /\ d.c2.mode = 0 /\ (d.c2.output => was)
  BY DEF Stable, DiskState, Announces, Announced
<1>2. ASSUME NEW p, SettledPpi(p), NEW cells \in Seq(Cell)
      PROVE  Announces(Refresh([d EXCEPT !.pending = cells, !.ppi = p]), was)
  <2> DEFINE e == [d EXCEPT !.pending = cells, !.ppi = p]
  <2>1. Stable(e)
    BY <1>2, WithPpi
  <2>2. e.c2 = d.c2
    BY <1>1 DEF DiskState
  <2> HIDE DEF e
  <2>3. Announces(e, was)
    BY <1>1, <2>2 DEF Announces
  <2> QED BY <2>1, <2>3, RefreshAnnounces DEF e
<1>3. ASSUME NEW tick \in Ticks PROVE Announces(TransferWriteByte(d, tick), was)
  <2>1. Append(d.pending, WrittenCell(d, tick)) \in Seq(Cell)
    BY <1>1, WrittenCellType
  <2>2. SettledPpi(PulseAckA(d.ppi))
    BY DeviceOperationsSettle DEF Stable
  <2> QED BY <1>2, <2>1, <2>2 DEF TransferWriteByte
<1>4. ASSUME NEW v \in Byte PROVE Announces(Deserialize(d, v), was)
  <2>1. SettledPpi(PulseStrobeB(d.ppi, v))
    BY DeviceOperationsSettle DEF Stable
  <2>2. [d EXCEPT !.ppi = PulseStrobeB(@, v)]
          = [d EXCEPT !.pending = d.pending, !.ppi = PulseStrobeB(d.ppi, v)]
    BY <1>1 DEF DiskState
  <2> QED BY <1>1, <1>2, <2>1, <2>2 DEF Deserialize
<1> QED BY <1>3, <1>4

(* process_floppy_byte, *)
LEMMA ByteAnnounces ==
  ASSUME NEW d, Stable(d), NEW was \in BOOLEAN, Announces(d, was), NEW cell \in Cell
  PROVE  /\ Announces(ByteWritten(d, cell), was)
         /\ Announces(ByteRead(d, cell), was)
<1>1. d \in DiskState /\ cell.tick \in Ticks /\ cell.data \in Byte
  BY DEF Stable, Cell
<1>2. Announces(ByteWritten(d, cell), was)
  <2>1. CASE d.format \/ d.ordinary
    <3>1. ~Idle(d)
      BY <2>1 DEF Idle
    <3> QED BY <1>1, <2>1, <3>1, TransferAnnounces DEF ByteWritten
  <2>2. CASE ~(d.format \/ d.ordinary)
    BY <2>2 DEF ByteWritten
  <2> QED BY <2>1, <2>2
<1>3. Announces(ByteRead(d, cell), was)
  <2>1. CASE d.aux.re
    <3>1. ~Idle(d)
      BY <2>1 DEF Idle, AuxClear
    <3>2. d.timing
      BY <3>1 DEF Stable
    <3> DEFINE s == Synchronize(d)
    <3>3. Stable(s)
      BY <3>2, SynchronizeStable
    <3>4. s.c2 = d.c2 /\ s.aux = d.aux
      BY <1>1 DEF Synchronize, DiskState
    <3> HIDE DEF s
    <3>5. ~Idle(s)
      BY <2>1, <3>4 DEF Idle, AuxClear
    <3>6. Announces(s, was)
      BY <3>1, <3>4 DEF Announces, Announced
    <3>7. Announces(Deserialize(s, cell.data), was)
      BY <1>1, <3>3, <3>5, <3>6, TransferAnnounces
    <3>8. Announces(Deserialize(d, cell.data), was)
      BY <1>1, <3>1, TransferAnnounces
    <3> QED BY <3>7, <3>8 DEF ByteRead, s
  <2>2. CASE ~d.aux.re
    BY <2>2 DEF ByteRead
  <2> QED BY <2>1, <2>2
<1> QED BY <1>2, <1>3

LEMMA ProcessByteAnnounces ==
  ASSUME NEW d, Stable(d), NEW was \in BOOLEAN, Announces(d, was), NEW cell \in Cell
  PROVE  Announces(ProcessByte(d, cell), was)
<1> DEFINE index == AtIndex(d, cell)
           format == d.format \/ index
           at == [d EXCEPT !.tick = cell.tick, !.format = format]
           seen == IF at.format \/ at.ordinary THEN WrittenCell(at, cell.tick) ELSE cell
           shut == SetGate(at.c1, FALSE)
           e == [at EXCEPT !.ordinary = FALSE, !.format = FALSE, !.aux = AuxClear,
                           !.sync = FALSE, !.c1 = shut]
<1>1. d \in DiskState /\ cell.tick \in Ticks /\ d.c1 \in Channel
  BY DEF Stable, DiskState, Cell
<1>2. index \in BOOLEAN /\ (index => d.timing /\ d.aux.fm)
  BY <1>1 DEF AtIndex, DiskState, Aux
<1>3. format \in BOOLEAN
  BY <1>1, <1>2 DEF DiskState
<1>4. ProcessByte(d, cell) =
        IF ~d.timing THEN at
        ELSE IF d.format /\ index THEN FormatEnd(at)
        ELSE ByteRead(ByteWritten(at, cell), seen)
  BY DEF ProcessByte
<1>5. format => d.format \/ d.aux.fm
  BY <1>2
<1> HIDE DEF index, format
<1>6. at \in DiskState
  BY <1>1, <1>3 DEF DiskState
<1>7. /\ at.c1 = d.c1 /\ at.c2 = d.c2 /\ at.timing = d.timing /\ at.sync = d.sync
      /\ at.aux = d.aux /\ at.level = d.level /\ at.ordinary = d.ordinary
      /\ at.format = format /\ at.timeout = d.timeout /\ at.ppi = d.ppi
  BY <1>1 DEF DiskState
<1> HIDE DEF at
<1>8. ~format \/ d.timing
  BY <1>2 DEF format, Stable, Idle
<1>9. Stable(at)
  BY <1>2, <1>5, <1>6, <1>7, <1>8 DEF Stable, Gated, Enabled, Idle, format
<1>10. Idle(d) => ~format
  BY <1>5 DEF Idle, AuxClear
<1>11. Announces(at, was)
  BY <1>7, <1>10 DEF Announces, Announced, Asking, Idle
<1>12. seen \in Cell
  BY <1>1, <1>9, WrittenCellType
<1>13. Stable(ByteWritten(at, cell))
  BY <1>1, <1>9, TransferWriteByteStable DEF ByteWritten
<1> HIDE DEF seen
<1>14. Announces(ByteRead(ByteWritten(at, cell), seen), was)
  BY <1>9, <1>11, <1>12, <1>13, ByteAnnounces
<1>15. d.timing /\ d.format => Announces(FormatEnd(at), was)
  <2> SUFFICES ASSUME d.timing, d.format PROVE Announces(FormatEnd(at), was)
    OBVIOUS
  <2>1. FormatEnd(at) = Refresh(e)
    BY DEF FormatEnd
  <2>2. shut \in Channel /\ shut.gate = FALSE
    BY <1>1, <1>7, SetGateType, GateKept
  <2> HIDE DEF shut
  <2>3. e \in DiskState
    BY <1>6, <2>2, AuxClearType DEF DiskState
  <2>4. /\ e.c1 = shut /\ e.c2 = at.c2 /\ e.timing = at.timing /\ e.sync = FALSE
        /\ e.aux = AuxClear /\ e.ordinary = FALSE /\ e.format = FALSE /\ e.ppi = at.ppi
    BY <1>6 DEF DiskState
  <2> HIDE DEF e
  <2>5. Stable(e)
    BY <1>7, <1>9, <2>2, <2>3, <2>4 DEF Stable, Gated, Enabled, Idle
  <2>6. Announces(e, was)
    BY <1>7, <2>4 DEF Announces, Announced, Idle
  <2> QED BY <2>1, <2>5, <2>6, RefreshAnnounces
<1> QED BY <1>4, <1>11, <1>14, <1>15

(* a tick of CLK1, and so the whole of advance_time, *)
LEMMA AdvanceAnnounces ==
  ASSUME NEW d, Stable(d), NEW was \in BOOLEAN, Announces(d, was), NEW pulse \in BOOLEAN
  PROVE  Announces(AfterAdvance(d, pulse), was)
<1> DEFINE rises == Out1Rises(d)
           late == d.timeout \/ (d.timing /\ d.aux.re /\ d.aux.dm /\ rises)
           clocked == ClockOnce(d.c1)
           t == [d EXCEPT !.c1 = clocked, !.timeout = late]
           w == [t EXCEPT !.ordinary = TRUE]
           b == BeforeFlush(d, pulse)
           e == [b EXCEPT !.pending = <<>>]
<1>1. d \in DiskState /\ d.c1 \in Channel /\ d.tick \in Ticks
  BY DEF Stable, DiskState
<1>2. /\ clocked \in Channel /\ clocked.gate = d.c1.gate
      /\ late \in BOOLEAN /\ (late => d.timeout \/ d.timing)
  BY <1>1, ClockOnceType, GateKept DEF DiskState
<1>3. ClockCounterOne(d) =
        IF rises /\ d.timing /\ d.aux.we /\ ~d.ordinary THEN TransferWriteByte(w, d.tick) ELSE t
  BY DEF ClockCounterOne
<1> HIDE DEF late, clocked, rises
<1>4. t \in DiskState
  BY <1>1, <1>2 DEF DiskState
<1>5. /\ t.c1 = clocked /\ t.c2 = d.c2 /\ t.timing = d.timing /\ t.sync = d.sync
      /\ t.aux = d.aux /\ t.ordinary = d.ordinary /\ t.format = d.format
      /\ t.timeout = late /\ t.ppi = d.ppi /\ t.level = d.level
  BY <1>1 DEF DiskState
<1> HIDE DEF t
<1>6. Announces(t, was)
  BY <1>5 DEF Announces, Announced, Asking, Idle
<1>7. d.timing /\ d.aux.we => Announces(TransferWriteByte(w, d.tick), was)
  <2> SUFFICES ASSUME d.timing, d.aux.we PROVE Announces(TransferWriteByte(w, d.tick), was)
    OBVIOUS
  <2>1. w \in DiskState
    BY <1>4 DEF DiskState
  <2>2. /\ w.c1 = t.c1 /\ w.c2 = t.c2 /\ w.timing = t.timing /\ w.sync = t.sync
        /\ w.aux = t.aux /\ w.ordinary = TRUE /\ w.format = t.format
        /\ w.timeout = t.timeout /\ w.ppi = t.ppi
    BY <1>4 DEF DiskState
  <2> HIDE DEF w
  <2>3. Stable(w)
    BY <1>2, <1>5, <2>1, <2>2 DEF Stable, Gated, Enabled
  <2>4. ~Idle(w) /\ ~Idle(t)
    BY <1>5, <2>2 DEF Idle, AuxClear
  <2>5. Announces(w, was)
    BY <1>6, <2>2, <2>4 DEF Announces, Announced
  <2> QED BY <1>1, <2>3, <2>4, <2>5, TransferAnnounces
<1>8. Announces(b, was)
  BY <1>3, <1>6, <1>7 DEF BeforeFlush
<1>9. Stable(b) /\ b \in DiskState
  BY ClockCounterOneStable DEF BeforeFlush, Stable
<1> HIDE DEF b
<1>10. e \in DiskState
  <2>1. <<>> \in Seq(Cell) OBVIOUS
  <2> QED BY <1>9, <2>1 DEF DiskState
<1>11. /\ e.c1 = b.c1 /\ e.c2 = b.c2 /\ e.timing = b.timing /\ e.sync = b.sync
       /\ e.aux = b.aux /\ e.ordinary = b.ordinary /\ e.format = b.format
       /\ e.timeout = b.timeout /\ e.ppi = b.ppi /\ e.level = b.level
  BY <1>9 DEF DiskState
<1> HIDE DEF e
<1>12. Stable(e) /\ Announces(e, was)
  BY <1>8, <1>9, <1>10, <1>11
     DEF Stable, Gated, Enabled, Idle, Announces, Announced, Asking
<1> QED BY <1>12, RefreshAnnounces DEF AfterAdvance, b, e

(* and every access of the CPU that programs counter 2 in mode 0. *)
LEMMA CpuAnnounces ==
  ASSUME Modes2 \subseteq {0}, Inv, Cpu, disk.c2.mode = 0
  PROVE  Announces(disk', disk.c2.output)
<1> DEFINE was == disk.c2.output
<1>1. /\ disk \in DiskState /\ Stable(disk) /\ disk.pending = <<>> /\ SettledPpi(disk.ppi)
      /\ disk.c1 \in Channel /\ disk.c2 \in Channel /\ was \in BOOLEAN
  BY DEF Inv, Good, Stable, DiskState, Channel
<1>2. \A v \in Counts1 \cup Counts2 : v \in Nat
  BY DiskAssumption, Bases
<1>3. ASSUME NEW d, Stable(d), d.c2 = disk.c2
      PROVE  Announces(Refresh(d), was)
  BY <1>1, <1>3, RefreshAnnounces DEF Announces
<1>4. ASSUME NEW p, SettledPpi(p) PROVE Announces(Refresh([disk EXCEPT !.ppi = p]), was)
  <2> DEFINE e == [disk EXCEPT !.pending = disk.pending, !.ppi = p]
  <2>1. e = [disk EXCEPT !.ppi = p]
    BY <1>1 DEF DiskState
  <2>2. disk.pending \in Seq(Cell)
    BY <1>1 DEF DiskState
  <2>3. Stable(e) /\ e.c2 = disk.c2
    BY <1>1, <1>4, <2>2, WithPpi DEF DiskState
  <2> HIDE DEF e
  <2> QED BY <1>3, <2>1, <2>3
<1>5. CASE ProgramDataPpi \/ SetDataPpiBit \/ WriteData \/ ReadData
  <2>1. CASE ProgramDataPpi
    <3>1. PICK cw \in PpiWords : DataPpi(WriteMode(disk.ppi, cw))
      BY <2>1 DEF ProgramDataPpi
    <3>2. SettledPpi(WriteMode(disk.ppi, cw))
      BY <1>1, DiskAssumption, CpuOperationsSettle
    <3> QED BY <1>4, <3>1, <3>2 DEF DataPpi
  <2>2. CASE SetDataPpiBit
    <3>1. PICK bit \in Intes, set \in BOOLEAN : DataPpi(BitSetReset(disk.ppi, bit, set))
      BY <2>2 DEF SetDataPpiBit
    <3>2. SettledPpi(BitSetReset(disk.ppi, bit, set))
      BY <1>1, DiskAssumption, CpuOperationsSettle
    <3> QED BY <1>4, <3>1, <3>2 DEF DataPpi
  <2>3. CASE WriteData
    <3>1. PICK v \in WriteBytes : DataPpi(WriteA(disk.ppi, v))
      BY <2>3 DEF WriteData
    <3>2. SettledPpi(WriteA(disk.ppi, v))
      BY <1>1, DiskAssumption, CpuOperationsSettle
    <3> QED BY <1>4, <3>1, <3>2 DEF DataPpi
  <2>4. CASE ReadData
    <3>1. SettledPpi(ReadB(disk.ppi))
      BY <1>1, CpuOperationsSettle
    <3> QED BY <1>4, <2>4, <3>1 DEF ReadData, DataPpi
  <2> QED BY <1>5, <2>1, <2>2, <2>3, <2>4
<1>6. ASSUME NEW c \in Channel, NEW timeout \in BOOLEAN,
             c.gate = disk.c1.gate, timeout => disk.timeout
      PROVE  Announces(Refresh([disk EXCEPT !.c1 = c, !.timeout = timeout]), was)
  <2> DEFINE e == [disk EXCEPT !.c1 = c, !.timeout = timeout]
  <2>1. e \in DiskState
    BY <1>1 DEF DiskState
  <2>2. /\ e.c1 = c /\ e.c2 = disk.c2 /\ e.timing = disk.timing /\ e.sync = disk.sync
        /\ e.aux = disk.aux /\ e.ordinary = disk.ordinary /\ e.format = disk.format
        /\ e.timeout = timeout /\ e.ppi = disk.ppi
    BY <1>1 DEF DiskState
  <2> HIDE DEF e
  <2>3. Stable(e)
    BY <1>1, <1>6, <2>1, <2>2 DEF Stable, Gated, Enabled, Idle
  <2> QED BY <1>3, <2>2, <2>3 DEF e
<1>7. CASE ProgramCounter1
  <2>1. PICK mode \in Modes1 :
          disk' = Refresh([disk EXCEPT !.c1 = Configure(@, "lsb", mode, FALSE), !.timeout = FALSE])
    BY <1>7 DEF ProgramCounter1
  <2> DEFINE c == Configure(disk.c1, "lsb", mode, FALSE)
             no == FALSE
  <2>2. c \in Channel /\ c.gate = disk.c1.gate
    <3>1. mode \in 0 .. 7
      BY DiskAssumption
    <3> QED BY <1>1, <3>1, ConfigureType, GateKept DEF Access
  <2>3. no \in BOOLEAN /\ ~no
    OBVIOUS
  <2>4. disk' = Refresh([disk EXCEPT !.c1 = c, !.timeout = no])
    BY <2>1
  <2> HIDE DEF c, no
  <2> QED BY <1>6, <2>2, <2>3, <2>4
<1>8. CASE LoadCounter1
  <2>1. PICK v \in Counts1 : disk' = Refresh([disk EXCEPT !.c1 = WriteChannel(@, v)])
    BY <1>8 DEF LoadCounter1
  <2> DEFINE c == WriteChannel(disk.c1, v)
  <2>2. c \in Channel /\ c.gate = disk.c1.gate
    BY <1>1, <1>2, WriteChannelType, GateKept
  <2> HIDE DEF c
  <2>3. [disk EXCEPT !.c1 = c] = [disk EXCEPT !.c1 = c, !.timeout = disk.timeout]
    BY <1>1 DEF DiskState
  <2>4. disk.timeout \in BOOLEAN
    BY <1>1 DEF DiskState
  <2> QED BY <1>6, <2>1, <2>2, <2>3, <2>4 DEF c
<1>9. ASSUME NEW c \in Channel, c.mode = 0, c.output => was
      PROVE  Announces(Refresh([disk EXCEPT !.c2 = c]), was)
  <2> DEFINE e == [disk EXCEPT !.c2 = c]
  <2>1. e \in DiskState
    BY <1>1 DEF DiskState
  <2>2. /\ e.c1 = disk.c1 /\ e.c2 = c /\ e.timing = disk.timing /\ e.sync = disk.sync
        /\ e.aux = disk.aux /\ e.ordinary = disk.ordinary /\ e.format = disk.format
        /\ e.timeout = disk.timeout /\ e.ppi = disk.ppi
    BY <1>1 DEF DiskState
  <2> HIDE DEF e
  <2>3. Stable(e)
    BY <1>1, <2>1, <2>2 DEF Stable, Gated, Enabled, Idle
  <2>4. Announces(e, was)
    BY <1>9, <2>2 DEF Announces
  <2> QED BY <1>1, <2>3, <2>4, RefreshAnnounces DEF e
<1>10. CASE ProgramCounter2
  <2>1. disk' = Refresh([disk EXCEPT !.c2 = Configure(@, "lsb", 0, FALSE)])
    BY <1>10 DEF ProgramCounter2
  <2>2. Configure(disk.c2, "lsb", 0, FALSE) \in Channel
    <3>1. 0 \in 0 .. 7
      OBVIOUS
    <3> QED BY <1>1, <3>1, ConfigureType DEF Access
  <2> QED BY <1>1, <1>9, <2>1, <2>2, ModeZeroKept
<1>11. CASE LoadCounter2
  <2>1. PICK v \in Counts2 : disk' = Refresh([disk EXCEPT !.c2 = WriteChannel(@, v)])
    BY <1>11 DEF LoadCounter2
  <2>2. WriteChannel(disk.c2, v) \in Channel
    BY <1>1, <1>2, WriteChannelType
  <2> QED BY <1>1, <1>2, <1>9, <2>1, <2>2, ModeZeroKept
<1>12. CASE WriteAux
  <2>1. PICK a \in Registers : disk' = AfterWriteAux(disk, a)
    BY <1>12 DEF WriteAux
  <2> DEFINE next == IF disk.timing THEN a ELSE AuxClear
             ordinary == disk.ordinary /\ a.we
             format == disk.format /\ a.fm
             timeout == disk.timeout /\ (a.re \/ a.fm)
             e == [disk EXCEPT !.ordinary = ordinary, !.format = format,
                               !.timeout = timeout, !.aux = next]
  <2>2. a \in Aux /\ next \in Aux
    BY DiskAssumption, AuxClearType
  <2>3. ordinary \in BOOLEAN /\ format \in BOOLEAN /\ timeout \in BOOLEAN
    OBVIOUS
  <2>4. e \in DiskState
    <3> HIDE DEF next, ordinary, format, timeout
    <3> QED BY <1>1, <2>2, <2>3 DEF DiskState
  <2>5. /\ e.c1 = disk.c1 /\ e.c2 = disk.c2 /\ e.timing = disk.timing /\ e.sync = disk.sync
        /\ e.aux = next /\ e.ordinary = ordinary /\ e.format = format
        /\ e.timeout = timeout /\ e.ppi = disk.ppi
    BY <1>1 DEF DiskState
  <2>6. Stable(e)
    BY <1>1, <2>4, <2>5 DEF Stable, Gated, Enabled, Idle
  <2>7. disk' = Refresh(e)
    BY <2>1 DEF AfterWriteAux
  <2> HIDE DEF e
  <2> QED BY <1>3, <2>5, <2>6, <2>7
<1>13. ASSUME NEW d \in DiskState, SettledPpi(d.ppi), Enabled(d), d.c2 = disk.c2
       PROVE  Announces(Refresh(SynchronizeControl(d)), was)
  <2>1. Stable(SynchronizeControl(d))
    BY <1>13, SynchronizeControlStable
  <2>2. SynchronizeControl(d).c2 = d.c2
    BY <1>13 DEF SynchronizeControl, DiskState
  <2> QED BY <1>3, <1>13, <2>1, <2>2
<1>14. ASSUME NEW out \in BOOLEAN, NEW off \in BOOLEAN, NEW marks \in BOOLEAN
       PROVE  Announces(Refresh(SynchronizeControl(
                [disk EXCEPT !.aOut = out, !.pa6 = off, !.markClocks = marks])), was)
  <2> DEFINE e == [disk EXCEPT !.aOut = out, !.pa6 = off, !.markClocks = marks]
  <2>1. e \in DiskState
    BY <1>1 DEF DiskState
  <2>2. /\ e.aux = disk.aux /\ e.ordinary = disk.ordinary /\ e.format = disk.format
        /\ e.ppi = disk.ppi /\ e.c2 = disk.c2
    BY <1>1 DEF DiskState
  <2> HIDE DEF e
  <2>3. SettledPpi(e.ppi) /\ Enabled(e)
    BY <1>1, <2>2 DEF Stable, Enabled
  <2> QED BY <1>13, <2>1, <2>2, <2>3 DEF e
<1>15. CASE ProgramControlPpi
  <2>1. PICK out \in BOOLEAN :
          disk' = Refresh(SynchronizeControl(
                    [disk EXCEPT !.aOut = out, !.pa6 = FALSE, !.markClocks = FALSE]))
    BY <1>15 DEF ProgramControlPpi
  <2> DEFINE no == FALSE
  <2>2. no \in BOOLEAN
    OBVIOUS
  <2>3. disk' = Refresh(SynchronizeControl(
                  [disk EXCEPT !.aOut = out, !.pa6 = no, !.markClocks = no]))
    BY <2>1
  <2> HIDE DEF no
  <2> QED BY <1>14, <2>2, <2>3
<1>16. CASE WriteControlPortA
  <2>1. PICK off \in BOOLEAN, marks \in Clocks :
          disk' = Refresh(SynchronizeControl([disk EXCEPT !.pa6 = off, !.markClocks = marks]))
    BY <1>16 DEF WriteControlPortA
  <2>2. [disk EXCEPT !.pa6 = off, !.markClocks = marks]
          = [disk EXCEPT !.aOut = disk.aOut, !.pa6 = off, !.markClocks = marks]
    BY <1>1 DEF DiskState
  <2>3. disk.aOut \in BOOLEAN
    BY <1>1 DEF DiskState
  <2> QED BY <1>14, <2>1, <2>2, <2>3, DiskAssumption
<1>17. CASE WriteControlOther
  <2>1. Enabled(disk)
    BY <1>1 DEF Stable
  <2> QED BY <1>1, <1>13, <1>17, <2>1 DEF WriteControlOther
<1>18. CASE Reset
  <2> DEFINE open == TRUE
             c == SetGate(ResetChannel, open)
  <2>1. c.mode = 0 /\ c.output = FALSE
    <3> HIDE DEF open
    <3> QED BY DEF SetGate, ResetChannel
  <2>2. ResetDisk.c2 = c
    BY DEF ResetDisk
  <2> HIDE DEF c
  <2>3. Announces(ResetDisk, was)
    BY <2>1, <2>2 DEF Announces
  <2> QED BY <1>1, <1>18, <2>3, ResetStable, RefreshAnnounces DEF Reset
<1> QED BY <1>5, <1>7, <1>8, <1>10, <1>11, <1>12, <1>15, <1>16, <1>17, <1>18 DEF Cpu


(* With counter 2 programmed in mode 0, as hardware-spec.md 8.3 has it,    *)
(* its end never comes without the request of the byte that ended it, for  *)
(* every count, in every order of CPU accesses, clocks and bytes.          *)
THEOREM LastByteAlwaysAnnounced ==
  ASSUME Modes2 \subseteq {0}
  PROVE  Spec => LastByteIsAnnounced
<1> DEFINE Zeroed == disk.c2.mode = 0
           Rises == ~disk.c2.output /\ disk'.c2.output => disk'.level
<1>1. Init => Inv /\ Zeroed
  <2> SUFFICES ASSUME Init PROVE Inv /\ Zeroed
    OBVIOUS
  <2> DEFINE was == TRUE
             open == TRUE
             c == SetGate(ResetChannel, open)
  <2>1. c.mode = 0
    <3> HIDE DEF open
    <3> QED BY DEF SetGate, ResetChannel
  <2>2. ResetDisk.c2 = c
    BY DEF ResetDisk
  <2>3. was \in BOOLEAN /\ was
    OBVIOUS
  <2> HIDE DEF c, was
  <2>4. Announces(ResetDisk, was)
    BY <2>1, <2>2, <2>3 DEF Announces
  <2>5. Announces(Refresh(ResetDisk), was)
    BY <2>3, <2>4, ResetStable, RefreshAnnounces
  <2> QED BY <2>5, ResetGood DEF Init, Inv, Announces
<1>2. Inv /\ Zeroed /\ [Next]_vars => Zeroed' /\ Rises
  <2> SUFFICES ASSUME Inv, Zeroed, [Next]_vars PROVE Zeroed' /\ Rises
    OBVIOUS
  <2>1. /\ Good(disk) /\ Stable(disk) /\ disk.c2.output \in BOOLEAN
        /\ Announces(disk, disk.c2.output)
    BY DEF Inv, Good, Stable, DiskState, Channel, Announces
  <2>2. Announces(disk', disk.c2.output) => Zeroed' /\ Rises
    BY DEF Announces, Announced
  <2>3. CASE Cpu
    BY <2>2, <2>3, CpuAnnounces
  <2>4. ASSUME NEW pulse \in BOOLEAN, AdvanceIdle(pulse)
        PROVE  Announces(disk', disk.c2.output)
    BY <2>1, <2>4, AdvanceAnnounces DEF AdvanceIdle
  <2>5. ASSUME NEW pulse \in BOOLEAN, NEW cell \in Cell, AdvanceByte(cell, pulse)
        PROVE  Announces(disk', disk.c2.output)
    BY <2>1, <2>5, ProcessByteStable, ProcessByteAnnounces, AdvanceAnnounces DEF AdvanceByte
  <2>6. CASE UNCHANGED vars
    BY <2>6 DEF vars
  <2> QED BY <2>2, <2>3, <2>4, <2>5, <2>6 DEF Next
<1>3. Inv /\ Zeroed /\ [Next]_vars => [Rises]_vars
  BY <1>2
<1>4. Inv /\ [Next]_vars => Inv'
  BY InvStep
<1> QED BY <1>1, <1>2, <1>3, <1>4, PTL DEF Spec, LastByteIsAnnounced

----------------------------------------------------------------------------
(* The transfer.  TransferInv says where the bytes of a field are at every *)
(* moment: on the driver's side, in the port, or with the disk.            *)

(* How far the driver's OUTs have come. *)
Wired ==
  /\ phase # "ppi" => Programmed(disk.ppi)
  /\ phase \in {"inteB", "inteA"} => ~disk.ppi.a.acked
  /\ phase \notin {"ppi", "inteB"} => disk.ppi.b.inteIn
  /\ phase \notin {"ppi", "inteB", "inteA"} => disk.ppi.a.inteOut
  /\ phase \notin {"ppi", "inteB", "inteA", "timing"} => disk.timing
  /\ disk.timing = (disk.aOut /\ ~disk.pa6)
  /\ ~disk.suppress

(* Counter 2 with n transfers to count, and with none. *)
Counting(c, n) == c.loaded /\ c.running /\ ~c.output /\ c.current = n
Stopped2(c) == ~c.loaded /\ ~c.output

CounterTwo ==
  /\ disk.c2.mode = 0 /\ disk.c2.gate
  /\ phase = "count2" =>
       task # "format" /\ Stopped2(disk.c2) /\ disk.c2.access = "lsb" /\ ~disk.c2.bcd
  /\ phase \in {"first", "enable"} =>
       IF task = "format" THEN Stopped2(disk.c2) ELSE Counting(disk.c2, Length(task))
  /\ phase = "first" => Writing

(* PA holds the byte the driver put last, or asks for one. *)
Offered(n) ==
  IF disk.level
  THEN disk.ppi.a.obf /\ Len(put) = n
  ELSE ~disk.ppi.a.obf /\ ~disk.ppi.a.acked /\ Len(put) = n + 1 /\ put[n + 1] = disk.ppi.a.out

Resting ==
  phase # "transfer" =>
    /\ disk.aux = AuxClear /\ ~disk.ordinary /\ ~disk.format
    /\ phase # "stop" => ~disk.sync
    /\ ~disk.level /\ ~disk.ppi.b.ibf
    /\ got = <<>> /\ field = <<>> /\ media = <<>>
    /\ IF phase = "enable" /\ Writing THEN Offered(0) ELSE put = <<>>

Reading ==
  phase = "transfer" /\ ~Writing =>
    /\ put = <<>> /\ media = <<>> /\ ~disk.ordinary /\ ~disk.format
    /\ ~disk.ppi.a.intr /\ disk.level = disk.ppi.b.ibf
    /\ got \o Unread = field
    /\ IF disk.c2.output THEN Len(field) = Length(task) + 1
       ELSE /\ disk.aux = Enable(task) /\ disk.sync = (field # <<>>)
            /\ Counting(disk.c2, IF field = <<>> THEN Length(task)
                                 ELSE Length(task) + 1 - Len(field))
            /\ Len(field) <= Length(task)

(* The disk has been told the bytes put so far, in successive cells. *)
Told == \A i \in 1 .. Len(media) :
          /\ media[i].data = put[i]
          /\ i > 1 => media[i].tick = Following(media[i - 1].tick)

Idling == got = <<>> /\ field = <<>> /\ ~disk.sync /\ ~disk.ppi.b.ibf

WritingField ==
  phase = "transfer" /\ task = "write" =>
    /\ Idling /\ ~disk.format /\ Offered(Len(media)) /\ put # <<>> /\ Told
    /\ IF disk.c2.output THEN Len(media) = DataLength
       ELSE /\ disk.aux = Enable(task) /\ disk.ordinary = (media # <<>>)
            /\ Counting(disk.c2, DataLength - Len(media)) /\ Len(media) < DataLength
            /\ media # <<>> => media[Len(media)].tick = disk.tick

Formatting ==
  phase = "transfer" /\ task = "format" =>
    /\ Idling /\ ~disk.ordinary /\ Offered(Len(media)) /\ Stopped2(disk.c2) /\ put # <<>>
    /\ Told /\ \A i \in 1 .. Len(media) : media[i].tick = i - 1
    /\ IF disk.aux = AuxClear THEN ~disk.format /\ Len(media) = Cardinality(Ticks)
       ELSE /\ disk.aux = Enable(task) /\ disk.format = (media # <<>>)
            /\ media # <<>> => disk.tick = Len(media) - 1

TransferType ==
  /\ task \in {"id", "data", "write", "format"}
  /\ phase \in {"ppi", "inteB", "inteA", "timing", "stop", "mode1", "count1", "mode2",
                "count2", "first", "enable", "transfer"}
  /\ got \in Seq(Byte) /\ put \in Seq(Byte) /\ field \in Seq(Byte) /\ media \in Seq(Cell)

TransferInv == /\ Good(disk) /\ TransferType /\ Wired /\ CounterTwo
               /\ Resting /\ Reading /\ WritingField /\ Formatting

----------------------------------------------------------------------------
(* The operators of the disk electronics, field by field. *)

(* What no operation on a byte touches. *)
Kept(d, e) == /\ e.timing = d.timing /\ e.aOut = d.aOut /\ e.pa6 = d.pa6
              /\ e.c2.mode = d.c2.mode /\ e.c2.gate = d.c2.gate

(* The latches of an operation. *)
Latched(d, e) == /\ e.aux = d.aux /\ e.sync = d.sync
                 /\ e.ordinary = d.ordinary /\ e.format = d.format

(* Nothing but counter 1, the timeout and the tick has moved. *)
Calm(d, e) == /\ Kept(d, e) /\ Latched(d, e)
              /\ e.ppi = d.ppi /\ e.c2 = d.c2 /\ e.level = d.level /\ e.suppress = d.suppress

(* A channel counting down in mode 0. *)
LEMMA CountsDown ==
  ASSUME NEW c \in Channel, c.mode = 0
  PROVE  /\ ClockOnce(c) \in Channel /\ ClockOnce(c).mode = 0 /\ ClockOnce(c).gate = c.gate
         /\ Stopped2(c) => ClockOnce(c) = c
         /\ \A n \in Nat : n > 1 /\ Counting(c, n) => Counting(ClockOnce(c), n - 1)
         /\ \A n \in Nat : n = 1 /\ Counting(c, n) => ClockOnce(c).output
<1>1. ClockOnce(c) \in Channel /\ ClockOnce(c).mode = 0 /\ ClockOnce(c).gate = c.gate
  BY ClockOnceType, ModeZeroKept, GateKept
<1>2. Stopped2(c) => ClockOnce(c) = c
  BY DEF Stopped2, ClockOnce
<1>3. ASSUME NEW n \in Nat, n > 1, Counting(c, n) PROVE Counting(ClockOnce(c), n - 1)
  <2>1. ClockOnce(c) = [c EXCEPT !.current = n - 1]
    BY <1>3 DEF Counting, ClockOnce, ToTerminalCount, CountDown, Channel
  <2> QED BY <1>3, <2>1 DEF Counting, Channel
<1>4. ASSUME Counting(c, 1) PROVE ClockOnce(c).output
  <2> DEFINE high == TRUE
             low == FALSE
  <2>1. ClockOnce(c) = [c EXCEPT !.current = 0, !.output = high, !.running = low]
    BY <1>4 DEF Counting, ClockOnce, ToTerminalCount, Channel
  <2>2. high
    OBVIOUS
  <2> HIDE DEF high, low
  <2>3. ClockOnce(c).output = high
    BY <2>1 DEF Channel
  <2> QED BY <2>2, <2>3
<1> QED BY <1>1, <1>2, <1>3, <1>4

(* refresh_interrupt_sources. *)
LEMMA RefreshFields ==
  ASSUME NEW d, Stable(d), d.c2.mode = 0
  PROVE  LET r == Refresh(d)
             edge == Asking(d) /\ ~d.level
         IN /\ Kept(d, r) /\ r.ppi = d.ppi /\ r.tick = d.tick /\ r.pending = d.pending
            /\ r.level = Asking(d) /\ r.suppress = (d.suppress /\ ~edge)
            /\ r.c2 = IF edge /\ ~d.suppress THEN ClockOnce(d.c2) ELSE d.c2
            /\ IF r.c2.output THEN Idle(r) ELSE Latched(d, r)
<1> DEFINE e == CountEdge(d)
           r == Refresh(d)
           line == Asking(d)
           edge == line /\ ~d.level
           suppress == d.suppress /\ ~edge
           count == IF edge /\ ~d.suppress THEN ClockOnce(d.c2) ELSE d.c2
           shut == IF e.timing THEN SetGate(e.c1, FALSE) ELSE e.c1
           f == EndOfData(e)
<1>1. d \in DiskState /\ d.c2 \in Channel
  BY DEF Stable, DiskState
<1>2. e = [d EXCEPT !.level = line, !.suppress = suppress, !.c2 = count]
  BY DEF CountEdge, Asking
<1>3. count.mode = d.c2.mode /\ count.gate = d.c2.gate
  BY <1>1, CountsDown
<1>4. Stable(e)
  BY CountEdgeStable
<1>5. f = [e EXCEPT !.aux = AuxClear, !.sync = FALSE, !.ordinary = FALSE,
                    !.format = FALSE, !.c1 = shut]
  BY DEF EndOfData
<1>6. r = IF e.c2.output THEN f ELSE e
  BY DEF Refresh
<1> HIDE DEF e, line, edge, suppress, count, shut, r
<1>7. /\ e.level = line /\ e.suppress = suppress /\ e.c2 = count /\ e.ppi = d.ppi
      /\ e.tick = d.tick /\ e.pending = d.pending /\ e.timing = d.timing
      /\ e.aOut = d.aOut /\ e.pa6 = d.pa6
      /\ e.aux = d.aux /\ e.sync = d.sync /\ e.ordinary = d.ordinary /\ e.format = d.format
  BY <1>1, <1>2 DEF DiskState
<1>8. Idle(f)
  BY <1>4, EndOfDataStable
<1>9. /\ f.level = e.level /\ f.suppress = e.suppress /\ f.c2 = e.c2 /\ f.ppi = e.ppi
      /\ f.tick = e.tick /\ f.pending = e.pending /\ f.timing = e.timing
      /\ f.aOut = e.aOut /\ f.pa6 = e.pa6
  BY <1>4, <1>5 DEF Stable, DiskState
<1> HIDE DEF f
<1>10. /\ Kept(d, r) /\ r.ppi = d.ppi /\ r.tick = d.tick /\ r.pending = d.pending
       /\ r.level = line /\ r.suppress = suppress /\ r.c2 = count
  BY <1>3, <1>6, <1>7, <1>9 DEF Kept
<1>11. IF r.c2.output THEN Idle(r) ELSE Latched(d, r)
  BY <1>6, <1>7, <1>8, <1>9, <1>10 DEF Latched
<1> QED BY <1>10, <1>11 DEF r, line, edge, suppress, count

(* With every edge counted it does nothing. *)
LEMMA RefreshCalm ==
  ASSUME NEW d, Stable(d), d.c2.mode = 0, d.level = Asking(d), d.c2.output => Idle(d)
  PROVE  Calm(d, Refresh(d)) /\ Refresh(d).tick = d.tick
<1> DEFINE r == Refresh(d)
<1>1. d \in DiskState
  BY DEF Stable
<1>2. /\ Kept(d, r) /\ r.ppi = d.ppi /\ r.tick = d.tick
      /\ r.level = Asking(d) /\ r.suppress = (d.suppress /\ ~(Asking(d) /\ ~d.level))
      /\ r.c2 = IF Asking(d) /\ ~d.level /\ ~d.suppress THEN ClockOnce(d.c2) ELSE d.c2
      /\ IF r.c2.output THEN Idle(r) ELSE Latched(d, r)
  BY RefreshFields
<1>3. r \in DiskState
  BY RefreshStable DEF Stable
<1> HIDE DEF r
<1>4. r.c2 = d.c2 /\ r.level = d.level
  BY <1>2
<1>5. r.suppress = d.suppress
  BY <1>1, <1>2 DEF DiskState
<1>6. Latched(d, r)
  BY <1>1, <1>2, <1>3, <1>4 DEF Idle, Latched, DiskState
<1> QED BY <1>2, <1>4, <1>5, <1>6 DEF Calm, r

(* The disk takes a byte from PA, or hands one over on PB: the request     *)
(* rises, and its edge is counted unless the mark has suppressed it.       *)
Took(d, e) ==
  /\ Kept(d, e) /\ Programmed(e.ppi) /\ e.ppi.b = d.ppi.b
  /\ e.ppi.a.obf /\ e.ppi.a.inteOut /\ e.ppi.a.intr
  /\ e.level /\ ~e.suppress /\ e.c2 = ClockOnce(d.c2)

Gave(d, e, v) ==
  /\ Kept(d, e) /\ Programmed(e.ppi) /\ e.ppi.a = d.ppi.a
  /\ e.ppi.b.ibf /\ e.ppi.b.latch = v /\ e.ppi.b.inteIn /\ e.ppi.b.intr
  /\ e.level /\ ~e.suppress /\ e.c2 = IF d.suppress THEN d.c2 ELSE ClockOnce(d.c2)

LEMMA WithPpiFields ==
  ASSUME NEW d, Stable(d), d.c2.mode = 0, ~d.level,
         NEW p, SettledPpi(p), p.a.intr \/ p.b.intr, NEW cells \in Seq(Cell)
  PROVE  LET e == Refresh([d EXCEPT !.pending = cells, !.ppi = p])
         IN /\ Stable(e) /\ Kept(d, e) /\ e.ppi = p /\ e.tick = d.tick /\ e.pending = cells
            /\ e.level /\ e.suppress = FALSE
            /\ e.c2 = IF d.suppress THEN d.c2 ELSE ClockOnce(d.c2)
            /\ IF e.c2.output THEN Idle(e) ELSE Latched(d, e)
<1> DEFINE w == [d EXCEPT !.pending = cells, !.ppi = p]
           e == Refresh(w)
<1>1. d \in DiskState
  BY DEF Stable
<1>2. Stable(w)
  BY WithPpi
<1>3. /\ w.ppi = p /\ w.pending = cells /\ w.tick = d.tick /\ w.level = d.level
      /\ w.suppress = d.suppress /\ w.c2 = d.c2 /\ w.timing = d.timing
      /\ w.aOut = d.aOut /\ w.pa6 = d.pa6
      /\ w.aux = d.aux /\ w.sync = d.sync /\ w.ordinary = d.ordinary /\ w.format = d.format
  BY <1>1 DEF DiskState
<1>4. Stable(e)
  BY <1>2, RefreshStable
<1> HIDE DEF w
<1>5. /\ Kept(w, e) /\ e.ppi = w.ppi /\ e.tick = w.tick /\ e.pending = w.pending
      /\ e.level = Asking(w) /\ e.suppress = (w.suppress /\ ~(Asking(w) /\ ~w.level))
      /\ e.c2 = IF Asking(w) /\ ~w.level /\ ~w.suppress THEN ClockOnce(w.c2) ELSE w.c2
      /\ IF e.c2.output THEN Idle(e) ELSE Latched(w, e)
  BY <1>2, <1>3, RefreshFields
<1> HIDE DEF e
<1>6. Asking(w)
  BY <1>3 DEF Asking
<1>7. e.level /\ e.suppress = FALSE /\ e.c2 = IF d.suppress THEN d.c2 ELSE ClockOnce(d.c2)
  BY <1>3, <1>5, <1>6
<1>8. Kept(d, e) /\ (IF e.c2.output THEN Idle(e) ELSE Latched(d, e))
  BY <1>3, <1>5 DEF Kept, Latched
<1> QED BY <1>3, <1>4, <1>5, <1>7, <1>8 DEF e, w

LEMMA TransferFields ==
  ASSUME NEW d, Stable(d), d.c2.mode = 0, Programmed(d.ppi), d.ppi.a.inteOut,
         ~d.level, ~d.suppress, NEW tick \in Ticks
  PROVE  LET e == TransferWriteByte(d, tick)
         IN /\ Stable(e) /\ Took(d, e) /\ e.tick = d.tick
            /\ e.pending = Append(d.pending, WrittenCell(d, tick))
            /\ IF e.c2.output THEN Idle(e) ELSE Latched(d, e)
<1> DEFINE cells == Append(d.pending, WrittenCell(d, tick))
           p == PulseAckA(d.ppi)
           e == Refresh([d EXCEPT !.pending = cells, !.ppi = p])
<1>1. cells \in Seq(Cell)
  BY WrittenCellType DEF Stable, DiskState
<1>2. /\ SettledPpi(p) /\ Programmed(p) /\ p.b = d.ppi.b /\ p.a.obf
      /\ p.a.inteOut /\ p.a.intr
  BY PaTaken DEF Stable
<1>3. TransferWriteByte(d, tick) = e
  BY DEF TransferWriteByte
<1> HIDE DEF cells, p
<1>4. /\ Stable(e) /\ Kept(d, e) /\ e.ppi = p /\ e.tick = d.tick /\ e.pending = cells
      /\ e.level /\ e.suppress = FALSE
      /\ e.c2 = IF d.suppress THEN d.c2 ELSE ClockOnce(d.c2)
      /\ IF e.c2.output THEN Idle(e) ELSE Latched(d, e)
  BY <1>1, <1>2, WithPpiFields
<1> HIDE DEF e
<1>5. Took(d, e)
  BY <1>2, <1>4 DEF Took
<1> QED BY <1>3, <1>4, <1>5 DEF cells

LEMMA DeserializeFields ==
  ASSUME NEW d, Stable(d), d.c2.mode = 0, Programmed(d.ppi), d.ppi.b.inteIn,
         ~d.level, NEW v \in Byte
  PROVE  LET e == Deserialize(d, v)
         IN /\ Stable(e) /\ Gave(d, e, v) /\ e.tick = d.tick /\ e.pending = d.pending
            /\ IF e.c2.output THEN Idle(e) ELSE Latched(d, e)
<1> DEFINE cells == d.pending
           p == PulseStrobeB(d.ppi, v)
           e == Refresh([d EXCEPT !.pending = cells, !.ppi = p])
<1>1. d \in DiskState /\ cells \in Seq(Cell)
  BY DEF Stable, DiskState
<1>2. /\ SettledPpi(p) /\ Programmed(p) /\ p.a = d.ppi.a /\ p.b.ibf /\ p.b.latch = v
      /\ p.b.inteIn /\ p.b.intr
  BY PbHanded DEF Stable
<1>3. Deserialize(d, v) = e
  <2>1. [d EXCEPT !.pending = cells, !.ppi = p] = [d EXCEPT !.ppi = p]
    BY <1>1 DEF DiskState
  <2> QED BY <2>1 DEF Deserialize
<1> HIDE DEF p
<1>4. /\ Stable(e) /\ Kept(d, e) /\ e.ppi = p /\ e.tick = d.tick /\ e.pending = cells
      /\ e.level /\ e.suppress = FALSE
      /\ e.c2 = IF d.suppress THEN d.c2 ELSE ClockOnce(d.c2)
      /\ IF e.c2.output THEN Idle(e) ELSE Latched(d, e)
  BY <1>1, <1>2, WithPpiFields
<1> HIDE DEF e
<1>5. Gave(d, e, v)
  BY <1>2, <1>4 DEF Gave
<1> QED BY <1>3, <1>4, <1>5

(* advance_time after the byte, when OUT1 opens no write gate, *)
LEMMA FlushCalm ==
  ASSUME NEW b, Stable(b), b.c2.mode = 0, b.level = Asking(b), b.c2.output => Idle(b)
  PROVE  LET e == Refresh([b EXCEPT !.pending = <<>>])
         IN Calm(b, e) /\ e.tick = b.tick
<1> DEFINE none == <<>>
           f == [b EXCEPT !.pending = none]
           e == Refresh(f)
<1>1. b \in DiskState
  BY DEF Stable
<1>2. none \in Seq(Cell)
  OBVIOUS
<1> HIDE DEF none
<1>3. f \in DiskState
  BY <1>1, <1>2 DEF DiskState
<1>4. /\ f.c1 = b.c1 /\ f.c2 = b.c2 /\ f.timing = b.timing /\ f.sync = b.sync
      /\ f.aux = b.aux /\ f.ordinary = b.ordinary /\ f.format = b.format
      /\ f.timeout = b.timeout /\ f.ppi = b.ppi /\ f.level = b.level
      /\ f.suppress = b.suppress /\ f.aOut = b.aOut /\ f.pa6 = b.pa6 /\ f.tick = b.tick
  BY <1>1 DEF DiskState
<1> HIDE DEF f
<1>5. Stable(f)
  BY <1>3, <1>4 DEF Stable, Gated, Enabled, Idle
<1>6. f.level = Asking(f) /\ (f.c2.output => Idle(f)) /\ f.c2.mode = 0
  BY <1>4 DEF Asking, Idle
<1>7. Calm(f, e) /\ e.tick = f.tick
  BY <1>5, <1>6, RefreshCalm
<1> HIDE DEF e
<1>8. Calm(b, e) /\ e.tick = b.tick
  BY <1>4, <1>7 DEF Calm, Kept, Latched
<1> QED BY <1>8 DEF e, f, none

LEMMA AdvanceCalm ==
  ASSUME NEW b, Stable(b), b.c2.mode = 0, b.level = Asking(b), b.c2.output => Idle(b),
         NEW pulse \in BOOLEAN,
         ~(pulse /\ Out1Rises(b) /\ b.timing /\ b.aux.we /\ ~b.ordinary)
  PROVE  /\ Calm(b, AfterAdvance(b, pulse)) /\ AfterAdvance(b, pulse).tick = b.tick
         /\ BeforeFlush(b, pulse).pending = b.pending
<1> DEFINE rises == Out1Rises(b)
           late == b.timeout \/ (b.timing /\ b.aux.re /\ b.aux.dm /\ rises)
           clocked == ClockOnce(b.c1)
           t == [b EXCEPT !.c1 = clocked, !.timeout = late]
           f == BeforeFlush(b, pulse)
           e == Refresh([f EXCEPT !.pending = <<>>])
<1>1. b \in DiskState
  BY DEF Stable
<1>2. f = IF pulse THEN t ELSE b
  BY DEF BeforeFlush, ClockCounterOne
<1>3. Stable(f)
  BY ClockCounterOneStable DEF BeforeFlush
<1> HIDE DEF f, rises, late, clocked
<1>4. /\ t.c2 = b.c2 /\ t.timing = b.timing /\ t.sync = b.sync
      /\ t.aux = b.aux /\ t.ordinary = b.ordinary /\ t.format = b.format
      /\ t.ppi = b.ppi /\ t.level = b.level /\ t.pending = b.pending
      /\ t.suppress = b.suppress /\ t.aOut = b.aOut /\ t.pa6 = b.pa6 /\ t.tick = b.tick
  BY <1>1 DEF DiskState
<1> HIDE DEF t
<1>5. Calm(b, f) /\ f.tick = b.tick /\ f.pending = b.pending
  BY <1>2, <1>4 DEF Calm, Kept, Latched
<1>6. f.c2.mode = 0 /\ f.level = Asking(f) /\ (f.c2.output => Idle(f))
  BY <1>5 DEF Calm, Latched, Asking, Idle
<1>7. Calm(f, e) /\ e.tick = f.tick
  BY <1>3, <1>6, FlushCalm
<1> HIDE DEF e
<1>8. Calm(b, e) /\ e.tick = b.tick
  BY <1>5, <1>7 DEF Calm, Kept, Latched
<1> QED BY <1>5, <1>8 DEF AfterAdvance, e, f

(* and when it opens the gate of an ordinary write. *)
LEMMA AdvanceOpens ==
  ASSUME NEW b, Stable(b), b.c2.mode = 0, Programmed(b.ppi), b.ppi.a.inteOut,
         ~b.level, ~b.suppress, b.pending = <<>>,
         Out1Rises(b), b.timing, b.aux.we, ~b.ordinary, NEW pulse \in BOOLEAN, pulse
  PROVE  LET e == AfterAdvance(b, pulse)
         IN /\ Took(b, e) /\ e.tick = b.tick
            /\ BeforeFlush(b, pulse).pending = <<WrittenCell(b, b.tick)>>
            /\ IF e.c2.output THEN Idle(e)
               ELSE /\ e.aux = b.aux /\ e.sync = b.sync /\ e.format = b.format
                    /\ e.ordinary
<1> DEFINE rises == Out1Rises(b)
           late == b.timeout \/ (b.timing /\ b.aux.re /\ b.aux.dm /\ rises)
           clocked == ClockOnce(b.c1)
           t == [b EXCEPT !.c1 = clocked, !.timeout = late]
           open == TRUE
           w == [t EXCEPT !.ordinary = open]
           f == TransferWriteByte(w, b.tick)
           e == Refresh([f EXCEPT !.pending = <<>>])
<1>1. b \in DiskState /\ b.tick \in Ticks /\ b.c1 \in Channel
  BY DEF Stable, DiskState
<1>2. BeforeFlush(b, pulse) = f
  BY DEF BeforeFlush, ClockCounterOne
<1>3. open \in BOOLEAN /\ open
  OBVIOUS
<1>4. /\ clocked \in Channel /\ clocked.gate = b.c1.gate
      /\ late \in BOOLEAN /\ (late => b.timeout \/ b.timing)
  BY <1>1, ClockOnceType, GateKept DEF DiskState
<1> HIDE DEF rises, late, clocked, open
<1>5. w \in DiskState
  BY <1>1, <1>3, <1>4 DEF DiskState
<1>6. /\ w.c1 = clocked /\ w.c2 = b.c2 /\ w.timing = b.timing /\ w.sync = b.sync
      /\ w.aux = b.aux /\ w.ordinary = open /\ w.format = b.format /\ w.timeout = late
      /\ w.ppi = b.ppi /\ w.level = b.level /\ w.pending = b.pending
      /\ w.suppress = b.suppress /\ w.aOut = b.aOut /\ w.pa6 = b.pa6 /\ w.tick = b.tick
      /\ w.markClocks = b.markClocks
  BY <1>1 DEF DiskState
<1> HIDE DEF w
<1>7. Stable(w)
  BY <1>3, <1>4, <1>5, <1>6 DEF Stable, Gated, Enabled, Idle
<1>8. /\ Stable(f) /\ Took(w, f) /\ f.tick = w.tick
      /\ f.pending = Append(w.pending, WrittenCell(w, b.tick))
      /\ IF f.c2.output THEN Idle(f) ELSE Latched(w, f)
  BY <1>1, <1>6, <1>7, TransferFields
<1>9. WrittenCell(w, b.tick) = WrittenCell(b, b.tick)
  BY <1>6 DEF WrittenCell
<1>10. f.pending = <<WrittenCell(b, b.tick)>>
  BY <1>6, <1>8, <1>9
<1> HIDE DEF f
<1>11. f.c2.mode = 0 /\ f.level = Asking(f)
  <2>1. f.level /\ f.ppi.a.intr /\ f \in DiskState
    BY <1>8 DEF Took, Stable
  <2> QED BY <1>6, <1>8, <2>1 DEF Took, Kept, Asking, DiskState
<1>12. Calm(f, e) /\ e.tick = f.tick
  BY <1>8, <1>11, FlushCalm
<1> HIDE DEF e
<1>13. Took(b, e) /\ e.tick = b.tick
  BY <1>6, <1>8, <1>12 DEF Calm, Kept, Took
<1>14. IF e.c2.output THEN Idle(e)
       ELSE e.aux = b.aux /\ e.sync = b.sync /\ e.format = b.format /\ e.ordinary
  BY <1>3, <1>6, <1>8, <1>12 DEF Calm, Latched, Idle
<1> QED BY <1>2, <1>10, <1>13, <1>14 DEF AfterAdvance, e

(* process_floppy_byte up to the choice of what the byte is for. *)
At(d, cell) == [d EXCEPT !.tick = cell.tick, !.format = @ \/ AtIndex(d, cell)]

LEMMA AtFields ==
  ASSUME NEW d, Stable(d), NEW cell \in Cell
  PROVE  LET at == At(d, cell)
         IN /\ Stable(at) /\ Kept(d, at) /\ at.tick = cell.tick /\ at.pending = d.pending
            /\ at.ppi = d.ppi /\ at.c2 = d.c2 /\ at.level = d.level /\ at.suppress = d.suppress
            /\ at.aux = d.aux /\ at.sync = d.sync /\ at.ordinary = d.ordinary
            /\ at.format = (d.format \/ AtIndex(d, cell)) /\ at.markClocks = d.markClocks
            /\ AtIndex(d, cell) = (d.timing /\ d.aux.fm /\ cell.tick = 0)
<1> DEFINE index == AtIndex(d, cell)
           format == d.format \/ index
           at == [d EXCEPT !.tick = cell.tick, !.format = format]
<1>1. d \in DiskState /\ cell.tick \in Ticks
  BY DEF Stable, Cell
<1>2. index \in BOOLEAN /\ (index => d.timing /\ d.aux.fm)
  BY <1>1 DEF AtIndex, DiskState, Aux
<1>3. format \in BOOLEAN /\ (format => d.format \/ d.aux.fm) /\ (format => d.timing)
  BY <1>1, <1>2 DEF DiskState, Stable, Idle
<1> HIDE DEF index, format
<1>4. at \in DiskState
  BY <1>1, <1>3 DEF DiskState
<1>5. /\ at.c1 = d.c1 /\ at.timeout = d.timeout /\ at.timing = d.timing
      /\ at.tick = cell.tick /\ at.pending = d.pending
      /\ at.ppi = d.ppi /\ at.c2 = d.c2 /\ at.level = d.level /\ at.suppress = d.suppress
      /\ at.aux = d.aux /\ at.sync = d.sync /\ at.ordinary = d.ordinary
      /\ at.format = format /\ at.markClocks = d.markClocks
      /\ at.aOut = d.aOut /\ at.pa6 = d.pa6
  BY <1>1 DEF DiskState
<1>6. At(d, cell) = at
  BY DEF At, format, index
<1> HIDE DEF at
<1>7. Stable(at)
  BY <1>3, <1>4, <1>5 DEF Stable, Gated, Enabled, Idle
<1>8. Kept(d, at)
  BY <1>5 DEF Kept
<1> QED BY <1>5, <1>6, <1>7, <1>8 DEF format, index, AtIndex

(* A byte nobody waits for, *)
LEMMA ByteIdles ==
  ASSUME NEW d, Stable(d), NEW cell \in Cell,
         ~d.aux.re, ~d.ordinary, ~d.format, ~AtIndex(d, cell)
  PROVE  LET b == ProcessByte(d, cell)
         IN Stable(b) /\ Calm(d, b) /\ b.tick = cell.tick /\ b.pending = d.pending
<1> DEFINE at == At(d, cell)
<1>1. /\ Stable(at) /\ Kept(d, at) /\ at.tick = cell.tick /\ at.pending = d.pending
      /\ at.ppi = d.ppi /\ at.c2 = d.c2 /\ at.level = d.level /\ at.suppress = d.suppress
      /\ at.aux = d.aux /\ at.sync = d.sync /\ at.ordinary = d.ordinary
      /\ at.format = (d.format \/ AtIndex(d, cell))
  BY AtFields
<1>2. ProcessByte(d, cell) = at
  BY <1>1 DEF ProcessByte, ByteWritten, ByteRead, At
<1> HIDE DEF at
<1>3. d.format \in BOOLEAN /\ at.format = d.format
  BY <1>1 DEF Stable, DiskState
<1> QED BY <1>1, <1>2, <1>3 DEF Calm, Latched

(* a byte of the field or its mark, *)
LEMMA ByteReads ==
  ASSUME NEW d, Stable(d), NEW cell \in Cell, d.c2.mode = 0,
         Programmed(d.ppi), d.ppi.b.inteIn, ~d.level, ~d.suppress,
         d.timing, d.aux.re, ~d.aux.fm, ~d.ordinary, ~d.format
  PROVE  LET b == ProcessByte(d, cell)
         IN /\ Stable(b) /\ b.tick = cell.tick /\ b.pending = d.pending
            /\ IF d.sync
               THEN /\ Gave(d, b, cell.data) /\ b.c2 = ClockOnce(d.c2)
                    /\ IF b.c2.output THEN Idle(b) ELSE Latched(d, b)
               ELSE IF SelectedMark(d, cell)
               THEN /\ Kept(d, b) /\ Programmed(b.ppi) /\ b.ppi.a = d.ppi.a
                    /\ b.ppi.b.ibf /\ b.ppi.b.latch = cell.data /\ b.ppi.b.inteIn
                    /\ b.ppi.b.intr
                    /\ b.level /\ ~b.suppress /\ b.c2 = d.c2
                    /\ IF b.c2.output THEN Idle(b)
                       ELSE /\ b.aux = d.aux /\ b.sync
                            /\ ~b.ordinary /\ ~b.format
               ELSE Calm(d, b)
<1> DEFINE at == At(d, cell)
           b == ProcessByte(d, cell)
<1>1. /\ Stable(at) /\ Kept(d, at) /\ at.tick = cell.tick /\ at.pending = d.pending
      /\ at.ppi = d.ppi /\ at.c2 = d.c2 /\ at.level = d.level /\ at.suppress = d.suppress
      /\ at.aux = d.aux /\ at.sync = d.sync /\ at.ordinary = d.ordinary
      /\ at.format = (d.format \/ AtIndex(d, cell))
  BY AtFields
<1>2. ~AtIndex(d, cell) /\ cell.data \in Byte
  BY DEF AtIndex, Cell
<1>3. b = ByteRead(at, cell)
  BY <1>1, <1>2 DEF ProcessByte, ByteWritten, At
<1>4. SelectedMark(at, cell) = SelectedMark(d, cell)
  BY <1>1 DEF SelectedMark
<1>5. at \in DiskState /\ d \in DiskState /\ at.format = d.format
  BY <1>1, <1>2 DEF Stable, DiskState
<1> HIDE DEF at, b
<1>6. CASE d.sync
  <2> DEFINE e == Deserialize(at, cell.data)
  <2>1. b = e
    BY <1>1, <1>3, <1>6 DEF ByteRead
  <2>2. /\ Stable(e) /\ Gave(at, e, cell.data) /\ e.tick = at.tick /\ e.pending = at.pending
        /\ IF e.c2.output THEN Idle(e) ELSE Latched(at, e)
    BY <1>1, <1>2, DeserializeFields DEF Kept
  <2> HIDE DEF e
  <2>3. Gave(d, e, cell.data) /\ e.c2 = ClockOnce(d.c2)
    BY <1>1, <2>2 DEF Gave, Kept
  <2>4. IF e.c2.output THEN Idle(e) ELSE Latched(d, e)
    BY <1>1, <1>5, <2>2 DEF Latched
  <2> QED BY <1>1, <1>6, <2>1, <2>2, <2>3, <2>4 DEF b
<1>7. CASE ~d.sync /\ SelectedMark(d, cell)
  <2> DEFINE s == Synchronize(at)
             e == Deserialize(s, cell.data)
             yes == TRUE
             gate == SetGate(at.c1, TRUE)
  <2>1. b = e
    BY <1>1, <1>3, <1>4, <1>7 DEF ByteRead
  <2>2. Stable(s)
    BY <1>1, SynchronizeStable DEF Kept
  <2>3. yes
    OBVIOUS
  <2>4. s = [at EXCEPT !.sync = yes, !.suppress = yes, !.c1 = gate]
    BY DEF Synchronize
  <2> HIDE DEF s, yes, gate
  <2>5. /\ s.ppi = at.ppi /\ s.c2 = at.c2 /\ s.level = at.level /\ s.suppress = yes
        /\ s.sync = yes /\ s.aux = at.aux /\ s.ordinary = at.ordinary /\ s.format = at.format
        /\ s.timing = at.timing /\ s.aOut = at.aOut /\ s.pa6 = at.pa6
        /\ s.tick = at.tick /\ s.pending = at.pending
    BY <1>5, <2>4 DEF DiskState
  <2>6. /\ Stable(e) /\ Gave(s, e, cell.data) /\ e.tick = s.tick /\ e.pending = s.pending
        /\ IF e.c2.output THEN Idle(e) ELSE Latched(s, e)
    BY <1>1, <1>2, <2>2, <2>5, DeserializeFields DEF Kept
  <2> HIDE DEF e
  <2>7. /\ Kept(d, e) /\ Programmed(e.ppi) /\ e.ppi.a = d.ppi.a
        /\ e.ppi.b.ibf /\ e.ppi.b.latch = cell.data /\ e.ppi.b.inteIn /\ e.ppi.b.intr
        /\ e.level /\ ~e.suppress /\ e.c2 = d.c2
    BY <1>1, <2>3, <2>5, <2>6 DEF Gave, Kept
  <2>8. IF e.c2.output THEN Idle(e)
        ELSE e.aux = d.aux /\ e.sync /\ ~e.ordinary /\ ~e.format
    BY <1>1, <1>5, <2>3, <2>5, <2>6 DEF Latched
  <2> QED BY <1>1, <1>7, <2>1, <2>5, <2>6, <2>7, <2>8 DEF b
<1>8. CASE ~d.sync /\ ~SelectedMark(d, cell)
  <2>1. b = at
    BY <1>1, <1>3, <1>4, <1>8 DEF ByteRead
  <2> QED BY <1>1, <1>5, <1>8, <2>1 DEF Calm, Latched, b
<1> QED BY <1>6, <1>7, <1>8

(* a cell the serializer fills, *)
LEMMA ByteWrites ==
  ASSUME NEW d, Stable(d), NEW cell \in Cell, d.c2.mode = 0,
         Programmed(d.ppi), d.ppi.a.inteOut, ~d.level, ~d.suppress,
         d.timing, ~d.aux.re, d.pending = <<>>,
         d.ordinary \/ d.format \/ AtIndex(d, cell), ~(d.format /\ AtIndex(d, cell))
  PROVE  LET b == ProcessByte(d, cell)
         IN /\ Stable(b) /\ Took(d, b) /\ b.tick = cell.tick
            /\ b.pending = <<WrittenCell(d, cell.tick)>>
            /\ IF b.c2.output THEN Idle(b)
               ELSE /\ b.aux = d.aux /\ b.sync = d.sync /\ b.ordinary = d.ordinary
                    /\ b.format = (d.format \/ AtIndex(d, cell))
<1> DEFINE at == At(d, cell)
           b == ProcessByte(d, cell)
           e == TransferWriteByte(at, cell.tick)
           seen == IF at.format \/ at.ordinary THEN WrittenCell(at, cell.tick) ELSE cell
<1>1. /\ Stable(at) /\ Kept(d, at) /\ at.tick = cell.tick /\ at.pending = d.pending
      /\ at.ppi = d.ppi /\ at.c2 = d.c2 /\ at.level = d.level /\ at.suppress = d.suppress
      /\ at.aux = d.aux /\ at.sync = d.sync /\ at.ordinary = d.ordinary
      /\ at.format = (d.format \/ AtIndex(d, cell)) /\ at.markClocks = d.markClocks
  BY AtFields
<1>2. b = ByteRead(e, seen)
  BY <1>1 DEF ProcessByte, ByteWritten, At
<1>3. cell.tick \in Ticks
  BY DEF Cell
<1> HIDE DEF at, seen
<1>4. /\ Stable(e) /\ Took(at, e) /\ e.tick = at.tick
      /\ e.pending = Append(at.pending, WrittenCell(at, cell.tick))
      /\ IF e.c2.output THEN Idle(e) ELSE Latched(at, e)
  BY <1>1, <1>3, TransferFields DEF Kept
<1> HIDE DEF e, b
<1>5. b = e
  <2>1. ~e.aux.re
    BY <1>1, <1>4 DEF Latched, Idle, AuxClear
  <2> QED BY <1>2, <2>1 DEF ByteRead
<1>6. WrittenCell(at, cell.tick) = WrittenCell(d, cell.tick)
  BY <1>1 DEF WrittenCell
<1>7. e.pending = <<WrittenCell(d, cell.tick)>>
  BY <1>1, <1>4, <1>6
<1>8. Took(d, e)
  BY <1>1, <1>4 DEF Took, Kept
<1>9. IF e.c2.output THEN Idle(e)
      ELSE /\ e.aux = d.aux /\ e.sync = d.sync /\ e.ordinary = d.ordinary
           /\ e.format = (d.format \/ AtIndex(d, cell))
  BY <1>1, <1>4 DEF Latched
<1> QED BY <1>1, <1>4, <1>5, <1>7, <1>8, <1>9 DEF b

(* and the second Index of a formatted track. *)
LEMMA ByteEnds ==
  ASSUME NEW d, Stable(d), NEW cell \in Cell, d.c2.mode = 0, d.level = Asking(d),
         d.timing, d.format, AtIndex(d, cell), ~d.c2.output
  PROVE  LET b == ProcessByte(d, cell)
         IN /\ Stable(b) /\ Kept(d, b) /\ Idle(b)
            /\ b.ppi = d.ppi /\ b.c2 = d.c2 /\ b.level = d.level /\ b.suppress = d.suppress
            /\ b.tick = cell.tick /\ b.pending = d.pending
<1> DEFINE at == At(d, cell)
           shut == SetGate(at.c1, FALSE)
           f == [at EXCEPT !.ordinary = FALSE, !.format = FALSE, !.aux = AuxClear,
                           !.sync = FALSE, !.c1 = shut]
           b == Refresh(f)
<1>1. /\ Stable(at) /\ Kept(d, at) /\ at.tick = cell.tick /\ at.pending = d.pending
      /\ at.ppi = d.ppi /\ at.c2 = d.c2 /\ at.level = d.level /\ at.suppress = d.suppress
  BY AtFields
<1>2. ProcessByte(d, cell) = b
  BY DEF ProcessByte, FormatEnd, At
<1> HIDE DEF at
<1>3. at \in DiskState /\ at.c1 \in Channel /\ at.timing /\ SettledPpi(at.ppi)
  BY <1>1 DEF Stable, DiskState, Kept
<1>4. shut \in Channel /\ shut.gate = FALSE
  BY <1>3, SetGateType, GateKept
<1> HIDE DEF shut
<1>5. f \in DiskState
  BY <1>3, <1>4, AuxClearType DEF DiskState
<1>6. /\ f.ppi = at.ppi /\ f.c2 = at.c2 /\ f.level = at.level /\ f.suppress = at.suppress
      /\ f.sync = FALSE /\ f.aux = AuxClear /\ f.ordinary = FALSE /\ f.format = FALSE
      /\ f.timing = at.timing /\ f.aOut = at.aOut /\ f.pa6 = at.pa6
      /\ f.tick = at.tick /\ f.pending = at.pending /\ f.c1 = shut
  BY <1>3 DEF DiskState
<1> HIDE DEF f
<1>7. Stable(f)
  BY <1>3, <1>4, <1>5, <1>6 DEF Stable, Gated, Enabled, Idle
<1>8. Idle(f) /\ f.level = Asking(f) /\ f.c2.mode = 0
  BY <1>1, <1>6 DEF Idle, Asking
<1>9. Calm(f, b) /\ b.tick = f.tick /\ Stable(b) /\ b.pending = f.pending
  BY <1>7, <1>8, RefreshCalm, RefreshStable
<1> HIDE DEF b
<1>10. Kept(d, b) /\ Idle(b)
  BY <1>1, <1>6, <1>8, <1>9 DEF Calm, Kept, Latched, Idle
<1> QED BY <1>1, <1>2, <1>6, <1>9, <1>10 DEF Calm

----------------------------------------------------------------------------
(* The accesses of the CPU, field by field. *)

(* Between two calls every edge has been counted. *)
LEMMA GoodFields ==
  ASSUME NEW d, Good(d), d.c2.mode = 0
  PROVE  /\ d \in DiskState /\ Stable(d) /\ SettledPpi(d.ppi) /\ d.pending = <<>>
         /\ d.c2.output => Idle(d)
         /\ d.level = Asking(d)
<1>1. d \in DiskState /\ Stable(d) /\ SettledPpi(d.ppi) /\ Refresh(d) = d
  BY DEF Good, Stable
<1>2. Refresh(d).level = Asking(d)
  BY <1>1, RefreshFields
<1> QED BY <1>1, <1>2 DEF Good

(* The control PPI switches disk timing. *)
Driven(d, out, off, marks) == [d EXCEPT !.aOut = out, !.pa6 = off, !.markClocks = marks]

LEMMA ControlFields ==
  ASSUME NEW d, Good(d), d.c2.mode = 0,
         NEW out \in BOOLEAN, NEW off \in BOOLEAN, NEW marks \in BOOLEAN
  PROVE  LET r == Refresh(SynchronizeControl(Driven(d, out, off, marks)))
         IN /\ Good(r) /\ r.ppi = d.ppi /\ r.c2 = d.c2 /\ r.level = d.level
            /\ r.suppress = d.suppress /\ r.tick = d.tick
            /\ r.aOut = out /\ r.pa6 = off /\ r.timing = (r.aOut /\ ~r.pa6)
            /\ IF r.timing THEN Latched(d, r) ELSE Idle(r)
<1> DEFINE e == [d EXCEPT !.aOut = out, !.pa6 = off, !.markClocks = marks]
           on == e.aOut /\ ~e.pa6
           high == TRUE
           low == FALSE
           s == IF on THEN [e EXCEPT !.timing = high]
                ELSE [e EXCEPT !.timing = low, !.sync = low, !.ordinary = low,
                               !.format = low, !.timeout = low, !.aux = AuxClear]
           gate == SetGate(s.c1, ~s.timing \/ s.sync)
           f == [s EXCEPT !.c1 = gate]
           r == Refresh(f)
<1>1. /\ d \in DiskState /\ Stable(d) /\ d.level = Asking(d) /\ (d.c2.output => Idle(d))
  BY GoodFields
<1>2. Good(Refresh(SynchronizeControl(e)))
  BY ControlGood
<1>3. SynchronizeControl(e) = f
  BY DEF SynchronizeControl
<1>4. high /\ ~low
  OBVIOUS
<1>5. /\ e \in DiskState /\ e.aOut = out /\ e.pa6 = off
      /\ e.ppi = d.ppi /\ e.c2 = d.c2 /\ e.level = d.level /\ e.suppress = d.suppress
      /\ e.tick = d.tick /\ e.aux = d.aux /\ e.sync = d.sync /\ e.ordinary = d.ordinary
      /\ e.format = d.format /\ e.pending = d.pending
  BY <1>1 DEF DiskState
<1> HIDE DEF e
<1>6. Stable(f)
  <2>1. SettledPpi(e.ppi) /\ Enabled(e)
    BY <1>1, <1>5 DEF Stable, Enabled
  <2>2. Stable(SynchronizeControl(e))
    BY <1>5, <2>1, SynchronizeControlStable
  <2> HIDE DEF f
  <2> QED BY <1>3, <2>2
<1>7. s \in DiskState
  <2>1. high \in BOOLEAN /\ low \in BOOLEAN
    OBVIOUS
  <2> HIDE DEF high, low
  <2>2. CASE on
    BY <1>5, <2>1, <2>2 DEF DiskState
  <2>3. CASE ~on
    BY <1>5, <2>1, <2>3, AuxClearType DEF DiskState
  <2> QED BY <2>2, <2>3
<1> HIDE DEF high, low
<1>8. /\ s.aOut = out /\ s.pa6 = off
      /\ s.ppi = d.ppi /\ s.c2 = d.c2 /\ s.level = d.level /\ s.suppress = d.suppress
      /\ s.tick = d.tick /\ s.timing = (IF on THEN high ELSE low)
      /\ s.aux = (IF on THEN d.aux ELSE AuxClear)
      /\ s.sync = (IF on THEN d.sync ELSE low)
      /\ s.ordinary = (IF on THEN d.ordinary ELSE low)
      /\ s.format = (IF on THEN d.format ELSE low)
  <2>1. CASE on
    BY <1>5, <2>1 DEF DiskState
  <2>2. CASE ~on
    BY <1>5, <2>2 DEF DiskState
  <2> QED BY <2>1, <2>2
<1> HIDE DEF s, gate
<1>9. /\ f.aOut = s.aOut /\ f.pa6 = s.pa6 /\ f.ppi = s.ppi /\ f.c2 = s.c2
      /\ f.level = s.level /\ f.suppress = s.suppress /\ f.tick = s.tick
      /\ f.timing = s.timing /\ f.aux = s.aux /\ f.sync = s.sync
      /\ f.ordinary = s.ordinary /\ f.format = s.format
  BY <1>7 DEF DiskState
<1> HIDE DEF f
<1>10. f.level = Asking(f) /\ f.c2.mode = 0 /\ (f.c2.output => Idle(f))
  BY <1>1, <1>4, <1>8, <1>9 DEF Asking, Idle
<1>11. Calm(f, r) /\ r.tick = f.tick
  BY <1>6, <1>10, RefreshCalm
<1>12. Good(r)
  BY <1>2, <1>3
<1> HIDE DEF r
<1>13. on = (out /\ ~off)
  BY <1>5 DEF on
<1>14. r.timing <=> out /\ ~off
  <2>1. r.timing = IF on THEN high ELSE low
    BY <1>8, <1>9, <1>11 DEF Calm, Kept
  <2> QED BY <1>4, <1>13, <2>1
<1>15. (out /\ ~off => Latched(d, r)) /\ (off \/ ~out => Idle(r))
  BY <1>4, <1>8, <1>9, <1>11, <1>13 DEF Calm, Latched, Idle
<1>16. /\ r.ppi = d.ppi /\ r.c2 = d.c2 /\ r.level = d.level
       /\ r.suppress = d.suppress /\ r.tick = d.tick /\ r.aOut = out /\ r.pa6 = off
  BY <1>8, <1>9, <1>11 DEF Calm, Kept
<1> HIDE DEF on
<1>17. /\ Good(r) /\ r.ppi = d.ppi /\ r.c2 = d.c2 /\ r.level = d.level
       /\ r.suppress = d.suppress /\ r.tick = d.tick
       /\ r.aOut = out /\ r.pa6 = off /\ r.timing = (r.aOut /\ ~r.pa6)
       /\ IF r.timing THEN Latched(d, r) ELSE Idle(r)
  <2>1. r.timing \in BOOLEAN
    BY <1>12 DEF Good, Stable, DiskState
  <2> QED BY <1>12, <1>14, <1>15, <1>16, <2>1
<1> QED BY <1>3, <1>17 DEF r, e, Driven

(* Counter 1 is programmed or loaded: nothing else but the timeout moves. *)
LEMMA CounterOneFields ==
  ASSUME NEW d, Good(d), d.c2.mode = 0,
         NEW c \in Channel, NEW keep \in BOOLEAN, c.gate = d.c1.gate
  PROVE  LET r == Refresh([d EXCEPT !.c1 = c, !.timeout = @ /\ keep])
         IN Good(r) /\ Calm(d, r) /\ r.tick = d.tick
<1> DEFINE late == d.timeout /\ keep
           e == [d EXCEPT !.c1 = c, !.timeout = late]
           r == Refresh(e)
<1>1. /\ d \in DiskState /\ Stable(d) /\ d.level = Asking(d) /\ (d.c2.output => Idle(d))
  BY GoodFields
<1>2. Good(r)
  BY CountersGood
<1>3. late \in BOOLEAN /\ (late => d.timeout)
  OBVIOUS
<1> HIDE DEF late
<1>4. /\ e \in DiskState /\ e.c1 = c /\ e.timeout = late
      /\ e.aOut = d.aOut /\ e.pa6 = d.pa6 /\ e.timing = d.timing
      /\ e.ppi = d.ppi /\ e.c2 = d.c2 /\ e.level = d.level /\ e.suppress = d.suppress
      /\ e.tick = d.tick /\ e.aux = d.aux /\ e.sync = d.sync /\ e.ordinary = d.ordinary
      /\ e.format = d.format /\ e.pending = d.pending
  BY <1>1, <1>3 DEF DiskState
<1> HIDE DEF e
<1>5. Stable(e)
  BY <1>1, <1>3, <1>4 DEF Stable, Gated, Enabled, Idle
<1>6. e.level = Asking(e) /\ e.c2.mode = 0 /\ (e.c2.output => Idle(e))
  BY <1>1, <1>4 DEF Asking, Idle
<1>7. Calm(e, r) /\ r.tick = e.tick
  BY <1>5, <1>6, RefreshCalm
<1> HIDE DEF r
<1>8. Calm(d, r) /\ r.tick = d.tick
  BY <1>4, <1>7 DEF Calm, Kept, Latched
<1> QED BY <1>2, <1>8 DEF r, e, late

(* Counter 2 is programmed or loaded. *)
LEMMA CounterTwoFields ==
  ASSUME NEW d, Good(d), d.c2.mode = 0,
         NEW c \in Channel, c.gate = d.c2.gate, c.mode = 0, ~c.output
  PROVE  LET r == Refresh([d EXCEPT !.c2 = c])
         IN /\ Good(r) /\ r.c2 = c /\ Kept(d, r) /\ Latched(d, r)
            /\ r.ppi = d.ppi /\ r.level = d.level /\ r.suppress = d.suppress /\ r.tick = d.tick
<1> DEFINE e == [d EXCEPT !.c2 = c]
           r == Refresh(e)
<1>1. /\ d \in DiskState /\ Stable(d) /\ d.level = Asking(d)
  BY GoodFields
<1>2. Good(r)
  BY CountersGood
<1>4. /\ e \in DiskState /\ e.c1 = d.c1 /\ e.timeout = d.timeout
      /\ e.aOut = d.aOut /\ e.pa6 = d.pa6 /\ e.timing = d.timing
      /\ e.ppi = d.ppi /\ e.c2 = c /\ e.level = d.level /\ e.suppress = d.suppress
      /\ e.tick = d.tick /\ e.aux = d.aux /\ e.sync = d.sync /\ e.ordinary = d.ordinary
      /\ e.format = d.format /\ e.pending = d.pending
  BY <1>1 DEF DiskState
<1> HIDE DEF e
<1>5. Stable(e)
  BY <1>1, <1>4 DEF Stable, Gated, Enabled, Idle
<1>6. e.level = Asking(e) /\ e.c2.mode = 0 /\ ~e.c2.output
  BY <1>1, <1>4 DEF Asking
<1>7. Calm(e, r) /\ r.tick = e.tick
  BY <1>5, <1>6, RefreshCalm
<1> HIDE DEF r
<1>8. /\ r.c2 = c /\ Kept(d, r) /\ Latched(d, r)
      /\ r.ppi = d.ppi /\ r.level = d.level /\ r.suppress = d.suppress /\ r.tick = d.tick
  BY <1>4, <1>7 DEF Calm, Kept, Latched
<1> QED BY <1>2, <1>8 DEF r, e

(* The disk-data 8255 is accessed and asks for nothing afterwards. *)
LEMMA PpiFields ==
  ASSUME NEW d, Good(d), d.c2.mode = 0,
         NEW p, SettledPpi(p), ~p.a.intr, ~p.b.intr
  PROVE  LET r == Refresh([d EXCEPT !.ppi = p])
         IN /\ Good(r) /\ r.ppi = p /\ Kept(d, r) /\ Latched(d, r)
            /\ r.c2 = d.c2 /\ ~r.level /\ r.suppress = d.suppress /\ r.tick = d.tick
<1> DEFINE none == d.pending
           e == [d EXCEPT !.pending = none, !.ppi = p]
           r == Refresh(e)
<1>1. /\ d \in DiskState /\ Stable(d) /\ d.level = Asking(d) /\ (d.c2.output => Idle(d))
      /\ none \in Seq(Cell)
  BY GoodFields DEF DiskState
<1>2. [d EXCEPT !.ppi = p] = e
  BY <1>1 DEF DiskState
<1>3. Good(r)
  BY <1>2, DataPpiGood
<1>4. Stable(e)
  BY <1>1, WithPpi
<1>5. /\ e.aOut = d.aOut /\ e.pa6 = d.pa6 /\ e.timing = d.timing
      /\ e.ppi = p /\ e.c2 = d.c2 /\ e.level = d.level /\ e.suppress = d.suppress
      /\ e.tick = d.tick /\ e.aux = d.aux /\ e.sync = d.sync /\ e.ordinary = d.ordinary
      /\ e.format = d.format
  BY <1>1 DEF DiskState
<1> HIDE DEF e
<1>6. ~Asking(e)
  BY <1>5 DEF Asking
<1>7. /\ Kept(e, r) /\ r.ppi = e.ppi /\ r.tick = e.tick
      /\ r.level = Asking(e) /\ r.suppress = (e.suppress /\ ~(Asking(e) /\ ~e.level))
      /\ r.c2 = IF Asking(e) /\ ~e.level /\ ~e.suppress THEN ClockOnce(e.c2) ELSE e.c2
      /\ IF r.c2.output THEN Idle(r) ELSE Latched(e, r)
  BY <1>4, <1>5, RefreshFields
<1> HIDE DEF r
<1>8. r \in DiskState
  BY <1>3 DEF Good, Stable
<1>9. /\ r.ppi = p /\ Kept(d, r) /\ r.c2 = d.c2 /\ ~r.level /\ r.tick = d.tick
  BY <1>5, <1>6, <1>7 DEF Kept
<1>10. r.suppress = d.suppress
  BY <1>1, <1>5, <1>6, <1>7 DEF DiskState
<1>11. Latched(d, r)
  BY <1>1, <1>5, <1>7, <1>8, <1>9 DEF Latched, Idle, DiskState
<1> QED BY <1>2, <1>3, <1>9, <1>10, <1>11 DEF r

(* OUT 50h. *)
LEMMA AuxFields ==
  ASSUME NEW d, Good(d), d.c2.mode = 0, d.timing, NEW a \in Aux
  PROVE  LET r == AfterWriteAux(d, a)
         IN /\ Good(r) /\ Kept(d, r)
            /\ r.ppi = d.ppi /\ r.c2 = d.c2 /\ r.level = d.level
            /\ r.suppress = d.suppress /\ r.tick = d.tick
            /\ IF r.c2.output THEN Idle(r)
               ELSE /\ r.aux = a /\ r.sync = d.sync
                    /\ r.ordinary = (d.ordinary /\ a.we) /\ r.format = (d.format /\ a.fm)
<1> DEFINE ordinary == d.ordinary /\ a.we
           format == d.format /\ a.fm
           late == d.timeout /\ (a.re \/ a.fm)
           register == IF d.timing THEN a ELSE AuxClear
           e == [d EXCEPT !.ordinary = ordinary, !.format = format, !.timeout = late,
                          !.aux = register]
           r == Refresh(e)
<1>1. /\ d \in DiskState /\ Stable(d) /\ d.level = Asking(d) /\ (d.c2.output => Idle(d))
      /\ d.pending = <<>>
  BY GoodFields
<1>2. AfterWriteAux(d, a) = r
  BY DEF AfterWriteAux
<1>3. Good(AfterWriteAux(d, a))
  BY <1>1, AfterWriteAuxGood
<1>4. ordinary \in BOOLEAN /\ format \in BOOLEAN /\ late \in BOOLEAN /\ register = a
      /\ (ordinary => a.we) /\ (format => a.fm) /\ ordinary = (d.ordinary /\ a.we)
      /\ format = (d.format /\ a.fm)
  OBVIOUS
<1> HIDE DEF ordinary, format, late, register
<1>5. /\ e \in DiskState /\ e.aOut = d.aOut /\ e.pa6 = d.pa6 /\ e.timing = d.timing
      /\ e.ppi = d.ppi /\ e.c1 = d.c1 /\ e.c2 = d.c2 /\ e.level = d.level
      /\ e.suppress = d.suppress /\ e.tick = d.tick /\ e.sync = d.sync
      /\ e.aux = a /\ e.ordinary = ordinary /\ e.format = format /\ e.timeout = late
  <2>1. d \in DiskState /\ register \in Aux
    BY <1>1, <1>4
  <2>2. e \in DiskState
    BY <1>4, <2>1, ZenonT(60) DEF DiskState
  <2>3. /\ e.aOut = d.aOut /\ e.pa6 = d.pa6 /\ e.timing = d.timing
        /\ e.ppi = d.ppi /\ e.c1 = d.c1 /\ e.c2 = d.c2 /\ e.level = d.level
        /\ e.suppress = d.suppress /\ e.tick = d.tick /\ e.sync = d.sync
    BY <2>1 DEF DiskState
  <2>4. /\ e.aux = register /\ e.ordinary = ordinary /\ e.format = format
        /\ e.timeout = late
    BY <2>1 DEF DiskState
  <2> QED BY <1>4, <2>2, <2>3, <2>4
<1> HIDE DEF e
<1>6. Stable(e)
  BY <1>1, <1>4, <1>5 DEF Stable, Gated, Enabled
<1>7. e.level = Asking(e) /\ e.level \in BOOLEAN
  BY <1>1, <1>5 DEF Asking, DiskState
<1>8. /\ Kept(e, r) /\ r.ppi = e.ppi /\ r.tick = e.tick
      /\ r.level = Asking(e) /\ r.suppress = (e.suppress /\ ~(Asking(e) /\ ~e.level))
      /\ r.c2 = IF Asking(e) /\ ~e.level /\ ~e.suppress THEN ClockOnce(e.c2) ELSE e.c2
      /\ IF r.c2.output THEN Idle(r) ELSE Latched(e, r)
  BY <1>5, <1>6, RefreshFields
<1> HIDE DEF r
<1>9. r.suppress = d.suppress
  BY <1>1, <1>5, <1>7, <1>8 DEF DiskState
<1>10. /\ Kept(d, r) /\ r.ppi = d.ppi /\ r.c2 = d.c2 /\ r.level = d.level /\ r.tick = d.tick
  BY <1>5, <1>7, <1>8 DEF Kept
<1>11. IF r.c2.output THEN Idle(r)
       ELSE r.aux = a /\ r.sync = d.sync /\ r.ordinary = ordinary /\ r.format = format
  BY <1>5, <1>8 DEF Latched
<1> QED BY <1>2, <1>3, <1>4, <1>9, <1>10, <1>11

(* Counter 2 is loaded with the bytes of the field, *)
LEMMA Loaded ==
  ASSUME NEW c \in Channel, c.mode = 0, c.gate, c.access = "lsb", ~c.bcd,
         NEW n \in 1 .. ByteBase - 1
  PROVE  LET w == WriteChannel(c, n)
         IN w \in Channel /\ w.gate = c.gate /\ w.mode = 0 /\ Counting(w, n)
<1> DEFINE high == TRUE
           low == FALSE
           phase3 == IF c.mode = 3 THEN HighPhase(n) ELSE c.phase
           w == [c EXCEPT !.reload = n, !.current = n, !.loaded = high,
                          !.strobeLow = low, !.phaseHigh = high,
                          !.output = low, !.running = high, !.phase = phase3]
<1>1. n \in Nat /\ n # 0
  BY Bases
<1>2. WriteChannel(c, n) \in Channel /\ WriteChannel(c, n).gate = c.gate
  BY <1>1, WriteChannelType, GateKept
<1>3. DecodeCount(n, c.bcd) = n
  BY <1>1 DEF DecodeCount
<1>4. WriteChannel(c, n) = w
  <2>1. WriteChannel(c, n) = Load(c, n)
    BY DEF WriteChannel
  <2>2. (c.mode # 0) = low /\ (c.mode \notin {1, 5} /\ c.gate) = high
    OBVIOUS
  <2>3. Load(c, n) = [c EXCEPT !.reload = n, !.current = n, !.loaded = high,
                               !.strobeLow = low, !.phaseHigh = high,
                               !.output = c.mode # 0,
                               !.running = c.mode \notin {1, 5} /\ c.gate,
                               !.phase = phase3]
    BY <1>3 DEF Load
  <2> HIDE DEF high, low, phase3
  <2> QED BY <2>1, <2>2, <2>3
<1>5. high /\ ~low
  OBVIOUS
<1> HIDE DEF high, low, phase3
<1>6. w.mode = 0 /\ w.loaded = high /\ w.running = high /\ w.output = low /\ w.current = n
  BY DEF Channel
<1> HIDE DEF w
<1> QED BY <1>2, <1>4, <1>5, <1>6 DEF Counting

(* and a control word stops it. *)
LEMMA Programming ==
  ASSUME NEW c \in Channel, NEW mode \in 0 .. 7
  PROVE  LET w == Configure(c, "lsb", mode, FALSE)
         IN /\ w \in Channel /\ w.gate = c.gate /\ w.access = "lsb" /\ ~w.bcd /\ ~w.loaded
            /\ mode = 0 => w.mode = 0 /\ Stopped2(w)
<1> DEFINE w == Configure(c, "lsb", mode, FALSE)
<1>1. w \in Channel /\ w.gate = c.gate
  BY ConfigureType, GateKept DEF Access
<1> DEFINE low == FALSE
           e == CASE mode = 6 -> 2 [] mode = 7 -> 3 [] OTHER -> mode
           rest == mode # 0
<1>2. w = [ResetChannel EXCEPT !.access = "lsb", !.mode = e, !.bcd = low, !.gate = c.gate,
                               !.output = rest, !.latchedValue = c.latchedValue]
  BY DEF Configure
<1>3. ResetChannel \in Channel /\ ResetChannel.loaded = FALSE
  BY DEF ResetChannel, Channel, Access
<1>4. ~low /\ (mode = 0 => e = 0 /\ ~rest)
  OBVIOUS
<1> HIDE DEF w, low, e, rest
<1>5. w.access = "lsb" /\ w.mode = e /\ w.bcd = low /\ w.output = rest /\ ~w.loaded
  BY <1>2, <1>3 DEF Channel
<1> QED BY <1>1, <1>4, <1>5 DEF Stopped2, w

----------------------------------------------------------------------------
(* Each step of the transfer. *)

LEMMA TransferFacts ==
  ASSUME TransferInv
  PROVE  /\ disk \in DiskState /\ Stable(disk) /\ SettledPpi(disk.ppi) /\ Good(disk)
         /\ disk.pending = <<>> /\ disk.c2.mode = 0 /\ disk.c2 \in Channel
         /\ disk.c1 \in Channel /\ disk.level \in BOOLEAN
         /\ disk.c2.output => Idle(disk)
         /\ disk.level = Asking(disk)
<1>1. Good(disk) /\ disk.c2.mode = 0
  BY DEF TransferInv, CounterTwo
<1>2. /\ disk \in DiskState /\ Stable(disk) /\ SettledPpi(disk.ppi) /\ disk.pending = <<>>
      /\ disk.c2.output => Idle(disk)
      /\ disk.level = Asking(disk)
  BY <1>1, GoodFields
<1> QED BY <1>1, <1>2 DEF DiskState

(* The OUTs before an operation, the port at rest. *)
LEMMA Rests ==
  ASSUME TransferInv, phase \in {"ppi", "inteB", "inteA", "stop", "timing", "mode1", "count1"},
         phase' \in {"inteB", "inteA", "timing", "mode1", "count1", "mode2"},
         UNCHANGED <<task, got, put, field, media>>,
         Good(disk'), Wired', disk'.c2 = disk.c2, Idle(disk'), ~disk'.level, ~disk'.ppi.b.ibf
  PROVE  TransferInv'
<1>1. /\ got = <<>> /\ field = <<>> /\ media = <<>> /\ put = <<>>
  BY DEF TransferInv, Resting
<1>2. TransferType' /\ CounterTwo'
  BY DEF TransferInv, TransferType, CounterTwo
<1>3. Resting' /\ Reading' /\ WritingField' /\ Formatting'
  BY <1>1 DEF Resting, Reading, WritingField, Formatting, Idle
<1> QED BY <1>2, <1>3 DEF TransferInv

LEMMA SetUpStep == TransferInv /\ SetUp => TransferInv'
<1> SUFFICES ASSUME TransferInv, SetUp PROVE TransferInv'
  OBVIOUS
<1>0. /\ disk \in DiskState /\ SettledPpi(disk.ppi) /\ Good(disk) /\ disk.c2.mode = 0
      /\ disk.c1 \in Channel /\ disk.level = Asking(disk)
  BY TransferFacts
<1> DEFINE high == TRUE
           low == FALSE
<1>1. high /\ ~low
  OBVIOUS
<1>bits. high \in BOOLEAN /\ low \in BOOLEAN
  OBVIOUS
<1>2. phase \in {"ppi", "inteB", "inteA", "stop", "timing", "mode1", "count1"}
  BY DEF SetUp, Other, Out
<1>3. /\ disk.aux = AuxClear /\ ~disk.ordinary /\ ~disk.format /\ ~disk.level
      /\ ~disk.ppi.b.ibf /\ (phase # "stop" => ~disk.sync)
      /\ (phase # "stop" => Idle(disk)) /\ ~disk.ppi.a.intr /\ ~disk.ppi.b.intr
  BY <1>0, <1>2 DEF TransferInv, Resting, Idle, Asking
<1>4. UNCHANGED <<task, got, put, field, media>>
  BY DEF SetUp, Other, Out
<1>5. CASE Other("ppi", "inteB", [disk EXCEPT !.ppi = WriteMode(@, A6h)])
  <2> DEFINE q == WriteMode(disk.ppi, A6h)
  <2>1. /\ SettledPpi(q) /\ Programmed(q) /\ ~q.a.acked /\ ~q.b.ibf /\ ~q.a.intr /\ ~q.b.intr
    <3>1. /\ A6h \in ControlWord /\ A6h.modeA = 1 /\ ~A6h.inA /\ A6h.modeB = 1 /\ A6h.inB
      BY DEF A6h, ControlWord
    <3> QED BY <1>0, <3>1, ModeWritten
  <2>2. phase' = "inteB" /\ disk' = Refresh([disk EXCEPT !.ppi = q])
    BY <1>5 DEF Other, Out
  <2> HIDE DEF q
  <2>3. /\ Good(disk') /\ disk'.ppi = q /\ Kept(disk, disk') /\ Latched(disk, disk')
        /\ disk'.c2 = disk.c2 /\ ~disk'.level /\ disk'.suppress = disk.suppress
    BY <1>0, <2>1, <2>2, PpiFields
  <2>4. Wired'
    BY <2>1, <2>2, <2>3 DEF TransferInv, Wired, Kept
  <2>5. Idle(disk')
    BY <1>3, <1>5, <2>3 DEF Other, Out, Latched, Idle
  <2> QED BY <1>2, <1>4, <2>1, <2>2, <2>3, <2>4, <2>5, Rests
<1>6. CASE Other("inteB", "inteA", [disk EXCEPT !.ppi = BitSetReset(@, 2, TRUE)])
  <2> DEFINE q == BitSetReset(disk.ppi, 2, high)
  <2>1. phase = "inteB" /\ phase' = "inteA" /\ disk' = Refresh([disk EXCEPT !.ppi = q])
    BY <1>6 DEF Other, Out
  <2>2. Programmed(disk.ppi) /\ ~disk.ppi.a.acked
    BY <2>1 DEF TransferInv, Wired
  <2>3. /\ SettledPpi(q) /\ Programmed(q) /\ q.a = disk.ppi.a /\ q.b.inteIn = high
        /\ ~q.b.ibf /\ ~q.b.intr
    <3> HIDE DEF high
    <3> QED BY <1>0, <1>bits, <1>3, <2>2, PbEnabled
  <2> HIDE DEF q, high
  <2>4. /\ Good(disk') /\ disk'.ppi = q /\ Kept(disk, disk') /\ Latched(disk, disk')
        /\ disk'.c2 = disk.c2 /\ ~disk'.level /\ disk'.suppress = disk.suppress
    BY <1>0, <1>3, <2>1, <2>3, PpiFields
  <2>5. Wired'
    BY <1>1, <2>1, <2>2, <2>3, <2>4 DEF TransferInv, Wired, Kept
  <2>6. Idle(disk')
    BY <1>3, <2>1, <2>4 DEF Latched, Idle
  <2> QED BY <1>2, <1>4, <2>1, <2>3, <2>4, <2>5, <2>6, Rests
<1>7. CASE Other("inteA", "timing", [disk EXCEPT !.ppi = BitSetReset(@, 6, TRUE)])
  <2> DEFINE q == BitSetReset(disk.ppi, 6, high)
  <2>1. phase = "inteA" /\ phase' = "timing" /\ disk' = Refresh([disk EXCEPT !.ppi = q])
    BY <1>7 DEF Other, Out
  <2>2. Programmed(disk.ppi) /\ ~disk.ppi.a.acked /\ disk.ppi.b.inteIn
    BY <2>1 DEF TransferInv, Wired
  <2>3. /\ SettledPpi(q) /\ Programmed(q) /\ q.b = disk.ppi.b /\ q.a.inteOut = high
        /\ ~q.a.intr
    <3> HIDE DEF high
    <3> QED BY <1>0, <1>bits, <2>2, PaEnabled
  <2> HIDE DEF q, high
  <2>4. /\ Good(disk') /\ disk'.ppi = q /\ Kept(disk, disk') /\ Latched(disk, disk')
        /\ disk'.c2 = disk.c2 /\ ~disk'.level /\ disk'.suppress = disk.suppress
    BY <1>0, <1>3, <2>1, <2>3, PpiFields
  <2>5. Wired'
    BY <1>1, <2>1, <2>2, <2>3, <2>4 DEF TransferInv, Wired, Kept
  <2>6. Idle(disk')
    BY <1>3, <2>1, <2>4 DEF Latched, Idle
  <2> QED BY <1>2, <1>3, <1>4, <2>1, <2>3, <2>4, <2>5, <2>6, Rests
<1>8. CASE Other("stop", "timing", SynchronizeControl([disk EXCEPT !.pa6 = TRUE]))
  <2> DEFINE out == disk.aOut
             marks == disk.markClocks
             e == Driven(disk, out, high, marks)
  <2>1. phase = "stop" /\ phase' = "timing" /\ out \in BOOLEAN /\ marks \in BOOLEAN
    BY <1>0, <1>8 DEF Other, Out, DiskState
  <2>2. disk' = Refresh(SynchronizeControl(e))
    <3>1. [disk EXCEPT !.pa6 = TRUE] = e
      BY <1>0 DEF DiskState, Driven
    <3> QED BY <1>8, <3>1 DEF Other, Out
  <2> HIDE DEF high, out, marks
  <2>3. /\ Good(disk') /\ disk'.ppi = disk.ppi /\ disk'.c2 = disk.c2 /\ disk'.level = disk.level
        /\ disk'.suppress = disk.suppress /\ disk'.aOut = out /\ disk'.pa6 = high
        /\ disk'.timing = (disk'.aOut /\ ~disk'.pa6)
        /\ IF disk'.timing THEN Latched(disk, disk') ELSE Idle(disk')
    BY <1>0, <1>bits, <2>1, <2>2, ControlFields
  <2>4. Wired'
    BY <1>1, <2>1, <2>3 DEF TransferInv, Wired
  <2> QED BY <1>1, <1>2, <1>3, <1>4, <2>1, <2>3, <2>4, Rests
<1>9. CASE Other("timing", "mode1",
                 SynchronizeControl([disk EXCEPT !.aOut = TRUE, !.pa6 = FALSE,
                                                 !.markClocks = FALSE]))
  <2> DEFINE e == Driven(disk, high, low, low)
  <2>1. phase = "timing" /\ phase' = "mode1" /\ disk' = Refresh(SynchronizeControl(e))
    BY <1>9 DEF Other, Out, Driven
  <2> HIDE DEF high, low
  <2>3. /\ Good(disk') /\ disk'.ppi = disk.ppi /\ disk'.c2 = disk.c2 /\ disk'.level = disk.level
        /\ disk'.suppress = disk.suppress /\ disk'.aOut = high /\ disk'.pa6 = low
        /\ disk'.timing = (disk'.aOut /\ ~disk'.pa6)
        /\ IF disk'.timing THEN Latched(disk, disk') ELSE Idle(disk')
    BY <1>0, <1>bits, <2>1, ControlFields
  <2>4. Wired'
    BY <1>1, <2>1, <2>3 DEF TransferInv, Wired
  <2>5. Idle(disk')
    BY <1>1, <1>3, <2>1, <2>3 DEF Latched, Idle
  <2> QED BY <1>2, <1>3, <1>4, <2>1, <2>3, <2>4, <2>5, Rests
<1>10. CASE Other("mode1", "count1",
                  [disk EXCEPT !.c1 = Configure(@, "lsb", 1, FALSE), !.timeout = FALSE])
  <2> DEFINE c == Configure(disk.c1, "lsb", 1, FALSE)
  <2>1. phase = "mode1" /\ phase' = "count1"
        /\ disk' = Refresh([disk EXCEPT !.c1 = c, !.timeout = @ /\ low])
    <3>1. [disk EXCEPT !.c1 = c, !.timeout = FALSE] = [disk EXCEPT !.c1 = c, !.timeout = @ /\ low]
      BY <1>0 DEF DiskState
    <3> QED BY <1>10, <3>1 DEF Other, Out
  <2>2. c \in Channel /\ c.gate = disk.c1.gate
    <3>1. 1 \in 0 .. 7
      OBVIOUS
    <3> QED BY <1>0, <3>1, Programming
  <2> HIDE DEF c, low
  <2>3. Good(disk') /\ Calm(disk, disk')
    BY <1>0, <1>bits, <2>1, <2>2, CounterOneFields
  <2>4. Wired'
    BY <2>1, <2>3 DEF TransferInv, Wired, Calm, Kept
  <2>5. Idle(disk')
    BY <1>3, <2>1, <2>3 DEF Calm, Latched, Idle
  <2> QED BY <1>2, <1>3, <1>4, <2>1, <2>3, <2>4, <2>5, Rests DEF Calm
<1>11. CASE Other("count1", "mode2", [disk EXCEPT !.c1 = WriteChannel(@, 1)])
  <2> DEFINE c == WriteChannel(disk.c1, 1)
  <2>1. phase = "count1" /\ phase' = "mode2"
        /\ disk' = Refresh([disk EXCEPT !.c1 = c, !.timeout = @ /\ high])
    <3>1. [disk EXCEPT !.c1 = c] = [disk EXCEPT !.c1 = c, !.timeout = @ /\ high]
      BY <1>0 DEF DiskState
    <3> QED BY <1>11, <3>1 DEF Other, Out
  <2>2. c \in Channel /\ c.gate = disk.c1.gate
    BY <1>0, WriteChannelType, GateKept
  <2> HIDE DEF c, high
  <2>3. Good(disk') /\ Calm(disk, disk')
    BY <1>0, <1>bits, <2>1, <2>2, CounterOneFields
  <2>4. Wired'
    BY <2>1, <2>3 DEF TransferInv, Wired, Calm, Kept
  <2>5. Idle(disk')
    BY <1>3, <2>1, <2>3 DEF Calm, Latched, Idle
  <2> QED BY <1>2, <1>3, <1>4, <2>1, <2>3, <2>4, <2>5, Rests DEF Calm
<1> QED BY <1>5, <1>6, <1>7, <1>8, <1>9, <1>10, <1>11 DEF SetUp

(* The operation is armed. *)
LEMMA ArmStep == TransferInv /\ Arm => TransferInv'
<1> SUFFICES ASSUME TransferInv, Arm PROVE TransferInv'
  OBVIOUS
<1>0. /\ disk \in DiskState /\ SettledPpi(disk.ppi) /\ Good(disk) /\ disk.c2.mode = 0
      /\ disk.c2 \in Channel /\ disk.level = Asking(disk)
      /\ disk.level \in BOOLEAN /\ disk.ppi.b.ibf \in BOOLEAN
  BY TransferFacts DEF DiskState, PpiState, Group
<1>1. phase \in {"mode2", "count2", "first", "enable"}
  BY DEF Arm, Other, Out
<1>2. /\ disk.aux = AuxClear /\ ~disk.ordinary /\ ~disk.format /\ ~disk.sync /\ Idle(disk)
      /\ ~disk.level /\ ~disk.ppi.b.ibf /\ ~disk.ppi.a.intr /\ ~disk.ppi.b.intr
      /\ got = <<>> /\ field = <<>> /\ media = <<>> /\ (phase # "enable" => put = <<>>)
  BY <1>0, <1>1 DEF TransferInv, Resting, Idle, Asking
<1>3. /\ Programmed(disk.ppi) /\ disk.ppi.b.inteIn /\ disk.ppi.a.inteOut /\ disk.timing
      /\ disk.timing = (disk.aOut /\ ~disk.pa6) /\ ~disk.suppress /\ disk.c2.gate
      /\ task \in {"id", "data", "write", "format"}
  BY <1>1 DEF TransferInv, Wired, CounterTwo, TransferType
<1>4. UNCHANGED <<task, got, field, media>>
  BY DEF Arm, Other, Out
<1>5. CASE Other("mode2", IF task = "format" THEN "first" ELSE "count2",
                 [disk EXCEPT !.c2 = Configure(@, "lsb", 0, FALSE)])
  <2> DEFINE c == Configure(disk.c2, "lsb", 0, FALSE)
  <2>1. /\ phase = "mode2" /\ phase' = (IF task = "format" THEN "first" ELSE "count2")
        /\ disk' = Refresh([disk EXCEPT !.c2 = c]) /\ put' = put
    BY <1>5 DEF Other, Out
  <2>2. c \in Channel /\ c.gate = disk.c2.gate /\ c.mode = 0 /\ Stopped2(c)
        /\ c.access = "lsb" /\ ~c.bcd
    <3>1. 0 \in 0 .. 7
      OBVIOUS
    <3> QED BY <1>0, <3>1, Programming
  <2> HIDE DEF c
  <2>3. /\ Good(disk') /\ disk'.c2 = c /\ Kept(disk, disk') /\ Latched(disk, disk')
        /\ disk'.ppi = disk.ppi /\ disk'.level = disk.level
        /\ disk'.suppress = disk.suppress /\ disk'.tick = disk.tick
    BY <1>0, <2>1, <2>2, CounterTwoFields DEF Stopped2
  <2>4. TransferType' /\ Wired'
    BY <1>3, <1>4, <2>1, <2>3 DEF TransferInv, TransferType, Wired, Kept
  <2>5. CounterTwo'
    BY <1>3, <1>4, <2>1, <2>2, <2>3 DEF CounterTwo, Writing
  <2>6. Resting' /\ Reading' /\ WritingField' /\ Formatting'
    BY <1>2, <1>4, <2>1, <2>3 DEF Resting, Reading, WritingField, Formatting, Latched
  <2> QED BY <2>3, <2>4, <2>5, <2>6 DEF TransferInv
<1>6. CASE Other("count2", IF task = "write" THEN "first" ELSE "enable",
                 [disk EXCEPT !.c2 = WriteChannel(@, Length(task))])
  <2> DEFINE c == WriteChannel(disk.c2, Length(task))
  <2>1. /\ phase = "count2" /\ phase' = (IF task = "write" THEN "first" ELSE "enable")
        /\ disk' = Refresh([disk EXCEPT !.c2 = c]) /\ put' = put
    BY <1>6 DEF Other, Out
  <2>2. task # "format" /\ disk.c2.access = "lsb" /\ ~disk.c2.bcd
    BY <2>1 DEF TransferInv, CounterTwo
  <2>3. Length(task) \in 1 .. ByteBase - 1
    BY TransferAssumption DEF Length
  <2>4. c \in Channel /\ c.gate = disk.c2.gate /\ c.mode = 0 /\ Counting(c, Length(task))
    BY <1>0, <1>3, <2>2, <2>3, Loaded
  <2> HIDE DEF c
  <2>5. /\ Good(disk') /\ disk'.c2 = c /\ Kept(disk, disk') /\ Latched(disk, disk')
        /\ disk'.ppi = disk.ppi /\ disk'.level = disk.level
        /\ disk'.suppress = disk.suppress /\ disk'.tick = disk.tick
    BY <1>0, <2>1, <2>4, CounterTwoFields DEF Counting
  <2>6. TransferType' /\ Wired'
    BY <1>3, <1>4, <2>1, <2>5 DEF TransferInv, TransferType, Wired, Kept
  <2>7. CounterTwo'
    BY <1>3, <1>4, <2>1, <2>2, <2>4, <2>5 DEF CounterTwo, Writing
  <2>8. Resting' /\ Reading' /\ WritingField' /\ Formatting'
    BY <1>2, <1>3, <1>4, <2>1, <2>2, <2>5
       DEF Resting, Reading, WritingField, Formatting, Latched, Writing
  <2> QED BY <2>5, <2>6, <2>7, <2>8 DEF TransferInv
<1>7. ASSUME NEW v \in WriteBytes, Out("first", "enable", [disk EXCEPT !.ppi = WriteA(@, v)]),
             put' = <<v>>
      PROVE  TransferInv'
  <2> DEFINE q == WriteA(disk.ppi, v)
  <2>1. /\ phase = "first" /\ phase' = "enable" /\ disk' = Refresh([disk EXCEPT !.ppi = q])
        /\ v \in Byte
    BY <1>7, DiskAssumption DEF Out
  <2>2. /\ SettledPpi(q) /\ Programmed(q) /\ q.b = disk.ppi.b
        /\ q.a.out = v /\ ~q.a.obf /\ ~q.a.acked /\ ~q.a.intr /\ q.a.inteOut = disk.ppi.a.inteOut
    BY <1>0, <1>3, <2>1, PaWritten
  <2> HIDE DEF q
  <2>3. /\ Good(disk') /\ disk'.ppi = q /\ Kept(disk, disk') /\ Latched(disk, disk')
        /\ disk'.c2 = disk.c2 /\ ~disk'.level /\ disk'.suppress = disk.suppress
    BY <1>0, <1>2, <2>1, <2>2, PpiFields
  <2>4. TransferType' /\ Wired'
    <3>1. put' \in Seq(Byte)
      BY <1>7, <2>1
    <3>2. TransferType'
      BY <1>3, <1>4, <2>1, <3>1 DEF TransferInv, TransferType
    <3>3. Wired'
      BY <1>3, <2>1, <2>2, <2>3 DEF Wired, Kept
    <3> QED BY <3>2, <3>3
  <2>5. CounterTwo' /\ Writing
    BY <1>3, <1>4, <2>1, <2>3 DEF TransferInv, CounterTwo, Writing
  <2>6. Resting' /\ Reading' /\ WritingField' /\ Formatting'
    <3>1. Len(put') = 1 /\ put'[1] = v
      BY <1>7
    <3> QED BY <1>2, <1>4, <2>1, <2>2, <2>3, <2>5, <3>1
            DEF Resting, Reading, WritingField, Formatting, Latched, Offered, Writing
  <2> QED BY <2>3, <2>4, <2>5, <2>6 DEF TransferInv
<1>8. ASSUME phase = "enable", phase' = "transfer", disk' = AfterWriteAux(disk, Enable(task)),
             put' = put
      PROVE  TransferInv'
  <2> DEFINE a == Enable(task)
  <2>1. a \in Aux /\ a # AuxClear
    BY <1>3 DEF Enable, AuxClear, Aux
  <2> HIDE DEF a
  <2>2. /\ Good(disk') /\ Kept(disk, disk')
        /\ disk'.ppi = disk.ppi /\ disk'.c2 = disk.c2 /\ disk'.level = disk.level
        /\ disk'.suppress = disk.suppress /\ disk'.tick = disk.tick
        /\ IF disk'.c2.output THEN Idle(disk')
           ELSE /\ disk'.aux = a /\ disk'.sync = disk.sync
                /\ disk'.ordinary = (disk.ordinary /\ a.we) /\ disk'.format = (disk.format /\ a.fm)
    BY <1>0, <1>3, <1>8, <2>1, AuxFields DEF a
  <2>3. /\ ~disk.c2.output
        /\ IF task = "format" THEN Stopped2(disk.c2) ELSE Counting(disk.c2, Length(task))
    BY <1>8 DEF TransferInv, CounterTwo, Stopped2, Counting
  <2>4. /\ disk'.aux = a /\ ~disk'.sync /\ ~disk'.ordinary /\ ~disk'.format
    BY <1>2, <2>2, <2>3
  <2>5. TransferType' /\ Wired'
    BY <1>3, <1>4, <1>8, <2>2 DEF TransferInv, TransferType, Wired, Kept
  <2>6. CounterTwo' /\ Resting'
    BY <1>0, <1>3, <1>8, <2>2 DEF CounterTwo, Resting, Kept
  <2>7. /\ Unread' = <<>> /\ got' \o Unread' = field' /\ Len(field') = 0
        /\ disk'.level = disk'.ppi.b.ibf /\ ~disk'.ppi.a.intr
    BY <1>0, <1>2, <1>4, <2>2 DEF Unread
  <2>8. /\ disk' \in DiskState /\ disk'.sync = FALSE /\ disk'.ordinary = FALSE
        /\ disk'.format = FALSE /\ disk'.aux = Enable(task')
    BY <1>4, <2>2, <2>4 DEF Good, Stable, DiskState, a
  <2>9. Reading'
    <3> SUFFICES ASSUME ~Writing PROVE Reading'
      BY <1>4 DEF Reading, Writing
    <3>1. put' = <<>>
      BY <1>8 DEF TransferInv, Resting
    <3>2. Counting(disk'.c2, Length(task')) /\ ~disk'.c2.output
      BY <1>4, <2>2, <2>3 DEF Writing
    <3>3. field' = <<>> /\ media' = <<>>
      BY <1>2, <1>4
    <3>4. Length(task') \in Nat
      BY TransferAssumption, Bases DEF Length
    <3>5. disk'.sync = (field' # <<>>) /\ ~disk'.ordinary /\ ~disk'.format
      BY <2>8, <3>3
    <3> QED BY <2>7, <2>8, <3>1, <3>2, <3>3, <3>4, <3>5 DEF Reading
  <2>10. Writing => Offered(Len(media))' /\ put' # <<>>
    <3> SUFFICES ASSUME Writing PROVE Offered(Len(media))' /\ put' # <<>>
      OBVIOUS
    <3>1. Offered(0)
      BY <1>8 DEF TransferInv, Resting
    <3>2. Len(media') = 0
      BY <1>2, <1>4
    <3>3. Len(put) = 1
      BY <1>2, <3>1 DEF Offered
    <3>4. Offered(Len(media))'
      BY <1>8, <2>2, <3>1, <3>2 DEF Offered
    <3> QED BY <1>8, <3>3, <3>4
  <2>11. /\ media' = <<>> /\ Len(media') = 0 /\ got' = <<>> /\ field' = <<>>
         /\ ~disk'.ppi.b.ibf
    BY <1>2, <1>4, <2>2
  <2>12. Told' /\ Idling'
    BY <2>8, <2>11 DEF Told, Idling
  <2>13. WritingField'
    <3> SUFFICES ASSUME task = "write" PROVE WritingField'
      BY <1>4 DEF WritingField
    <3>1. Counting(disk'.c2, DataLength) /\ ~disk'.c2.output /\ DataLength \in Nat /\ 0 < DataLength
      BY <2>2, <2>3, TransferAssumption, Bases DEF Length
    <3>2. DataLength - Len(media') = DataLength /\ Len(media') < DataLength
      BY <2>11, <3>1
    <3>3. disk'.ordinary = (media' # <<>>)
      BY <2>8, <2>11
    <3> QED BY <2>8, <2>10, <2>11, <2>12, <3>1, <3>2, <3>3 DEF WritingField, Writing
  <2>14. Formatting'
    <3> SUFFICES ASSUME task = "format" PROVE Formatting'
      BY <1>4 DEF Formatting
    <3>1. Stopped2(disk'.c2)
      BY <2>2, <2>3
    <3>2. disk'.format = (media' # <<>>) /\ disk'.aux # AuxClear
      BY <2>1, <2>4, <2>8, <2>11
    <3>3. \A i \in 1 .. Len(media') : media'[i].tick = i - 1
      BY <2>11
    <3> QED BY <2>8, <2>10, <2>11, <2>12, <3>1, <3>2, <3>3 DEF Formatting, Writing
  <2> QED BY <2>2, <2>5, <2>6, <2>9, <2>13, <2>14 DEF TransferInv
<1> QED BY <1>4, <1>5, <1>6, <1>7, <1>8 DEF Arm

(* The driver turns to the next field. *)
LEMMA Turns ==
  ASSUME TransferInv, phase = "transfer", phase' \in {"stop", "mode2"},
         task' \in {"id", "data", "write", "format"},
         got' = <<>>, put' = <<>>, field' = <<>>, media' = <<>>,
         Good(disk'), Kept(disk, disk'), disk'.ppi = disk.ppi, disk'.suppress = disk.suppress,
         ~disk.level, ~disk'.level,
         disk'.aux = AuxClear, ~disk'.ordinary, ~disk'.format, phase' # "stop" => ~disk'.sync
  PROVE  TransferInv'
<1>1. ~disk.ppi.b.ibf
  BY DEF TransferInv, TransferType, Reading, WritingField, Formatting, Idling, Writing
<1>2. TransferType'
  BY DEF TransferInv, TransferType
<1>3. Wired' /\ CounterTwo'
  BY DEF TransferInv, Wired, CounterTwo, Kept
<1>4. Resting' /\ Reading' /\ WritingField' /\ Formatting'
  BY <1>1 DEF Resting, Reading, WritingField, Formatting
<1> QED BY <1>2, <1>3, <1>4 DEF TransferInv

LEMMA ServeI6Step == TransferInv /\ ServeI6 => TransferInv'
<1> SUFFICES ASSUME TransferInv, ServeI6 PROVE TransferInv'
  OBVIOUS
<1>0. Good(disk) /\ disk.c2.mode = 0
  BY TransferFacts
<1>1. /\ phase = "transfer" /\ ~disk.level /\ disk' = AfterWriteAux(disk, AuxClear)
      /\ task' = "id" /\ phase' = "stop"
      /\ got' = <<>> /\ put' = <<>> /\ field' = <<>> /\ media' = <<>>
  BY DEF ServeI6, NextField
<1>2. disk.timing
  BY <1>1 DEF TransferInv, Wired
<1> DEFINE a == AuxClear
<1>3. a \in Aux /\ ~a.we /\ ~a.fm
  BY DEF AuxClear, Aux
<1> HIDE DEF a
<1>4. /\ Good(disk') /\ Kept(disk, disk')
      /\ disk'.ppi = disk.ppi /\ disk'.c2 = disk.c2 /\ disk'.level = disk.level
      /\ disk'.suppress = disk.suppress
      /\ IF disk'.c2.output THEN Idle(disk')
         ELSE /\ disk'.aux = a
              /\ disk'.ordinary = (disk.ordinary /\ a.we) /\ disk'.format = (disk.format /\ a.fm)
  BY <1>0, <1>1, <1>2, <1>3, AuxFields DEF a
<1>5. disk'.aux = AuxClear /\ ~disk'.ordinary /\ ~disk'.format
  BY <1>3, <1>4 DEF Idle, a
<1> QED BY <1>1, <1>4, <1>5, Turns

LEMMA ServeI5Step == TransferInv /\ ServeI5 => TransferInv'
<1> SUFFICES ASSUME TransferInv, ServeI5 PROVE TransferInv'
  OBVIOUS
<1>1. /\ phase = "transfer" /\ ~disk.level /\ disk.c2.output /\ disk' = disk
      /\ task' \in {"id", "data", "write", "format"} /\ phase' = "mode2"
      /\ got' = <<>> /\ put' = <<>> /\ field' = <<>> /\ media' = <<>>
  BY DEF ServeI5, NextField
<1>2. Good(disk) /\ Idle(disk)
  BY <1>1, TransferFacts
<1> QED BY <1>1, <1>2, Turns DEF Idle, Kept

LEMMA EndFormatStep == TransferInv /\ EndFormat => TransferInv'
<1> SUFFICES ASSUME TransferInv, EndFormat PROVE TransferInv'
  OBVIOUS
<1>1. /\ phase = "transfer" /\ ~disk.level /\ task = "format" /\ disk.aux = AuxClear
      /\ disk' = disk /\ task' = "id" /\ phase' = "mode2"
      /\ got' = <<>> /\ put' = <<>> /\ field' = <<>> /\ media' = <<>>
  BY DEF EndFormat, NextField, Formatted
<1>2. Good(disk) /\ ~disk.ordinary /\ ~disk.format /\ ~disk.sync
  BY <1>1, TransferFacts DEF TransferInv, Formatting, Idling
<1> QED BY <1>1, <1>2, Turns DEF Kept

(* The driver puts a byte into PA *)
LEMMA Puts ==
  ASSUME TransferInv, phase = "transfer", disk.level, Writing,
         UNCHANGED <<task, phase, got, field, media>>,
         NEW v \in WriteBytes, DataPpi(WriteA(disk.ppi, v)), put' = Append(put, v)
  PROVE  TransferInv'
<1> DEFINE q == WriteA(disk.ppi, v)
<1>0. /\ disk \in DiskState /\ SettledPpi(disk.ppi) /\ Good(disk) /\ disk.c2.mode = 0
      /\ v \in Byte
  BY TransferFacts, DiskAssumption
<1>1. /\ Programmed(disk.ppi) /\ disk.ppi.b.inteIn /\ disk.ppi.a.inteOut
  BY DEF TransferInv, Wired
<1>2. /\ SettledPpi(q) /\ Programmed(q) /\ q.b = disk.ppi.b
      /\ q.a.out = v /\ ~q.a.obf /\ ~q.a.acked /\ ~q.a.intr /\ q.a.inteOut = disk.ppi.a.inteOut
  BY <1>0, <1>1, PaWritten
<1>3. disk' = Refresh([disk EXCEPT !.ppi = q])
  BY DEF DataPpi
<1> HIDE DEF q
<1>4. ~disk.ppi.b.ibf /\ Idling /\ Offered(Len(media)) /\ Told
      /\ put \in Seq(Byte) /\ media \in Seq(Cell)
  BY DEF TransferInv, TransferType, WritingField, Formatting, Writing, Idling
<1>5. ~q.b.intr
  <2>1. disk.ppi.b \in Group /\ disk.ppi.a \in Group /\ disk.ppi.b.intr = Request(disk.ppi.b)
    BY <1>0, SettledPins DEF SettledPpi, PpiState
  <2>2. ~Request(disk.ppi.b)
    BY <1>1, <1>4 DEF Programmed, Request, InputRequest, OutputRequest, Acknowledged
  <2> QED BY <1>2, <2>1, <2>2
<1>6. /\ Good(disk') /\ disk'.ppi = q /\ Kept(disk, disk') /\ Latched(disk, disk')
      /\ disk'.c2 = disk.c2 /\ ~disk'.level /\ disk'.suppress = disk.suppress
      /\ disk'.tick = disk.tick
  BY <1>0, <1>2, <1>3, <1>5, PpiFields
<1>7. /\ put' \in Seq(Byte) /\ Len(put') = Len(media) + 1 /\ put'[Len(media) + 1] = v
      /\ \A i \in 1 .. Len(media) : put'[i] = put[i]
      /\ put' # <<>> /\ Len(media) \in Nat
  <2>1. Len(put) = Len(media) /\ Len(media) \in Nat
    BY <1>4 DEF Offered
  <2>2. Len(put') = Len(put) + 1 /\ put'[Len(put) + 1] = v /\ put' \in Seq(Byte)
    BY <1>0, <1>4
  <2>3. \A i \in 1 .. Len(put) : put'[i] = put[i]
    BY <1>0, <1>4
  <2>4. put' # <<>>
    BY <2>1, <2>2
  <2> QED BY <2>1, <2>2, <2>3, <2>4
<1>8. Offered(Len(media))'
  BY <1>2, <1>6, <1>7 DEF Offered
<1>9. Told' /\ Idling'
  BY <1>2, <1>4, <1>6, <1>7 DEF Told, Idling, Latched
<1>10. TransferType' /\ Wired' /\ CounterTwo'
  <2>1. TransferType'
    BY <1>7 DEF TransferInv, TransferType
  <2>2. Wired'
    BY <1>1, <1>2, <1>6 DEF TransferInv, Wired, Kept
  <2>3. CounterTwo'
    BY <1>6 DEF TransferInv, CounterTwo, Kept
  <2> QED BY <2>1, <2>2, <2>3
<1>11. Resting' /\ Reading'
  BY DEF Resting, Reading, Writing
<1>12. WritingField'
  BY <1>6, <1>7, <1>8, <1>9 DEF TransferInv, WritingField, Latched
<1>13. Formatting'
  BY <1>6, <1>7, <1>8, <1>9 DEF TransferInv, Formatting, Latched
<1> QED BY <1>6, <1>10, <1>11, <1>12, <1>13 DEF TransferInv

(* or takes one from PB. *)
LEMMA Gets ==
  ASSUME TransferInv, phase = "transfer", disk.level, ~Writing,
         UNCHANGED <<task, phase, put, field, media>>,
         ReadData, got' = Append(got, GroupReadValue(disk.ppi.b))
  PROVE  TransferInv'
<1> DEFINE q == ReadB(disk.ppi)
<1>0. /\ disk \in DiskState /\ SettledPpi(disk.ppi) /\ Good(disk) /\ disk.c2.mode = 0
  BY TransferFacts
<1>1. /\ Programmed(disk.ppi) /\ disk.ppi.b.inteIn /\ disk.ppi.a.inteOut
  BY DEF TransferInv, Wired
<1>2. /\ SettledPpi(q) /\ Programmed(q) /\ q.a = disk.ppi.a
      /\ ~q.b.ibf /\ ~q.b.intr /\ q.b.inteIn = disk.ppi.b.inteIn
      /\ GroupReadValue(disk.ppi.b) = disk.ppi.b.latch
  BY <1>0, <1>1, PbRead
<1>3. disk' = Refresh([disk EXCEPT !.ppi = q])
  BY DEF ReadData, DataPpi
<1> HIDE DEF q
<1>4. /\ ~disk.ppi.a.intr /\ disk.ppi.b.ibf /\ disk.ppi.b.latch \in Byte
      /\ got \in Seq(Byte) /\ got \o <<disk.ppi.b.latch>> = field
  BY <1>0 DEF TransferInv, TransferType, Reading, Unread, DiskState, PpiState, Group
<1>5. /\ Good(disk') /\ disk'.ppi = q /\ Kept(disk, disk') /\ Latched(disk, disk')
      /\ disk'.c2 = disk.c2 /\ ~disk'.level /\ disk'.suppress = disk.suppress
  BY <1>0, <1>2, <1>3, <1>4, PpiFields
<1>6. /\ got' \in Seq(Byte) /\ got' = field /\ Unread' = <<>> /\ got' \o Unread' = field'
  <2>1. got' = Append(got, disk.ppi.b.latch) /\ got' \in Seq(Byte)
    BY <1>2, <1>4
  <2>2. Append(got, disk.ppi.b.latch) = got \o <<disk.ppi.b.latch>>
    BY <1>4
  <2>3. Unread' = <<>>
    BY <1>2, <1>5 DEF Unread
  <2>4. got' \o <<>> = got'
    BY <2>1
  <2> QED BY <1>4, <2>1, <2>2, <2>3, <2>4
<1>7. disk'.level = disk'.ppi.b.ibf
  BY <1>2, <1>5 DEF Good, Stable, DiskState, PpiState, Group
<1>8. TransferType' /\ Wired' /\ CounterTwo'
  <2>1. TransferType'
    BY <1>6 DEF TransferInv, TransferType
  <2>2. Wired'
    BY <1>1, <1>2, <1>5 DEF TransferInv, Wired, Kept
  <2>3. CounterTwo'
    BY <1>5 DEF TransferInv, CounterTwo, Kept
  <2> QED BY <2>1, <2>2, <2>3
<1>9. Resting' /\ WritingField' /\ Formatting'
  BY DEF Resting, WritingField, Formatting, Writing
<1>10. Reading'
  BY <1>2, <1>4, <1>5, <1>6, <1>7 DEF TransferInv, Reading, Latched, Writing
<1> QED BY <1>5, <1>8, <1>9, <1>10 DEF TransferInv

LEMMA ServeI7Step == TransferInv /\ ServeI7 => TransferInv'
<1> SUFFICES ASSUME TransferInv, ServeI7 PROVE TransferInv'
  OBVIOUS
<1>1. phase = "transfer" /\ disk.level /\ UNCHANGED <<task, phase, field, media>>
  BY DEF ServeI7
<1>2. CASE Writing
  <2>1. PICK v \in WriteBytes :
          DataPpi(WriteA(disk.ppi, v)) /\ put' = Append(put, v) /\ UNCHANGED got
    BY <1>2 DEF ServeI7
  <2> QED BY <1>1, <1>2, <2>1, Puts
<1>3. CASE ~Writing
  <2>1. ReadData /\ got' = Append(got, GroupReadValue(disk.ppi.b)) /\ UNCHANGED put
    BY <1>3 DEF ServeI7
  <2> QED BY <1>1, <1>3, <2>1, Gets
<1> QED BY <1>2, <1>3

(* Nothing is transferred. *)
LEMMA Passes ==
  ASSUME TransferInv, Good(disk'), Calm(disk, disk'),
         disk'.tick = disk.tick \/ (~disk.ordinary /\ ~disk.format),
         UNCHANGED <<task, phase, got, put, field, media>>
  PROVE  TransferInv'
<1>1. TransferType' /\ Wired' /\ CounterTwo'
  BY DEF TransferInv, TransferType, Wired, CounterTwo, Calm, Kept, Writing
<1>2. \A n \in Int : Offered(n) => Offered(n)'
  BY DEF Offered, Calm
<1>3. Offered(0) => Offered(0)'
  BY <1>2
<1>4. Len(media) \in Int /\ (Offered(Len(media)) => Offered(Len(media))')
  BY <1>2 DEF TransferInv, TransferType
<1>5. Resting'
  BY <1>3 DEF TransferInv, Resting, Calm, Latched, Writing
<1>6. Reading'
  BY DEF TransferInv, Reading, Unread, Calm, Latched, Writing
<1>7. (Idling => Idling') /\ (Told => Told')
  BY DEF Idling, Told, Calm, Latched
<1>8. WritingField'
  BY <1>4, <1>7 DEF TransferInv, WritingField, Calm, Latched
<1>9. Formatting'
  BY <1>4, <1>7 DEF TransferInv, Formatting, Calm, Latched
<1> QED BY <1>1, <1>5, <1>6, <1>8, <1>9 DEF TransferInv

LEMMA InterfereStep == TransferInv /\ Interfere => TransferInv'
<1> SUFFICES ASSUME TransferInv, Interfere PROVE TransferInv'
  OBVIOUS
<1> DEFINE out == disk.aOut
           off == disk.pa6
           marks == disk.markClocks
           e == Driven(disk, out, off, marks)
<1>1. /\ disk \in DiskState /\ Good(disk) /\ disk.c2.mode = 0
      /\ disk.timing = (disk.aOut /\ ~disk.pa6)
      /\ Stable(disk)
  BY TransferFacts DEF TransferInv, Wired
<1>2. out \in BOOLEAN /\ off \in BOOLEAN /\ marks \in BOOLEAN
  BY <1>1 DEF DiskState
<1>3. disk = e
  BY <1>1 DEF DiskState, Driven
<1>4. disk' = Refresh(SynchronizeControl(e)) /\ UNCHANGED <<task, phase, got, put, field, media>>
  BY <1>3 DEF Interfere, WriteControlOther, steps
<1> HIDE DEF out, off, marks
<1>5. /\ Good(disk') /\ disk'.ppi = disk.ppi /\ disk'.c2 = disk.c2 /\ disk'.level = disk.level
      /\ disk'.suppress = disk.suppress /\ disk'.tick = disk.tick
      /\ disk'.aOut = out /\ disk'.pa6 = off /\ disk'.timing = (disk'.aOut /\ ~disk'.pa6)
      /\ IF disk'.timing THEN Latched(disk, disk') ELSE Idle(disk')
  BY <1>1, <1>2, <1>4, ControlFields
<1>6. disk'.timing = disk.timing
  BY <1>1, <1>5 DEF out, off
<1>7. Latched(disk, disk')
  BY <1>1, <1>5, <1>6 DEF Latched, Stable, Idle, DiskState, Good
<1>8. Calm(disk, disk')
  BY <1>5, <1>6, <1>7 DEF Calm, Kept, out, off
<1> QED BY <1>4, <1>5, <1>8, Passes

(* Where a cell is on the track. *)
LEMMA NextTick ==
  ASSUME NEW t \in Ticks
  PROVE  /\ Cardinality(Ticks) \in Nat \ {0}
         /\ t \in 0 .. Cardinality(Ticks) - 1
         /\ Following(t) = IF t = Cardinality(Ticks) - 1 THEN 0 ELSE t + 1
<1> DEFINE n == Cardinality(Ticks)
<1>1. n \in Nat /\ Ticks = 0 .. n - 1
  BY TransferAssumption, FS_CardinalityType
<1> HIDE DEF n
<1>2. t \in 0 .. n - 1 /\ n # 0
  BY <1>1
<1>3. (t + 1) % n = IF t = n - 1 THEN 0 ELSE t + 1
  BY <1>1, <1>2
<1> QED BY <1>1, <1>2, <1>3 DEF Following, n

(* The disk takes the byte that PA holds. *)
LEMMA Takes ==
  ASSUME TransferInv, phase = "transfer", Writing, ~disk.level,
         Good(disk'), Took(disk, disk'), disk.aux = Enable(task), ~disk.c2.output,
         NEW cell \in Cell, cell.data = disk.ppi.a.out, disk'.tick = cell.tick,
         media' = Append(media, cell), UNCHANGED <<task, phase, got, put, field>>,
         media # <<>> => cell.tick = Following(disk.tick),
         task = "format" => (media = <<>> <=> cell.tick = 0),
         IF disk'.c2.output THEN Idle(disk')
         ELSE /\ disk'.aux = disk.aux /\ disk'.sync = disk.sync
              /\ IF task = "write" THEN disk'.ordinary /\ disk'.format = disk.format
                 ELSE disk'.format /\ disk'.ordinary = disk.ordinary
  PROVE  TransferInv'
<1> DEFINE n == Len(media)
<1>0. /\ disk \in DiskState /\ disk.c2 \in Channel /\ disk.c2.mode = 0 /\ disk' \in DiskState
  BY TransferFacts DEF Good, Stable
<1>1. /\ task \in {"write", "format"} /\ Idling /\ Offered(n) /\ Told /\ put # <<>>
      /\ media \in Seq(Cell) /\ put \in Seq(Byte) /\ n \in Nat
  BY DEF TransferInv, TransferType, WritingField, Formatting, Writing
<1>2. Len(put) = n + 1 /\ put[n + 1] = disk.ppi.a.out
  BY <1>1 DEF Offered
<1>3. /\ media' \in Seq(Cell) /\ Len(media') = n + 1 /\ media'[n + 1] = cell
      /\ (\A i \in 1 .. n : media'[i] = media[i]) /\ media' # <<>>
  <2>1. /\ media' \in Seq(Cell) /\ Len(media') = n + 1 /\ media'[n + 1] = cell
        /\ (\A i \in 1 .. n : media'[i] = media[i])
    BY <1>1
  <2> QED BY <1>1, <2>1
<1> HIDE DEF n
<1>4. disk'.level /\ disk'.ppi.a.obf /\ disk'.ppi.b = disk.ppi.b
  BY DEF Took
<1>5. Offered(Len(media))'
  BY <1>2, <1>3, <1>4 DEF Offered
<1>6. n > 0 => media[n].tick = disk.tick
  <2> SUFFICES ASSUME n > 0 PROVE media[n].tick = disk.tick
    OBVIOUS
  <2>1. media # <<>> /\ n \in 1 .. n
    BY <1>1 DEF n
  <2>2. CASE task = "write"
    BY <2>1, <2>2 DEF TransferInv, WritingField, n
  <2>3. CASE task = "format"
    <3>1. disk.aux # AuxClear
      BY <2>3 DEF Enable, AuxClear
    <3> QED BY <2>1, <2>3, <3>1 DEF TransferInv, Formatting, n
  <2> QED BY <1>1, <2>2, <2>3
<1>7. Told'
  <2> SUFFICES ASSUME NEW i \in 1 .. n + 1
               PROVE  /\ media'[i].data = put[i]
                      /\ i > 1 => media'[i].tick = Following(media'[i - 1].tick)
    BY <1>3 DEF Told
  <2>1. CASE i = n + 1
    <3>1. n > 0 => media'[n] = media[n] /\ media # <<>>
      BY <1>1, <1>3 DEF n
    <3> QED BY <1>1, <1>2, <1>3, <1>6, <2>1, <3>1
  <2>2. CASE i \in 1 .. n
    <3>1. i > 1 => i - 1 \in 1 .. n
      BY <1>1, <2>2
    <3> QED BY <1>1, <1>3, <2>2, <3>1 DEF Told, n
  <2>3. i = n + 1 \/ i \in 1 .. n
    BY <1>1
  <2> QED BY <2>1, <2>2, <2>3
<1>8. Idling'
  BY <1>1, <1>4 DEF Idling, Idle
<1>9. TransferType' /\ Wired' /\ CounterTwo'
  <2>1. TransferType'
    BY <1>3 DEF TransferInv, TransferType
  <2>2. Wired'
    BY DEF TransferInv, Wired, Took, Kept
  <2>3. CounterTwo'
    BY DEF TransferInv, CounterTwo, Took, Kept
  <2> QED BY <2>1, <2>2, <2>3
<1>10. Resting' /\ Reading'
  BY DEF Resting, Reading, Writing
<1>11. WritingField'
  <2> SUFFICES ASSUME task = "write" PROVE WritingField'
    BY DEF WritingField
  <2>1. /\ Counting(disk.c2, DataLength - n) /\ n < DataLength /\ ~disk.format
    BY DEF TransferInv, WritingField, n
  <2>2. DataLength \in Nat /\ disk'.c2 = ClockOnce(disk.c2)
    BY TransferAssumption, Bases DEF Took
  <2>3. CASE DataLength - n = 1
    <3>1. disk'.c2.output
      BY <1>0, <2>1, <2>2, <2>3, CountsDown
    <3>2. Len(media') = DataLength
      BY <1>1, <1>3, <2>2, <2>3
    <3> QED BY <1>1, <1>3, <1>5, <1>7, <1>8, <3>1, <3>2 DEF WritingField, Idle
  <2>4. CASE DataLength - n > 1
    <3>1. DataLength - n \in Nat /\ DataLength - n - 1 = DataLength - Len(media')
      BY <1>1, <1>3, <2>2, <2>4
    <3>2. Counting(disk'.c2, DataLength - Len(media'))
      BY <1>0, <2>1, <2>2, <2>4, <3>1, CountsDown
    <3>3. Len(media') < DataLength /\ ~disk'.c2.output
      BY <1>1, <1>3, <2>2, <2>4, <3>2 DEF Counting
    <3>4. disk'.ordinary = (media' # <<>>)
      BY <1>0, <1>3, <3>3 DEF DiskState
    <3> QED BY <1>1, <1>3, <1>5, <1>7, <1>8, <2>1, <3>2, <3>3, <3>4 DEF WritingField
  <2> QED BY <1>1, <2>1, <2>2, <2>3, <2>4
<1>12. Formatting'
  <2> SUFFICES ASSUME task = "format" PROVE Formatting'
    BY DEF Formatting
  <2>1. /\ Stopped2(disk.c2) /\ disk.aux # AuxClear /\ ~disk.ordinary
        /\ (\A i \in 1 .. n : media[i].tick = i - 1)
        /\ media # <<>> => disk.tick = n - 1
    BY DEF TransferInv, Formatting, Enable, AuxClear, n
  <2>2. disk'.c2 = disk.c2 /\ ~disk'.c2.output
    BY <1>0, <2>1, CountsDown DEF Took, Stopped2
  <2>3. cell.tick = n
    <3>1. CASE media = <<>>
      BY <3>1 DEF n
    <3>2. CASE media # <<>>
      <4>1. disk.tick \in Ticks /\ disk.tick + 1 = n
        BY <1>0, <1>1, <2>1, <3>2 DEF DiskState
      <4>2. Following(disk.tick) = 0 \/ Following(disk.tick) = disk.tick + 1
        BY <4>1, NextTick
      <4> QED BY <3>2, <4>1, <4>2
    <3> QED BY <3>1, <3>2
  <2>4. \A i \in 1 .. Len(media') : media'[i].tick = i - 1
    <3> SUFFICES ASSUME NEW i \in 1 .. n + 1 PROVE media'[i].tick = i - 1
      BY <1>3
    <3>1. CASE i = n + 1
      BY <1>1, <1>3, <2>3, <3>1
    <3>2. CASE i \in 1 .. n
      BY <1>3, <2>1, <3>2
    <3>3. i = n + 1 \/ i \in 1 .. n
      BY <1>1
    <3> QED BY <3>1, <3>2, <3>3
  <2>5. /\ disk'.aux = disk.aux /\ disk'.format = (media' # <<>>) /\ ~disk'.ordinary
        /\ disk'.tick = Len(media') - 1
    BY <1>0, <1>1, <1>3, <2>1, <2>2, <2>3 DEF DiskState
  <2> QED BY <1>1, <1>5, <1>7, <1>8, <2>1, <2>2, <2>4, <2>5 DEF Formatting
<1> QED BY <1>9, <1>10, <1>11, <1>12 DEF TransferInv

(* A call of advance_time whose byte, if one passed, was not for the port: *)
(* OUT1 may still open the gate of an ordinary write.                      *)
LEMMA Idles ==
  ASSUME TransferInv, NEW b, Stable(b), Calm(disk, b), b.pending = <<>>, NEW pulse \in BOOLEAN,
         disk' = AfterAdvance(b, pulse), Flushed(b, pulse),
         b.tick = disk.tick \/ (~disk.ordinary /\ ~disk.format),
         UNCHANGED <<task, phase, got, put, field>>
  PROVE  TransferInv'
<1>0. /\ disk \in DiskState /\ disk.c2.mode = 0 /\ (disk.c2.output => Idle(disk))
      /\ disk.level = Asking(disk) /\ b \in DiskState /\ disk.pending = <<>>
      /\ disk.aux \in Aux /\ media \in Seq(Cell)
  BY TransferFacts DEF TransferInv, TransferType, Stable, DiskState
<1>1. b.c2.mode = 0 /\ b.level = Asking(b) /\ (b.c2.output => Idle(b))
  BY <1>0 DEF Calm, Latched, Asking, Idle
<1>2. Good(disk')
  BY AfterAdvanceGood
<1>3. CASE ~(pulse /\ Out1Rises(b) /\ b.timing /\ b.aux.we /\ ~b.ordinary)
  <2>1. /\ Calm(b, disk') /\ disk'.tick = b.tick
        /\ BeforeFlush(b, pulse).pending = b.pending
    BY <1>1, <1>3, AdvanceCalm
  <2>2. Calm(disk, disk')
    BY <2>1 DEF Calm, Kept, Latched
  <2>3. media' = media
    <3>1. media \o <<>> = media
      BY <1>0
    <3> QED BY <2>1, <3>1 DEF Flushed
  <2> QED BY <1>2, <2>1, <2>2, <2>3, Passes
<1>4. CASE pulse /\ Out1Rises(b) /\ b.timing /\ b.aux.we /\ ~b.ordinary
  <2> DEFINE cell == WrittenCell(b, b.tick)
  <2>1. disk.aux.we /\ ~disk.ordinary
    BY <1>4 DEF Calm, Latched
  <2>2. /\ phase = "transfer" /\ task = "write" /\ disk.aux = Enable(task) /\ ~disk.c2.output
    <3>1. disk.aux # AuxClear
      BY <2>1 DEF AuxClear
    <3>2. phase = "transfer" /\ ~disk.c2.output
      BY <1>0, <3>1 DEF TransferInv, Resting, Idle
    <3>3. disk.aux = Enable(task) /\ task \in {"id", "data", "write", "format"}
      BY <3>1, <3>2 DEF TransferInv, TransferType, Reading, WritingField, Formatting, Writing
    <3> QED BY <2>1, <3>2, <3>3 DEF Enable, AuxClear
  <2>3. media = <<>> /\ ~disk.level /\ ~disk.format
    <3>1. /\ disk.ordinary = (media # <<>>) /\ Offered(Len(media)) /\ put # <<>> /\ ~disk.format
          /\ put \in Seq(Byte)
      BY <2>2 DEF TransferInv, TransferType, WritingField
    <3>2. media = <<>>
      BY <2>1, <3>1
    <3>3. disk.level => Len(put) = 0
      BY <3>1, <3>2 DEF Offered
    <3> QED BY <3>1, <3>2, <3>3
  <2>4. Programmed(disk.ppi) /\ disk.ppi.a.inteOut /\ ~disk.suppress
    BY <2>2 DEF TransferInv, Wired
  <2>5. /\ Took(b, disk') /\ disk'.tick = b.tick
        /\ BeforeFlush(b, pulse).pending = <<cell>>
        /\ IF disk'.c2.output THEN Idle(disk')
           ELSE /\ disk'.aux = b.aux /\ disk'.sync = b.sync /\ disk'.format = b.format
                /\ disk'.ordinary
    <3>1. /\ Programmed(b.ppi) /\ b.ppi.a.inteOut /\ ~b.level /\ ~b.suppress
      BY <2>3, <2>4 DEF Calm
    <3> QED BY <1>1, <1>4, <3>1, AdvanceOpens
  <2>6. /\ cell \in Cell /\ cell.tick = b.tick /\ cell.data = disk.ppi.a.out
    <3>1. b.tick \in Ticks
      BY <1>0 DEF DiskState
    <3> QED BY <3>1, WrittenCellType DEF WrittenCell, Calm
  <2> HIDE DEF cell
  <2>7. media' = Append(media, cell)
    BY <2>3, <2>5 DEF Flushed
  <2>8. Took(disk, disk')
    BY <2>5 DEF Took, Calm, Kept
  <2>9. IF disk'.c2.output THEN Idle(disk')
        ELSE /\ disk'.aux = disk.aux /\ disk'.sync = disk.sync
             /\ disk'.ordinary /\ disk'.format = disk.format
    BY <2>5 DEF Calm, Latched
  <2> QED BY <1>2, <2>2, <2>3, <2>5, <2>6, <2>7, <2>8, <2>9, Takes DEF Writing
<1> QED BY <1>3, <1>4

LEMMA PulseStep == TransferInv /\ Pulse => TransferInv'
<1> SUFFICES ASSUME TransferInv, Pulse PROVE TransferInv'
  OBVIOUS
<1> DEFINE pulse == TRUE
<1>1. pulse \in BOOLEAN
  OBVIOUS
<1>2. /\ disk' = AfterAdvance(disk, pulse) /\ Flushed(disk, pulse)
      /\ UNCHANGED <<task, phase, got, put, field>>
  BY DEF Pulse, AdvanceIdle
<1> HIDE DEF pulse
<1>3. Stable(disk) /\ disk.pending = <<>>
  BY TransferFacts
<1>4. Calm(disk, disk)
  BY DEF Calm, Kept, Latched
<1> QED BY <1>1, <1>2, <1>3, <1>4, Idles

(* A byte passes that the port is to hand over. *)
LEMMA ReadTurn ==
  ASSUME TransferInv, NEW cell \in Cell, NEW pulse \in BOOLEAN, Turn(cell, pulse), disk.aux.re
  PROVE  TransferInv'
<1> DEFINE b == ProcessByte(disk, cell)
<1>0. /\ disk \in DiskState /\ Stable(disk) /\ disk.c2.mode = 0 /\ disk.c2 \in Channel
      /\ disk.level = Asking(disk) /\ disk.pending = <<>> /\ (disk.c2.output => Idle(disk))
  BY TransferFacts
<1>1. /\ ~disk.level /\ disk' = AfterAdvance(b, pulse) /\ Flushed(b, pulse)
      /\ field' = (IF field # <<>> \/ SelectedMark(disk, cell) THEN Append(field, cell.data)
                   ELSE field)
      /\ UNCHANGED <<task, phase, got, put>>
  BY DEF Turn, AdvanceByte
<1>2. /\ phase = "transfer" /\ task \in {"id", "data"} /\ disk.aux = Enable(task)
      /\ ~disk.c2.output
  <2>1. disk.aux # AuxClear
    BY DEF AuxClear
  <2>2. phase = "transfer" /\ ~disk.c2.output
    BY <1>0, <2>1 DEF TransferInv, Resting, Idle
  <2>3. disk.aux = Enable(task) /\ task \in {"id", "data", "write", "format"}
    BY <2>1, <2>2 DEF TransferInv, TransferType, Reading, WritingField, Formatting, Writing
  <2> QED BY <2>2, <2>3 DEF Enable, AuxClear
<1>3. ~disk.aux.fm /\ ~disk.aux.we
  BY <1>2 DEF Enable, AuxClear
<1>4. /\ Programmed(disk.ppi) /\ disk.ppi.b.inteIn /\ disk.ppi.a.inteOut /\ disk.timing
      /\ ~disk.suppress
  BY <1>2 DEF TransferInv, Wired
<1>5. /\ put = <<>> /\ media = <<>> /\ ~disk.ordinary /\ ~disk.format
      /\ ~disk.ppi.a.intr /\ ~disk.ppi.b.ibf
      /\ got \o Unread = field /\ disk.sync = (field # <<>>)
      /\ Counting(disk.c2, IF field = <<>> THEN Length(task) ELSE Length(task) + 1 - Len(field))
      /\ Len(field) <= Length(task)
      /\ got \in Seq(Byte) /\ field \in Seq(Byte)
  BY <1>1, <1>2 DEF TransferInv, TransferType, Reading, Writing
<1>6. /\ Stable(b) /\ b.tick = cell.tick /\ b.pending = disk.pending
      /\ IF disk.sync
         THEN /\ Gave(disk, b, cell.data) /\ b.c2 = ClockOnce(disk.c2)
              /\ IF b.c2.output THEN Idle(b) ELSE Latched(disk, b)
         ELSE IF SelectedMark(disk, cell)
         THEN /\ Kept(disk, b) /\ Programmed(b.ppi) /\ b.ppi.a = disk.ppi.a
              /\ b.ppi.b.ibf /\ b.ppi.b.latch = cell.data /\ b.ppi.b.inteIn
              /\ b.ppi.b.intr
              /\ b.level /\ ~b.suppress /\ b.c2 = disk.c2
              /\ IF b.c2.output THEN Idle(b)
                 ELSE /\ b.aux = disk.aux /\ b.sync
                      /\ ~b.ordinary /\ ~b.format
         ELSE Calm(disk, b)
  BY <1>0, <1>1, <1>3, <1>4, <1>5, ByteReads
<1> HIDE DEF b
<1>7. CASE field = <<>> /\ ~SelectedMark(disk, cell)
  BY <1>0, <1>1, <1>5, <1>6, <1>7, Idles
<1>8. CASE field # <<>> \/ SelectedMark(disk, cell)
  <2> DEFINE n == Len(field)
  <2>1. /\ Kept(disk, b) /\ Programmed(b.ppi) /\ b.ppi.a = disk.ppi.a
        /\ b.ppi.b.ibf /\ b.ppi.b.latch = cell.data /\ b.ppi.b.inteIn /\ b.ppi.b.intr
        /\ b.level /\ ~b.suppress
    BY <1>0, <1>5, <1>6, <1>8 DEF Gave, Latched
  <2>2. /\ IF field # <<>> THEN b.c2 = ClockOnce(disk.c2) ELSE b.c2 = disk.c2
        /\ IF b.c2.output THEN Idle(b)
           ELSE b.aux = disk.aux /\ b.sync /\ ~b.ordinary /\ ~b.format
    BY <1>0, <1>5, <1>6, <1>8 DEF Gave, Latched
  <2>3. b.c2.mode = 0 /\ b.level = Asking(b) /\ ~b.aux.we /\ b \in DiskState
    <3>1. b \in DiskState
      BY <1>6 DEF Stable
    <3>2. ~b.aux.we
      BY <1>3, <2>2 DEF Idle, AuxClear
    <3> QED BY <1>0, <2>1, <3>1, <3>2 DEF Kept, Asking, DiskState
  <2>4. /\ Calm(b, disk') /\ disk'.tick = b.tick /\ BeforeFlush(b, pulse).pending = <<>>
    BY <1>0, <1>1, <1>6, <2>2, <2>3, AdvanceCalm
  <2>5. Good(disk')
    BY <1>1, <1>6, AfterAdvanceGood
  <2>6. /\ field' = Append(field, cell.data) /\ field' \in Seq(Byte) /\ Len(field') = n + 1
        /\ field' # <<>> /\ n \in Nat /\ (n = 0 <=> field = <<>>)
    <3>1. cell.data \in Byte
      BY DEF Cell
    <3>2. field' \in Seq(Byte) /\ Len(field') = n + 1 /\ n \in Nat
      BY <1>1, <1>5, <1>8, <3>1
    <3>3. field' # <<>> /\ (n = 0 <=> field = <<>>)
      BY <1>5, <3>2
    <3> QED BY <1>1, <1>8, <3>2, <3>3
  <2>7. media' = <<>>
    BY <1>1, <1>5, <2>4 DEF Flushed
  <2>8. got' \o Unread' = field'
    <3>1. Unread = <<>> /\ Unread' = <<cell.data>>
      BY <1>5, <2>1, <2>4 DEF Unread, Calm
    <3>2. got = field
      BY <1>5, <3>1
    <3>3. cell.data \in Byte
      BY DEF Cell
    <3>4. Append(field, cell.data) = field \o <<cell.data>>
      BY <1>5, <3>3
    <3> QED BY <1>1, <2>6, <3>1, <3>2, <3>4
  <2>9. ~disk'.ppi.a.intr /\ disk'.level = disk'.ppi.b.ibf
    <3>1. disk' \in DiskState
      BY <2>5 DEF Good, Stable
    <3>2. disk'.level /\ disk'.ppi.b.ibf /\ ~disk'.ppi.a.intr
      BY <1>5, <2>1, <2>4 DEF Calm
    <3> QED BY <3>1, <3>2 DEF DiskState, PpiState, Group
  <2>10. ~disk'.ordinary /\ ~disk'.format
    BY <2>2, <2>4 DEF Calm, Latched, Idle
  <2>11. Length(task) \in Nat \ {0}
    BY <1>2, TransferAssumption, Bases DEF Length
  <2> HIDE DEF n
  <2>12. IF disk'.c2.output THEN Len(field') = Length(task) + 1
         ELSE /\ Counting(disk'.c2, Length(task) + 1 - Len(field'))
              /\ Len(field') <= Length(task)
    <3>1. disk'.c2 = b.c2
      BY <2>4 DEF Calm
    <3>2. CASE field = <<>>
      <4>1. Counting(disk'.c2, Length(task)) /\ Len(field') = 1
        BY <1>5, <2>2, <2>6, <3>1, <3>2
      <4>2. Length(task) + 1 - Len(field') = Length(task) /\ Len(field') <= Length(task)
        BY <2>11, <4>1
      <4> QED BY <4>1, <4>2 DEF Counting
    <3>3. CASE field # <<>>
      <4>1. /\ Counting(disk.c2, Length(task) + 1 - n) /\ n <= Length(task) /\ n > 0
            /\ disk'.c2 = ClockOnce(disk.c2)
        BY <1>5, <2>2, <2>6, <3>1, <3>3 DEF n
      <4>2. CASE n = Length(task)
        <5>1. Length(task) + 1 - n = 1 /\ Len(field') = Length(task) + 1
          BY <2>6, <2>11, <4>2
        <5>2. disk'.c2.output
          <6>1. Counting(disk.c2, 1)
            BY <4>1, <5>1
          <6> QED BY <1>0, <4>1, <6>1, CountsDown
        <5> QED BY <5>1, <5>2
      <4>3. CASE n < Length(task)
        <5>1. /\ Length(task) + 1 - n \in Nat /\ Length(task) + 1 - n > 1
              /\ Length(task) + 1 - n - 1 = Length(task) + 1 - Len(field')
              /\ Len(field') <= Length(task)
          BY <2>6, <2>11, <4>1, <4>3
        <5>2. Counting(disk'.c2, Length(task) + 1 - Len(field'))
          <6> DEFINE m == Length(task) + 1 - n
          <6>1. m \in Nat /\ m > 1 /\ Counting(disk.c2, m)
            BY <4>1, <5>1
          <6>2. m - 1 = Length(task) + 1 - Len(field')
            BY <2>6, <2>11
          <6> HIDE DEF m
          <6>3. Counting(ClockOnce(disk.c2), m - 1)
            BY <1>0, <6>1, CountsDown
          <6> QED BY <4>1, <6>2, <6>3
        <5> QED BY <5>1, <5>2 DEF Counting
      <4> QED BY <2>6, <2>11, <4>1, <4>2, <4>3
    <3> QED BY <3>2, <3>3
  <2>13. ~disk'.c2.output => disk'.aux = Enable(task) /\ disk'.sync = (field' # <<>>)
    <3>1. disk' \in DiskState
      BY <2>5 DEF Good, Stable
    <3>2. ~disk'.c2.output => disk'.aux = Enable(task) /\ disk'.sync
      BY <1>2, <2>2, <2>4 DEF Calm, Latched
    <3> QED BY <2>6, <3>1, <3>2 DEF DiskState
  <2>14. TransferType' /\ Wired' /\ CounterTwo'
    <3>1. TransferType'
      BY <1>1, <2>6, <2>7 DEF TransferInv, TransferType
    <3>2. Wired'
      BY <1>1, <1>2, <2>1, <2>4 DEF TransferInv, Wired, Calm, Kept
    <3>3. CounterTwo'
      BY <1>1, <1>2, <2>1, <2>4 DEF TransferInv, CounterTwo, Calm, Kept
    <3> QED BY <3>1, <3>2, <3>3
  <2>15. Resting' /\ WritingField' /\ Formatting'
    BY <1>1, <1>2 DEF Resting, WritingField, Formatting
  <2>16. Reading'
    BY <1>1, <1>5, <2>6, <2>7, <2>8, <2>9, <2>10, <2>12, <2>13 DEF Reading
  <2> QED BY <2>5, <2>14, <2>15, <2>16 DEF TransferInv
<1> QED BY <1>7, <1>8

(* The gate is open while a byte passes: what the driver has armed. *)
LEMMA Gates ==
  ASSUME TransferInv, NEW cell \in Cell,
         disk.ordinary \/ disk.format \/ AtIndex(disk, cell)
  PROVE  /\ phase = "transfer" /\ task \in {"write", "format"} /\ disk.aux = Enable(task)
         /\ ~disk.c2.output /\ ~disk.aux.re
         /\ task = "write" => disk.ordinary /\ ~disk.format /\ ~AtIndex(disk, cell)
         /\ task = "format" => /\ ~disk.ordinary /\ disk.format = (media # <<>>) /\ ~disk.aux.we
                               /\ AtIndex(disk, cell) = (cell.tick = 0)
                               /\ media # <<>> => disk.tick = Len(media) - 1
         /\ Programmed(disk.ppi) /\ disk.ppi.a.inteOut /\ disk.timing /\ ~disk.suppress
<1>1. /\ (disk.c2.output => Idle(disk)) /\ disk \in DiskState
      /\ task \in {"id", "data", "write", "format"}
  BY TransferFacts DEF TransferInv, TransferType
<1>2. AtIndex(disk, cell) = (disk.timing /\ disk.aux.fm /\ cell.tick = 0)
  BY DEF AtIndex
<1>3. disk.aux = AuxClear => disk.ordinary \/ disk.format
  <2>1. disk.aux = AuxClear => ~disk.aux.fm
    BY DEF AuxClear
  <2> QED BY <1>2, <2>1
<1>4. phase = "transfer" /\ ~disk.c2.output
  BY <1>1, <1>3 DEF TransferInv, Resting, Idle
<1>5. task \in {"write", "format"}
  <2> SUFFICES ASSUME ~Writing PROVE FALSE
    BY <1>1 DEF Writing
  <2>1. ~disk.ordinary /\ ~disk.format /\ disk.aux = Enable(task)
    BY <1>4 DEF TransferInv, Reading
  <2>2. ~disk.aux.fm
    BY <1>1, <2>1 DEF Enable, AuxClear, Writing
  <2> QED BY <1>2, <2>1, <2>2
<1>6. Programmed(disk.ppi) /\ disk.ppi.a.inteOut /\ disk.timing /\ ~disk.suppress
  BY <1>4 DEF TransferInv, Wired
<1>7. CASE task = "write"
  <2>1. disk.aux = Enable(task) /\ ~disk.format
    BY <1>4, <1>7 DEF TransferInv, WritingField
  <2>2. ~disk.aux.fm /\ ~disk.aux.re
    BY <1>7, <2>1 DEF Enable, AuxClear
  <2> QED BY <1>2, <1>4, <1>5, <1>6, <1>7, <2>1, <2>2
<1>8. CASE task = "format"
  <2>1. ~disk.ordinary /\ (disk.aux = AuxClear => ~disk.format)
    BY <1>4, <1>8 DEF TransferInv, Formatting
  <2>2. /\ disk.aux = Enable(task) /\ disk.format = (media # <<>>)
        /\ media # <<>> => disk.tick = Len(media) - 1
    BY <1>3, <1>4, <1>8, <2>1 DEF TransferInv, Formatting
  <2>3. disk.aux.fm = TRUE /\ ~disk.aux.re /\ ~disk.aux.we
    BY <1>8, <2>2 DEF Enable, AuxClear
  <2>4. AtIndex(disk, cell) = (cell.tick = 0)
    <3>1. disk.timing /\ disk.aux.fm
      BY <1>6, <2>3
    <3> QED BY <3>1 DEF AtIndex
  <2> QED BY <1>4, <1>5, <1>6, <1>8, <2>1, <2>2, <2>3, <2>4
<1> QED BY <1>5, <1>7, <1>8

(* The serializer fills the cell that passes. *)
LEMMA WriteTurn ==
  ASSUME TransferInv, NEW cell \in Cell, NEW pulse \in BOOLEAN, Turn(cell, pulse),
         disk.ordinary \/ disk.format \/ AtIndex(disk, cell), ~(disk.format /\ AtIndex(disk, cell))
  PROVE  TransferInv'
<1> DEFINE b == ProcessByte(disk, cell)
           w == WrittenCell(disk, cell.tick)
<1>0. /\ disk \in DiskState /\ Stable(disk) /\ disk.c2.mode = 0 /\ disk.pending = <<>>
      /\ media \in Seq(Cell)
  BY TransferFacts DEF TransferInv, TransferType
<1>1. /\ ~disk.level /\ disk' = AfterAdvance(b, pulse) /\ Flushed(b, pulse)
      /\ cell.tick = Following(disk.tick)
  BY DEF Turn, AdvanceByte
<1>2. /\ phase = "transfer" /\ task \in {"write", "format"} /\ disk.aux = Enable(task)
      /\ ~disk.c2.output /\ ~disk.aux.re
      /\ task = "write" => disk.ordinary /\ ~disk.format /\ ~AtIndex(disk, cell)
      /\ task = "format" => /\ ~disk.ordinary /\ disk.format = (media # <<>>) /\ ~disk.aux.we
                            /\ AtIndex(disk, cell) = (cell.tick = 0)
                            /\ media # <<>> => disk.tick = Len(media) - 1
      /\ Programmed(disk.ppi) /\ disk.ppi.a.inteOut /\ disk.timing /\ ~disk.suppress
  BY Gates
<1>3. UNCHANGED <<task, phase, got, put, field>>
  BY <1>2 DEF Turn
<1>4. /\ Stable(b) /\ Took(disk, b) /\ b.tick = cell.tick /\ b.pending = <<w>>
      /\ IF b.c2.output THEN Idle(b)
         ELSE /\ b.aux = disk.aux /\ b.sync = disk.sync /\ b.ordinary = disk.ordinary
              /\ b.format = (disk.format \/ AtIndex(disk, cell))
  BY <1>0, <1>1, <1>2, ByteWrites
<1>5. w \in Cell /\ w.tick = cell.tick /\ w.data = disk.ppi.a.out
  <2>1. cell.tick \in Ticks
    BY DEF Cell
  <2> QED BY <1>0, <2>1, WrittenCellType DEF WrittenCell
<1> HIDE DEF b, w
<1>6. b.c2.mode = 0 /\ b.level = Asking(b)
  <2>1. b \in DiskState /\ b.level /\ b.ppi.a.intr
    BY <1>4 DEF Stable, Took
  <2> QED BY <1>0, <1>4, <2>1 DEF Took, Kept, Asking, DiskState
<1>7. ~(b.aux.we /\ ~b.ordinary)
  BY <1>2, <1>4 DEF Idle, AuxClear
<1>8. /\ Calm(b, disk') /\ disk'.tick = b.tick /\ BeforeFlush(b, pulse).pending = b.pending
  BY <1>1, <1>4, <1>6, <1>7, AdvanceCalm
<1>9. Good(disk')
  BY <1>1, <1>4, AfterAdvanceGood
<1>10. Took(disk, disk')
  BY <1>4, <1>8 DEF Took, Calm, Kept
<1>11. media' = Append(media, w)
  BY <1>0, <1>1, <1>4, <1>5, <1>8 DEF Flushed
<1>12. IF disk'.c2.output THEN Idle(disk')
       ELSE /\ disk'.aux = disk.aux /\ disk'.sync = disk.sync
            /\ IF task = "write" THEN disk'.ordinary /\ disk'.format = disk.format
               ELSE disk'.format /\ disk'.ordinary = disk.ordinary
  <2>1. disk.format \in BOOLEAN /\ disk.ordinary \in BOOLEAN
    BY <1>0 DEF DiskState
  <2>2. CASE disk'.c2.output
    BY <1>4, <1>8, <2>2 DEF Calm, Latched, Idle
  <2>3. CASE ~disk'.c2.output
    <3>1. /\ disk'.aux = disk.aux /\ disk'.sync = disk.sync /\ disk'.ordinary = disk.ordinary
          /\ disk'.format = (disk.format \/ AtIndex(disk, cell))
      BY <1>4, <1>8, <2>3 DEF Calm, Latched
    <3>2. CASE task = "write"
      <4>1. disk'.ordinary /\ ~disk'.format /\ ~disk.format
        BY <1>2, <3>1, <3>2
      <4>2. disk' \in DiskState
        BY <1>9 DEF Good, Stable
      <4>3. disk'.format = disk.format
        BY <2>1, <4>1, <4>2 DEF DiskState
      <4> QED BY <2>3, <3>1, <3>2, <4>1, <4>3
    <3>3. CASE task = "format"
      BY <1>2, <2>3, <3>1, <3>3
    <3> QED BY <1>2, <3>2, <3>3
  <2> QED BY <2>2, <2>3
<1>13. task = "format" => (media = <<>> <=> w.tick = 0)
  BY <1>2, <1>5
<1>14. disk'.tick = w.tick
  BY <1>4, <1>5, <1>8
<1>15. media # <<>> => w.tick = Following(disk.tick)
  BY <1>1, <1>5
<1> QED BY <1>1, <1>2, <1>3, <1>5, <1>9, <1>10, <1>11, <1>12, <1>13, <1>14, <1>15, Takes DEF Writing

(* The second Index: the track is full. *)
LEMMA EndTurn ==
  ASSUME TransferInv, NEW cell \in Cell, NEW pulse \in BOOLEAN, Turn(cell, pulse),
         disk.format, AtIndex(disk, cell)
  PROVE  TransferInv'
<1> DEFINE b == ProcessByte(disk, cell)
<1>0. /\ disk \in DiskState /\ Stable(disk) /\ disk.c2.mode = 0 /\ disk.pending = <<>>
      /\ media \in Seq(Cell) /\ disk.level = Asking(disk) /\ disk.tick \in Ticks
  BY TransferFacts DEF TransferInv, TransferType, DiskState
<1>1. /\ ~disk.level /\ disk' = AfterAdvance(b, pulse) /\ Flushed(b, pulse)
      /\ cell.tick = Following(disk.tick)
  BY DEF Turn, AdvanceByte
<1>2. /\ phase = "transfer" /\ task = "format" /\ disk.aux = Enable(task)
      /\ ~disk.c2.output /\ media # <<>> /\ cell.tick = 0 /\ disk.tick = Len(media) - 1
      /\ disk.timing /\ ~disk.suppress
  <2>1. task = "format"
    BY Gates
  <2> QED BY <2>1, Gates
<1>3. UNCHANGED <<task, phase, got, put>>
  BY DEF Turn
<1>4. field' = field
  <2>1. ~disk.aux.re
    BY Gates
  <2> QED BY <2>1 DEF Turn
<1>5. /\ Stable(b) /\ Kept(disk, b) /\ Idle(b)
      /\ b.ppi = disk.ppi /\ b.c2 = disk.c2 /\ b.level = disk.level /\ b.suppress = disk.suppress
      /\ b.tick = cell.tick /\ b.pending = disk.pending
  BY <1>0, <1>2, ByteEnds
<1> HIDE DEF b
<1>6. b.c2.mode = 0 /\ b.level = Asking(b) /\ ~b.aux.we
  BY <1>0, <1>5 DEF Kept, Asking, Idle, AuxClear
<1>7. Calm(b, disk') /\ disk'.tick = b.tick /\ BeforeFlush(b, pulse).pending = <<>>
  BY <1>0, <1>1, <1>5, <1>6, AdvanceCalm
<1>8. Good(disk')
  BY <1>1, <1>5, AfterAdvanceGood
<1>9. media' = media
  <2>1. media \o <<>> = media
    BY <1>0
  <2> QED BY <1>1, <1>7, <2>1 DEF Flushed
<1>10. /\ Kept(disk, disk') /\ Idle(disk') /\ disk'.ppi = disk.ppi /\ disk'.c2 = disk.c2
       /\ disk'.level = disk.level /\ disk'.suppress = disk.suppress
  BY <1>5, <1>7 DEF Calm, Kept, Latched, Idle
<1>11. Len(media) = Cardinality(Ticks)
  <2>1. Following(disk.tick) = 0 /\ disk.tick + 1 = Len(media) /\ disk.tick \in Int
    <3>1. disk.tick \in Int
      BY <1>0, NextTick
    <3>2. Len(media) \in Nat
      BY <1>0
    <3> QED BY <1>1, <1>2, <3>1, <3>2
  <2>2. disk.tick = Cardinality(Ticks) - 1
    BY <1>0, <2>1, NextTick
  <2>3. Cardinality(Ticks) \in Nat
    BY <1>0, NextTick
  <2> QED BY <2>1, <2>2, <2>3
<1>12. TransferType' /\ Wired' /\ CounterTwo'
  BY <1>2, <1>3, <1>4, <1>9, <1>10 DEF TransferInv, TransferType, Wired, CounterTwo, Kept
<1>13. Resting' /\ Reading' /\ WritingField'
  BY <1>2, <1>3 DEF Resting, Reading, WritingField, Writing
<1>14. Formatting'
  <2>1. /\ Idling /\ Offered(Len(media)) /\ Stopped2(disk.c2) /\ put # <<>> /\ Told
        /\ \A i \in 1 .. Len(media) : media[i].tick = i - 1
    BY <1>2 DEF TransferInv, Formatting
  <2>2. Idling' /\ Told' /\ Offered(Len(media))'
    BY <1>3, <1>4, <1>9, <1>10, <2>1 DEF Idling, Told, Offered, Idle
  <2>3. disk'.aux = AuxClear /\ ~disk'.ordinary /\ ~disk'.format /\ Stopped2(disk'.c2)
    BY <1>10, <2>1 DEF Idle
  <2> QED BY <1>3, <1>9, <1>11, <2>1, <2>2, <2>3 DEF Formatting
<1> QED BY <1>8, <1>12, <1>13, <1>14 DEF TransferInv

(* Any byte. *)
LEMMA TurnStep ==
  ASSUME TransferInv, NEW cell \in Cell, NEW pulse \in BOOLEAN, Turn(cell, pulse)
  PROVE  TransferInv'
<1> DEFINE b == ProcessByte(disk, cell)
<1>1. CASE disk.aux.re
  BY <1>1, ReadTurn
<1>2. CASE disk.format /\ AtIndex(disk, cell)
  BY <1>2, EndTurn
<1>3. CASE /\ disk.ordinary \/ disk.format \/ AtIndex(disk, cell)
           /\ ~(disk.format /\ AtIndex(disk, cell))
  BY <1>3, WriteTurn
<1>4. CASE ~disk.aux.re /\ ~disk.ordinary /\ ~disk.format /\ ~AtIndex(disk, cell)
  <2>1. Stable(disk) /\ disk.pending = <<>>
    BY TransferFacts
  <2>2. Stable(b) /\ Calm(disk, b) /\ b.pending = <<>>
    BY <1>4, <2>1, ByteIdles
  <2>3. /\ disk' = AfterAdvance(b, pulse) /\ Flushed(b, pulse)
        /\ UNCHANGED <<task, phase, got, put, field>>
    BY <1>4 DEF Turn, AdvanceByte
  <2> HIDE DEF b
  <2> QED BY <1>4, <2>2, <2>3, Idles
<1> QED BY <1>1, <1>2, <1>3, <1>4

----------------------------------------------------------------------------
(* The theorems on the transfer. *)

LEMMA TransferStart == TransferInit => TransferInv
<1> SUFFICES ASSUME TransferInit PROVE TransferInv
  OBVIOUS
<1> DEFINE open == TRUE
           c == SetGate(ResetChannel, open)
<1>1. c.mode = 0 /\ c.gate = open /\ c.output = FALSE
  <2> HIDE DEF open
  <2> QED BY DEF SetGate, ResetChannel
<1>2. ResetDisk.c2 = c
  BY DEF ResetDisk
<1> HIDE DEF c
<1>3. ~ResetGroup.intr /\ ~ResetGroup.ibf
  BY DEF ResetGroup, GroupMode
<1>4. /\ ~ResetDisk.ppi.a.intr /\ ~ResetDisk.ppi.b.intr /\ ~ResetDisk.ppi.b.ibf
  <2>1. ResetDisk.ppi = [ResetPpi EXCEPT !.pinC = {5}]
    BY DEF ResetDisk
  <2>2. ResetDisk.ppi.a = ResetGroup /\ ResetDisk.ppi.b = ResetGroup
    BY <2>1 DEF ResetPpi
  <2> QED BY <1>3, <2>2
<1>5. /\ ~ResetDisk.aOut /\ ~ResetDisk.timing /\ ~ResetDisk.sync /\ ~ResetDisk.level
      /\ ~ResetDisk.suppress /\ ~ResetDisk.ordinary /\ ~ResetDisk.format
      /\ ResetDisk.aux = AuxClear
  BY DEF ResetDisk
<1>6. ResetDisk \in DiskState /\ Stable(ResetDisk)
  BY ResetStable DEF Stable
<1>7. Idle(ResetDisk)
  BY <1>5 DEF Idle
<1>8. ResetDisk.level = Asking(ResetDisk)
  BY <1>4, <1>5, <1>6 DEF Asking, DiskState
<1>9. ResetDisk.c2.mode = 0
  BY <1>1, <1>2
<1>10. disk = Refresh(ResetDisk) /\ Calm(ResetDisk, disk)
  BY <1>6, <1>7, <1>8, <1>9, RefreshCalm DEF TransferInit, Init
<1>11. Good(disk)
  BY <1>10, ResetGood
<1>12. /\ disk.c2.mode = 0 /\ disk.c2.gate /\ ~disk.aOut /\ ~disk.timing /\ ~disk.suppress
       /\ Idle(disk) /\ ~disk.level /\ ~disk.ppi.b.ibf
  BY <1>1, <1>2, <1>4, <1>5, <1>7, <1>10 DEF Calm, Kept, Latched, Idle
<1>13. task = "id" /\ phase = "ppi" /\ got = <<>> /\ put = <<>> /\ field = <<>> /\ media = <<>>
  BY DEF TransferInit
<1>14. TransferType
  BY <1>13 DEF TransferType
<1>15. Wired
  <2>1. disk.timing = (disk.aOut /\ ~disk.pa6)
    BY <1>11, <1>12 DEF Good, Stable, DiskState
  <2> QED BY <1>12, <1>13, <2>1 DEF Wired
<1>16. CounterTwo
  BY <1>12, <1>13 DEF CounterTwo
<1>17. Resting /\ Reading /\ WritingField /\ Formatting
  BY <1>12, <1>13 DEF Resting, Reading, WritingField, Formatting, Idle
<1> QED BY <1>11, <1>14, <1>15, <1>16, <1>17 DEF TransferInv

LEMMA TransferStep == TransferInv /\ [TransferNext]_tvars => TransferInv'
<1> SUFFICES ASSUME TransferInv, [TransferNext]_tvars PROVE TransferInv'
  OBVIOUS
<1>1. CASE Driver
  BY <1>1, SetUpStep, ArmStep, ServeI7Step, ServeI6Step, ServeI5Step, EndFormatStep DEF Driver
<1>2. CASE Pulse
  BY <1>2, PulseStep
<1>3. CASE Interfere
  BY <1>3, InterfereStep
<1>4. CASE \E cell \in Cell, pulse \in BOOLEAN : Turn(cell, pulse)
  BY <1>4, TurnStep
<1>5. CASE UNCHANGED tvars
  <2>1. UNCHANGED <<disk, task, phase, got, put, field, media>>
    BY <1>5 DEF tvars, steps
  <2>2. Good(disk') /\ Calm(disk, disk')
    BY <2>1, TransferFacts DEF Calm, Kept, Latched
  <2> QED BY <2>1, <2>2, Passes
<1> QED BY <1>1, <1>2, <1>3, <1>4, <1>5 DEF TransferNext

(* The state of the disk electronics, of the driver and of the bytes       *)
(* between them fit together at every moment: TransferInv, the inductive   *)
(* invariant of a transfer.                                                *)
THEOREM TransferCorrect == TransferSpec => []TransferInv
<1>1. TransferInit => TransferInv
  BY TransferStart
<1>2. TransferInv /\ [TransferNext]_tvars => TransferInv'
  BY TransferStep
<1> QED BY <1>1, <1>2, PTL DEF TransferSpec

(* What a read delivers is the field: the mark first, then the bytes that  *)
(* pass, none lost, repeated or reordered, at most one in the port, and    *)
(* not one more than counter 2 was loaded with, however the driver's reads,*)
(* the clock of counter 1 and the rest of the program fall between them.   *)
THEOREM ReadAlwaysTheField == TransferSpec => []ReadIsTheField
<1>1. TransferInv => ReadIsTheField
  <2> SUFFICES ASSUME TransferInv, ~Writing
               PROVE  got \o Unread = field /\ Len(field) <= Length(task) + 1
    BY DEF ReadIsTheField
  <2>1. Length(task) \in Nat
    BY TransferAssumption, Bases DEF Length
  <2>2. CASE phase # "transfer"
    <3>1. got = <<>> /\ field = <<>> /\ Unread = <<>>
      BY <2>2 DEF TransferInv, Resting, Unread
    <3> QED BY <2>1, <3>1
  <2>3. CASE phase = "transfer"
    <3>1. /\ got \o Unread = field /\ field \in Seq(Byte)
          /\ Len(field) = Length(task) + 1 \/ Len(field) <= Length(task)
      BY <2>3 DEF TransferInv, TransferType, Reading
    <3> QED BY <2>1, <3>1
  <2> QED BY <2>2, <2>3
<1> QED BY <1>1, TransferCorrect, PTL

(* What the disk is told to write is what the driver put into PA, byte for *)
(* byte, in cells that follow each other on the track, and never more than *)
(* counter 2 allows, whenever OUT1 opens the gate.                         *)
THEOREM WriteAlwaysThePut == TransferSpec => []WriteIsThePut
<1>1. TransferInv => WriteIsThePut
  <2> SUFFICES ASSUME TransferInv PROVE WriteIsThePut
    OBVIOUS
  <2>1. /\ DataLength \in Nat /\ put \in Seq(Byte) /\ media \in Seq(Cell)
        /\ task \in {"id", "data", "write", "format"}
    BY TransferAssumption, Bases DEF TransferInv, TransferType
  <2>2. CASE phase # "transfer" \/ ~Writing
    <3>1. media = <<>>
      BY <2>2 DEF TransferInv, Resting, Reading
    <3> QED BY <2>1, <3>1 DEF WriteIsThePut
  <2>3. CASE phase = "transfer" /\ Writing
    <3>1. Told /\ Offered(Len(media))
      BY <2>1, <2>3 DEF TransferInv, WritingField, Formatting, Writing
    <3>2. Len(media) <= Len(put)
      BY <2>1, <3>1 DEF Offered
    <3>3. task = "write" => Len(media) <= DataLength
      <4>1. task = "write" => Len(media) = DataLength \/ Len(media) < DataLength
        BY <2>3 DEF TransferInv, WritingField
      <4> QED BY <2>1, <4>1
    <3> QED BY <2>3, <3>1, <3>2, <3>3 DEF WriteIsThePut, Told
  <2> QED BY <2>2, <2>3
<1> QED BY <1>1, TransferCorrect, PTL

(* I5 says that the field is complete: all its bytes have been read, or    *)
(* written; and when formatting ends every cell of the track has been      *)
(* replaced once, from Index to Index, with the bytes put, for every       *)
(* length of the track and of the fields.                                  *)
THEOREM EndsAlwaysComplete == TransferSpec => EndIsComplete
<1> DEFINE Complete ==
      /\ ServeI5 => IF task = "write" THEN Len(media) = DataLength
                    ELSE Len(got) = Length(task) + 1
      /\ EndFormat => /\ Len(media) = Cardinality(Ticks)
                      /\ \A i \in 1 .. Len(media) :
                           media[i].tick = i - 1 /\ media[i].data = put[i]
<1>1. TransferInv => Complete
  <2> SUFFICES ASSUME TransferInv PROVE Complete
    OBVIOUS
  <2>1. task \in {"id", "data", "write", "format"} /\ got \in Seq(Byte)
    BY DEF TransferInv, TransferType
  <2>2. ASSUME ServeI5
        PROVE  IF task = "write" THEN Len(media) = DataLength ELSE Len(got) = Length(task) + 1
    <3>1. phase = "transfer" /\ ~disk.level /\ disk.c2.output
      BY <2>2 DEF ServeI5
    <3>2. task # "format"
      BY <3>1 DEF TransferInv, Formatting, Stopped2
    <3>3. CASE task = "write"
      BY <3>1, <3>3 DEF TransferInv, WritingField
    <3>4. CASE ~Writing
      <4>1. ~disk.ppi.b.ibf /\ got \o Unread = field /\ Len(field) = Length(task) + 1
        BY <3>1, <3>4 DEF TransferInv, Reading
      <4>2. got = field
        BY <2>1, <4>1 DEF Unread
      <4> QED BY <3>4, <4>1, <4>2 DEF Writing
    <3> QED BY <2>1, <3>2, <3>3, <3>4 DEF Writing
  <2>3. ASSUME EndFormat
        PROVE  /\ Len(media) = Cardinality(Ticks)
               /\ \A i \in 1 .. Len(media) : media[i].tick = i - 1 /\ media[i].data = put[i]
    <3>1. phase = "transfer" /\ task = "format" /\ disk.aux = AuxClear
      BY <2>3 DEF EndFormat, Formatted
    <3> QED BY <3>1 DEF TransferInv, Formatting, Told
  <2> QED BY <2>2, <2>3
<1>2. TransferInv /\ [TransferNext]_tvars => [Complete]_tvars
  BY <1>1
<1>3. TransferSpec => []TransferInv
  BY TransferCorrect
<1> QED BY <1>2, <1>3, PTL DEF TransferSpec, EndIsComplete
=============================================================================
