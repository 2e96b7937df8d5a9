------------------------------ MODULE Pit8253 ------------------------------
(***************************************************************************)
(* One channel of the 8253 timer of src/src/core/pit8253.cpp as operators  *)
(* on a record.  A byte is two digits of base NibbleBase (16 on the chip); *)
(* BCD counting reads the four nibbles of a count as digits of base        *)
(* DecimalBase (10 on the chip).                                           *)
(***************************************************************************)
EXTENDS Integers

CONSTANTS NibbleBase, DecimalBase

ASSUME PitAssumption == /\ NibbleBase \in Nat \ {0, 1}
                        /\ DecimalBase \in 2 .. NibbleBase

ByteBase == NibbleBase * NibbleBase
WordBase == ByteBase * ByteBase
DecimalWord == DecimalBase * DecimalBase * DecimalBase * DecimalBase

Access == {"lsb", "msb", "lsb_msb"}   \* configure is never called with latch

(* Counts are natural numbers here; the chip run bounds them by WordBase. *)
Channel ==
  [access : Access, mode : 0 .. 5, bcd : BOOLEAN, gate : BOOLEAN, output : BOOLEAN,
   loaded : BOOLEAN, running : BOOLEAN, writeLow : BOOLEAN, readLow : BOOLEAN,
   latched : BOOLEAN, latchedLow : BOOLEAN, strobeLow : BOOLEAN, phaseHigh : BOOLEAN,
   pendingLow : Nat, latchedValue : Nat,
   reload : Nat, current : Nat, phase : Nat]

ResetChannel ==
  [access |-> "lsb_msb", mode |-> 0, bcd |-> FALSE, gate |-> FALSE, output |-> FALSE,
   loaded |-> FALSE, running |-> FALSE, writeLow |-> TRUE, readLow |-> TRUE,
   latched |-> FALSE, latchedLow |-> TRUE, strobeLow |-> FALSE, phaseHigh |-> TRUE,
   pendingLow |-> 0, latchedValue |-> 0, reload |-> 0, current |-> 0, phase |-> 0]

----------------------------------------------------------------------------
(* Counts: 0 stands for the full range in both number systems. *)

Nibble(raw, n) ==
  CASE n = 0 -> raw % NibbleBase
    [] n = 1 -> (raw \div NibbleBase) % NibbleBase
    [] n = 2 -> (raw \div ByteBase) % NibbleBase
    [] n = 3 -> (raw \div (ByteBase * NibbleBase)) % NibbleBase

DecodeCount(raw, bcd) ==
  IF ~bcd THEN IF raw = 0 THEN WordBase ELSE raw
  ELSE LET value == Nibble(raw, 0) + DecimalBase * (Nibble(raw, 1)
                    + DecimalBase * (Nibble(raw, 2) + DecimalBase * Nibble(raw, 3)))
       IN IF value = 0 THEN DecimalWord ELSE value

EncodeCount(value, bcd) ==
  IF ~bcd THEN value % WordBase
  ELSE LET digit(weight) == (value \div weight) % DecimalBase
       IN digit(1)
          + NibbleBase * digit(DecimalBase)
          + ByteBase * digit(DecimalBase * DecimalBase)
          + ByteBase * NibbleBase * digit(DecimalBase * DecimalBase * DecimalBase)

HighPhase(reload) == (reload + 1) \div 2

(* Mode 3 counts half periods; a read shows twice the rest of the half. *)
VisibleCount(ch) ==
  IF ch.mode # 3 THEN EncodeCount(ch.current, ch.bcd)
  ELSE LET twice == 2 * ch.phase
       IN EncodeCount(IF ch.phaseHigh /\ ch.reload % 2 # 0 /\ twice # 0
                      THEN twice - 1 ELSE twice, ch.bcd)

----------------------------------------------------------------------------
(* The control register. *)

Configure(ch, access, mode, bcd) ==
  [ResetChannel EXCEPT
     !.access = access,
     !.mode = CASE mode = 6 -> 2 [] mode = 7 -> 3 [] OTHER -> mode,
     !.bcd = bcd, !.gate = ch.gate, !.output = mode # 0,
     !.latchedValue = ch.latchedValue]

(* A second latch command before the first one is read out is ignored. *)
Latch(ch) ==
  IF ch.latched THEN ch
  ELSE [ch EXCEPT !.latchedValue = VisibleCount(ch), !.latched = TRUE, !.latchedLow = TRUE]

----------------------------------------------------------------------------
(* Loading, gating and counting. *)

Load(ch, raw) ==
  LET count == DecodeCount(raw, ch.bcd)
  IN [ch EXCEPT !.reload = count, !.current = count, !.loaded = TRUE,
                !.strobeLow = FALSE, !.phaseHigh = TRUE,
                !.output = ch.mode # 0,
                !.running = ch.mode \notin {1, 5} /\ ch.gate,
                !.phase = IF ch.mode = 3 THEN HighPhase(count) ELSE @]

Trigger(ch) ==
  [ch EXCEPT !.current = ch.reload, !.output = ch.mode # 1,
             !.running = TRUE, !.strobeLow = FALSE]

SetGate(ch, high) ==
  LET rising == ~ch.gate /\ high
      falling == ch.gate /\ ~high
      g == [ch EXCEPT !.gate = high]
  IN CASE ch.mode \in {0, 4} ->
            [g EXCEPT !.running = ch.loaded /\ high /\ ~ch.strobeLow]
       [] ch.mode \in {1, 5} /\ rising /\ ch.loaded -> Trigger(g)
       [] ch.mode \in {2, 3} /\ falling ->
            [g EXCEPT !.running = FALSE, !.output = TRUE]
       [] ch.mode \in {2, 3} /\ rising /\ ch.loaded ->
            [g EXCEPT !.current = ch.reload, !.phaseHigh = TRUE,
                      !.phase = IF ch.mode = 3 THEN HighPhase(ch.reload) ELSE 0,
                      !.output = TRUE, !.running = TRUE]
       [] OTHER -> g

CountDown(ch) == [ch EXCEPT !.current = IF @ > 1 THEN @ - 1 ELSE @]

ToTerminalCount(ch) ==                                          \* modes 0, 1
  IF ch.current > 1 THEN CountDown(ch)
  ELSE [ch EXCEPT !.current = 0, !.output = TRUE, !.running = FALSE]

(* Faulty variants, named for the slip, stand before what they vary and are *)
(* used by nothing here: the mutation runs put them in its place.           *)
DivideByNReloadsLate(ch) ==
  IF ch.current > 1 THEN [CountDown(ch) EXCEPT !.output = TRUE]
  ELSE IF ch.output THEN [ch EXCEPT !.output = FALSE]
  ELSE [ch EXCEPT !.output = TRUE, !.current = ch.reload]

DivideByN(ch) ==                                                \* mode 2
  IF ~ch.output \/ ch.current > 1 THEN [CountDown(ch) EXCEPT !.output = TRUE]
  ELSE [ch EXCEPT !.current = ch.reload, !.output = FALSE]

SquareWave(ch) ==                                               \* mode 3
  IF ch.phase > 1 THEN [ch EXCEPT !.phase = @ - 1]
  ELSE LET half == IF ch.output THEN ch.reload \div 2 ELSE HighPhase(ch.reload)
       IN [ch EXCEPT !.output = ~@, !.phaseHigh = ~ch.output,
                     !.phase = IF half = 0 THEN 1 ELSE half]

Strobe(ch) ==                                                   \* modes 4, 5
  IF ch.strobeLow
  THEN [ch EXCEPT !.output = TRUE, !.strobeLow = FALSE, !.running = FALSE]
  ELSE IF ch.current > 1 THEN CountDown(ch)
  ELSE [ch EXCEPT !.current = 0, !.output = FALSE, !.strobeLow = TRUE]

ClockOnce(ch) ==
  IF ~ch.running \/ ~ch.loaded THEN ch
  ELSE CASE ch.mode \in {0, 1} -> ToTerminalCount(ch)
         [] ch.mode = 2 -> DivideByN(ch)
         [] ch.mode = 3 -> SquareWave(ch)
         [] ch.mode \in {4, 5} -> Strobe(ch)

----------------------------------------------------------------------------
(* The count register, one byte at a time. *)

WriteChannel(ch, v) ==
  CASE ch.access = "lsb" -> Load(ch, v)
    [] ch.access = "msb" -> Load(ch, ByteBase * v)
    [] ch.access = "lsb_msb" /\ ch.writeLow ->
         [ch EXCEPT !.pendingLow = v, !.writeLow = FALSE]
    [] ch.access = "lsb_msb" /\ ~ch.writeLow ->
         Load([ch EXCEPT !.writeLow = TRUE], ByteBase * v + ch.pendingLow)

LowNext(ch) == IF ch.latched THEN ch.latchedLow ELSE ch.readLow

ReadChannelUnlatchesEarly(ch) ==
  CASE ch.access \in {"lsb", "msb"} -> [ch EXCEPT !.latched = FALSE]
    [] ch.access = "lsb_msb" -> [ch EXCEPT !.latched = FALSE, !.readLow = ~LowNext(ch)]

(* The channel after a read, and the byte the read returns. *)
ReadChannel(ch) ==
  CASE ch.access \in {"lsb", "msb"} -> [ch EXCEPT !.latched = FALSE]
    [] ch.access = "lsb_msb" /\ ch.latched ->
         [ch EXCEPT !.latchedLow = ~@, !.latched = ch.latchedLow]
    [] ch.access = "lsb_msb" /\ ~ch.latched -> [ch EXCEPT !.readLow = ~@]

ReadValue(ch) ==
  LET value == IF ch.latched THEN ch.latchedValue ELSE VisibleCount(ch)
      low == ch.access = "lsb" \/ (ch.access = "lsb_msb" /\ LowNext(ch))
  IN IF low THEN value % ByteBase ELSE value \div ByteBase
=============================================================================
