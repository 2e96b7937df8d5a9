---------------------------- MODULE Host_proofs ----------------------------
(***************************************************************************)
(* Proofs about the frontend.  Its loop: the machine's time is kept for    *)
(* every set of instruction lengths and every frame, a byte entered in     *)
(* hexadecimal is the one typed for every table of scan codes, a held key  *)
(* repeats on time for every delay and interval, and the mouse loses no    *)
(* motion, spaces its edges and announces every change.  The disk images:  *)
(* mounts stay sound, files are written only as a disk is saved, and a     *)
(* disk is saved as the program reads it, with all the program has written *)
(* to it, for every layout of a track, every set of files and every way to *)
(* fail.                                                                   *)
(***************************************************************************)
EXTENDS HostInput, DiskFiles, SequenceTheorems, FiniteSetTheorems, WellFoundedInduction, TLAPS

----------------------------------------------------------------------------
(* The machine's time. *)

Longest == Max(Instructions)

LEMMA LongestInstruction ==
  /\ Longest \in Instructions /\ Longest \in Nat \ {0}
  /\ \A length \in Instructions : length \in Nat /\ length > 0 /\ length <= Longest
<1>1. PICK longest \in Instructions : \A length \in Instructions : length <= longest
  BY ClockAssumption
<1>2. Instructions \subseteq Nat \ {0}
  BY ClockAssumption
<1>3. \A length \in Instructions : longest >= length
  BY <1>1, <1>2
<1>4. /\ Longest \in Instructions
      /\ \A length \in Instructions : Longest >= length
  BY <1>3, Zenon DEF Longest, Max
<1> QED BY <1>2, <1>4

(* A prescaler counts ticks into pulses and keeps the remainder. *)
LEMMA Prescaler ==
  ASSUME NEW period \in Nat \ {0}, NEW rest \in 0 .. period - 1, NEW ticks \in Nat
  PROVE  /\ (rest + ticks) % period \in 0 .. period - 1
         /\ rest + ticks - period * ((rest + ticks) \div period) = (rest + ticks) % period
OBVIOUS

ClockState ==
  [overrun : 0 .. Longest - 1, remaining : Nat, synchronized : 0 .. Longest,
   accessing : BOOLEAN, timer : 0 .. TicksPerClock - 1, frame : 0 .. TicksPerFrame - 1]

(* The histories say where the clock is; a frame begins with the overrun   *)
(* of the last one taken off and no instruction begun.                     *)
ClockInv ==
  /\ clock \in ClockState
  /\ behind = [cycles |-> clock.remaining - clock.synchronized - clock.overrun,
               timer |-> clock.timer, frame |-> clock.frame]
  /\ IF Running THEN clock.overrun = 0 ELSE clock.synchronized = 0

LEMMA ClockInvKeepsCycles == ClockInv => CyclesAreKept
<1> SUFFICES ASSUME ClockInv PROVE CyclesAreKept
  OBVIOUS
<1>1. Longest \in Nat \ {0}
  BY LongestInstruction
<1>2. TicksPerClock \in Nat \ {0} /\ TicksPerFrame \in Nat \ {0}
  BY ClockAssumption
<1>3. ~Running => behind.cycles \in 1 - Longest .. 0
  BY <1>1 DEF ClockInv, ClockState, Running
<1> QED BY <1>2, <1>3 DEF ClockInv, ClockState, CyclesAreKept, Longest

(* advance_time. *)
LEMMA PassedCounts ==
  ASSUME ClockInv, NEW cycles \in Nat
  PROVE  LET c == Passed(clock, cycles * TicksPerCycle)
         IN /\ c \in ClockState
            /\ c.overrun = clock.overrun /\ c.remaining = clock.remaining
            /\ c.synchronized = clock.synchronized /\ c.accessing = clock.accessing
            /\ After(behind, cycles) = [cycles |-> behind.cycles - cycles,
                                        timer |-> c.timer, frame |-> c.frame]
<1> DEFINE ticks == cycles * TicksPerCycle
           c == Passed(clock, ticks)
<1>1. ticks \in Nat
  BY ClockAssumption
<1>2. TicksPerClock \in Nat \ {0} /\ TicksPerFrame \in Nat \ {0}
  BY ClockAssumption
<1>3. /\ clock.timer \in 0 .. TicksPerClock - 1 /\ clock.frame \in 0 .. TicksPerFrame - 1
      /\ behind.timer = clock.timer /\ behind.frame = clock.frame
  BY DEF ClockInv, ClockState
<1> HIDE DEF ticks
<1>4. /\ (clock.timer + ticks) % TicksPerClock \in 0 .. TicksPerClock - 1
      /\ clock.timer + ticks - TicksPerClock * TimerClocks(clock, ticks)
           = (clock.timer + ticks) % TicksPerClock
  BY <1>1, <1>2, <1>3, Prescaler DEF TimerClocks
<1>5. /\ (clock.frame + ticks) % TicksPerFrame \in 0 .. TicksPerFrame - 1
      /\ clock.frame + ticks - TicksPerFrame * Frames(clock, ticks)
           = (clock.frame + ticks) % TicksPerFrame
  BY <1>1, <1>2, <1>3, Prescaler DEF Frames
<1>6. c \in ClockState
  BY <1>4, <1>5 DEF ClockInv, ClockState, Passed
<1>7. /\ c.overrun = clock.overrun /\ c.remaining = clock.remaining
      /\ c.synchronized = clock.synchronized /\ c.accessing = clock.accessing
      /\ c.timer = (clock.timer + ticks) % TicksPerClock
      /\ c.frame = (clock.frame + ticks) % TicksPerFrame
  BY DEF ClockInv, ClockState, Passed
<1>8. After(behind, cycles) = [cycles |-> behind.cycles - cycles,
                               timer |-> c.timer, frame |-> c.frame]
  BY <1>3, <1>4, <1>5, <1>7 DEF After, ticks
<1> QED BY <1>6, <1>7, <1>8 DEF ticks

(* What the next values of the clock have to satisfy, field by field. *)
LEMMA ClockSet ==
  ASSUME NEW o \in 0 .. Longest - 1, NEW r \in Nat, NEW s \in 0 .. Longest, NEW a \in BOOLEAN,
         NEW t \in 0 .. TicksPerClock - 1, NEW f \in 0 .. TicksPerFrame - 1,
         clock' = [overrun |-> o, remaining |-> r, synchronized |-> s, accessing |-> a,
                   timer |-> t, frame |-> f],
         behind' = [cycles |-> r - s - o, timer |-> t, frame |-> f],
         r # 0 => o = 0, r = 0 => s = 0
  PROVE  ClockInv'
<1>1. clock' \in ClockState
  BY DEF ClockState
<1>2. /\ clock'.overrun = o /\ clock'.remaining = r /\ clock'.synchronized = s
      /\ clock'.timer = t /\ clock'.frame = f
  OBVIOUS
<1>3. (clock \in ClockState)'
  BY <1>1 DEF ClockState
<1> QED BY <1>2, <1>3 DEF ClockInv, Running

LEMMA StartedInv == clock' = Started /\ behind' = OnTime => ClockInv'
<1>1. Longest \in Nat \ {0} /\ TicksPerClock \in Nat \ {0} /\ TicksPerFrame \in Nat \ {0}
  BY LongestInstruction, ClockAssumption
<1>2. 0 \in 0 .. Longest - 1 /\ 0 \in 0 .. TicksPerClock - 1 /\ 0 \in 0 .. TicksPerFrame - 1
  BY <1>1
<1>3. 0 \in 0 .. Longest
  BY <1>1
<1> SUFFICES ASSUME clock' = Started, behind' = OnTime PROVE ClockInv'
  OBVIOUS
<1>4. behind' = [cycles |-> 0 - 0 - 0, timer |-> 0, frame |-> 0]
  BY DEF OnTime
<1>5. clock' = [overrun |-> 0, remaining |-> 0, synchronized |-> 0, accessing |-> FALSE,
                timer |-> 0, frame |-> 0]
  BY DEF Started
<1> QED BY <1>2, <1>3, <1>4, <1>5, ClockSet

LEMMA RunCyclesInv == ClockInv /\ RunCycles => ClockInv'
<1> SUFFICES ASSUME ClockInv, RunCycles PROVE ClockInv'
  OBVIOUS
<1> DEFINE o == clock.overrun
<1>1. CyclesPerFrame \in Nat \ {0} /\ Longest \in Nat \ {0}
  BY ClockAssumption, LongestInstruction
<1>2. /\ clock = [overrun |-> o, remaining |-> 0, synchronized |-> 0,
                  accessing |-> clock.accessing, timer |-> clock.timer, frame |-> clock.frame]
      /\ o \in 0 .. Longest - 1 /\ clock.accessing \in BOOLEAN
      /\ clock.timer \in 0 .. TicksPerClock - 1 /\ clock.frame \in 0 .. TicksPerFrame - 1
  BY DEF ClockInv, ClockState, RunCycles, Running
<1>3. behind' = [cycles |-> CyclesPerFrame - o, timer |-> clock.timer, frame |-> clock.frame]
  BY <1>1, <1>2 DEF ClockInv, RunCycles
<1>4. CASE CyclesPerFrame <= o
  <2>1. clock' = [overrun |-> o - CyclesPerFrame, remaining |-> 0, synchronized |-> 0,
                  accessing |-> clock.accessing, timer |-> clock.timer, frame |-> clock.frame]
    BY <1>2, <1>4 DEF RunCycles, Budgeted
  <2>2. o - CyclesPerFrame \in 0 .. Longest - 1 /\ 0 \in 0 .. Longest
    BY <1>1, <1>2, <1>4
  <2>3. behind'.cycles = 0 - 0 - (o - CyclesPerFrame) /\ CyclesPerFrame - o = 0 - 0 - (o - CyclesPerFrame)
    BY <1>1, <1>2, <1>3
  <2> QED BY <1>2, <1>3, <2>1, <2>2, <2>3, ClockSet
<1>5. CASE ~(CyclesPerFrame <= o)
  <2>1. clock' = [overrun |-> 0, remaining |-> CyclesPerFrame - o, synchronized |-> 0,
                  accessing |-> clock.accessing, timer |-> clock.timer, frame |-> clock.frame]
    <3>1. clock.overrun = o
      OBVIOUS
    <3>2. clock' = [clock EXCEPT !.remaining = CyclesPerFrame - o, !.overrun = 0]
      BY <1>5, <3>1 DEF RunCycles, Budgeted
    <3>3. /\ clock \in ClockState
          /\ clock.synchronized = 0
      BY DEF ClockInv, RunCycles, Running
    <3> HIDE DEF o
    <3> QED BY <3>2, <3>3 DEF ClockState
  <2>2. /\ CyclesPerFrame - o \in Nat \ {0} /\ 0 \in 0 .. Longest - 1 /\ 0 \in 0 .. Longest
        /\ CyclesPerFrame - o = CyclesPerFrame - o - 0 - 0
    BY <1>1, <1>2, <1>5
  <2> QED BY <1>2, <1>3, <2>1, <2>2, ClockSet
<1> QED BY <1>4, <1>5

LEMMA SynchronizeInv ==
  ASSUME ClockInv, NEW cycle \in 1 .. Max(Instructions), SynchronizeCpuIo(cycle)
  PROVE  ClockInv'
<1> DEFINE c == Passed(clock, cycle * TicksPerCycle)
<1>1. Longest \in Nat \ {0} /\ cycle \in 0 .. Longest /\ cycle \in Nat
  BY LongestInstruction DEF Longest
<1>2. /\ c \in ClockState
      /\ c.overrun = clock.overrun /\ c.remaining = clock.remaining
      /\ After(behind, cycle) = [cycles |-> behind.cycles - cycle,
                                 timer |-> c.timer, frame |-> c.frame]
  BY <1>1, PassedCounts
<1>3. /\ clock.remaining # 0 /\ clock.synchronized = 0
      /\ clock' = [c EXCEPT !.synchronized = cycle, !.accessing = TRUE]
      /\ behind' = After(behind, cycle)
  BY DEF SynchronizeCpuIo, Running
<1> HIDE DEF c
<1>4. behind.cycles = clock.remaining /\ clock.overrun = 0 /\ clock.remaining \in Nat
  BY <1>3 DEF ClockInv, ClockState, Running
<1>5. clock' = [overrun |-> 0, remaining |-> clock.remaining, synchronized |-> cycle,
                accessing |-> TRUE, timer |-> c.timer, frame |-> c.frame]
  BY <1>2, <1>3, <1>4 DEF ClockState
<1>6. behind' = [cycles |-> clock.remaining - cycle - 0, timer |-> c.timer, frame |-> c.frame]
  BY <1>1, <1>2, <1>3, <1>4
<1>7. 0 \in 0 .. Longest - 1 /\ c.timer \in 0 .. TicksPerClock - 1 /\ c.frame \in 0 .. TicksPerFrame - 1
  BY <1>1, <1>2 DEF ClockState
<1> DEFINE r == clock.remaining
           t == c.timer
           f == c.frame
           a == TRUE
           o == 0
<1>8. /\ o \in 0 .. Longest - 1 /\ a \in BOOLEAN /\ (r # 0 => o = 0) /\ (r = 0 => cycle = 0)
      /\ r \in Nat /\ r # 0 /\ t \in 0 .. TicksPerClock - 1 /\ f \in 0 .. TicksPerFrame - 1
      /\ clock' = [overrun |-> o, remaining |-> r, synchronized |-> cycle,
                   accessing |-> a, timer |-> t, frame |-> f]
      /\ behind' = [cycles |-> r - cycle - o, timer |-> t, frame |-> f]
  BY <1>3, <1>4, <1>5, <1>6, <1>7
<1> HIDE DEF r, t, f, a, o
<1> QED BY <1>1, <1>8, ClockSet

LEMMA CompleteInv ==
  ASSUME ClockInv, NEW length \in Instructions, CompleteInstruction(length)
  PROVE  ClockInv'
<1> DEFINE cycles == length - clock.synchronized
           c == Passed(clock, cycles * TicksPerCycle)
           r == clock.remaining
<1>1. Longest \in Nat \ {0} /\ length \in 1 .. Longest /\ length \in Int
  BY LongestInstruction
<1>2. clock.synchronized \in Nat /\ r \in Nat
  BY <1>1 DEF ClockInv, ClockState
<1>3. cycles \in Nat
  BY <1>1, <1>2 DEF CompleteInstruction
<1>4. /\ c \in ClockState
      /\ c.overrun = clock.overrun /\ c.remaining = r
      /\ After(behind, cycles) = [cycles |-> behind.cycles - cycles,
                                  timer |-> c.timer, frame |-> c.frame]
  BY <1>3, PassedCounts
<1>5. r # 0 /\ clock' = Completed(c, length) /\ behind' = After(behind, cycles)
  BY DEF CompleteInstruction, Running
<1>6. behind.cycles - cycles = r - length
  BY <1>1, <1>2, <1>5 DEF ClockInv, ClockState, Running
<1> HIDE DEF c, cycles
<1>7. behind' = [cycles |-> r - length, timer |-> c.timer, frame |-> c.frame]
  BY <1>4, <1>5, <1>6
<1>8. /\ c.timer \in 0 .. TicksPerClock - 1 /\ c.frame \in 0 .. TicksPerFrame - 1
      /\ c.accessing \in BOOLEAN /\ 0 \in 0 .. Longest /\ 0 \in 0 .. Longest - 1
  BY <1>1, <1>4 DEF ClockState
<1>9. CASE length >= r
  <2>1. clock' = [overrun |-> length - r, remaining |-> 0, synchronized |-> 0,
                  accessing |-> c.accessing, timer |-> c.timer, frame |-> c.frame]
    BY <1>4, <1>5, <1>9 DEF Completed, ClockState
  <2>2. length - r \in 0 .. Longest - 1 /\ r - length = 0 - 0 - (length - r)
    BY <1>1, <1>2, <1>5, <1>9
  <2> HIDE DEF r
  <2> QED BY <1>7, <1>8, <2>1, <2>2, ClockSet
<1>10. CASE ~(length >= r)
  <2>1. clock' = [overrun |-> 0, remaining |-> r - length, synchronized |-> 0,
                  accessing |-> c.accessing, timer |-> c.timer, frame |-> c.frame]
    BY <1>4, <1>5, <1>10 DEF Completed, ClockState
  <2>2. r - length \in Nat \ {0} /\ r - length = r - length - 0 - 0
    BY <1>1, <1>2, <1>10
  <2> HIDE DEF r
  <2> QED BY <1>7, <1>8, <2>1, <2>2, ClockSet
<1> QED BY <1>9, <1>10

LEMMA ClockStep == ClockInv /\ [HostNext]_hvars => ClockInv'
<1> SUFFICES ASSUME ClockInv, [HostNext]_hvars PROVE ClockInv'
  OBVIOUS
<1>1. CASE UNCHANGED clockVars
  BY <1>1 DEF clockVars, ClockInv, Running
<1>2. CASE Frame
  BY <1>2, RunCyclesInv DEF Frame
<1>3. ASSUME NEW cycle \in 1 .. Max(Instructions), Synchronize(cycle) PROVE ClockInv'
  BY <1>3, SynchronizeInv DEF Synchronize
<1>4. CASE Access
  BY <1>4 DEF Access, ClockInv, ClockState, Running
<1>5. ASSUME NEW length \in Instructions, Complete(length) PROVE ClockInv'
  BY <1>5, CompleteInv DEF Complete
<1>6. CASE HostReset
  BY <1>6, StartedInv DEF HostReset, ResetClock
<1>7. CASE UNCHANGED hvars
  BY <1>1, <1>7 DEF hvars
<1>8. ASSUME NEW key, NEW mods, KeyDown(key, mods) PROVE UNCHANGED clockVars
  BY <1>8 DEF KeyDown
<1>9. ASSUME NEW key, KeyUp(key) PROVE UNCHANGED clockVars
  BY <1>9 DEF KeyUp
<1>10. ScrollUp => UNCHANGED clockVars
  BY DEF ScrollUp
<1>11. ASSUME NEW capture, MouseCapture(capture) PROVE UNCHANGED clockVars
  BY <1>11 DEF MouseCapture, MouseUsed
<1>12. ASSUME NEW button, NEW captures, ButtonDown(button, captures) PROVE UNCHANGED clockVars
  BY <1>12 DEF ButtonDown, MouseUsed
<1>13. ASSUME NEW button, ButtonUp(button) PROVE UNCHANGED clockVars
  BY <1>13 DEF ButtonUp, MouseUsed
<1>14. ASSUME NEW dx, NEW dy, Motion(dx, dy) PROVE UNCHANGED clockVars
  BY <1>14 DEF Motion, MouseUsed
<1>15. ASSUME NEW signals, TestSignalsSet(signals) PROVE UNCHANGED clockVars
  BY <1>15 DEF TestSignalsSet, MouseUsed
<1> QED BY <1>1, <1>2, <1>3, <1>4, <1>5, <1>6, <1>7, <1>8, <1>9, <1>10, <1>11, <1>12,
           <1>13, <1>14, <1>15 DEF HostNext

LEMMA ClockStarts == HostInit => ClockInv
<1>1. HostInit => clock = Started /\ behind = OnTime
  BY DEF HostInit
<1>2. /\ 0 \in 0 .. Longest - 1 /\ 0 \in 0 .. Longest
      /\ 0 \in 0 .. TicksPerClock - 1 /\ 0 \in 0 .. TicksPerFrame - 1
  BY LongestInstruction, ClockAssumption
<1>3. HostInit => clock \in ClockState
  <2>1. Started \in ClockState
    BY <1>2 DEF ClockState, Started
  <2> QED BY <1>1, <2>1
<1>4. 0 - 0 - 0 = 0
  OBVIOUS
<1> QED BY <1>1, <1>3, <1>4 DEF ClockInv, Started, OnTime, Running

(* Between two frames the machine has run what it was asked for and less   *)
(* than an instruction more, and no clock of the timer and no frame of the *)
(* video is lost or comes twice, for every set of instruction lengths and  *)
(* every period (run_cycles, synchronize_cpu_io, advance_time).            *)
THEOREM CyclesAlwaysKept == HostSpec => []CyclesAreKept
<1>1. HostInit => ClockInv
  BY ClockStarts
<1>2. ClockInv /\ [HostNext]_hvars => ClockInv'
  BY ClockStep
<1>3. ClockInv => CyclesAreKept
  BY ClockInvKeepsCycles
<1> QED BY <1>1, <1>2, <1>3, PTL DEF HostSpec

----------------------------------------------------------------------------
(* The byte entered in hexadecimal. *)

(* Exchanging the case of a KOI-8 letter gives a byte, and no digit.       *)
LEMMA OutputKeepsDigits ==
  ASSUME NEW d \in Decoder, NEW code \in Byte
  PROVE  /\ Output(d, code).decoder = d
         /\ Digit(Output(d, code).code) = Digit(code)
<1>1. d.czech \in BOOLEAN /\ code \in 0 .. 255
  BY DEF Decoder, Byte
<1>2. CASE d.czech /\ code >= 192
  <2>1. Output(d, code).code \in Int /\ Output(d, code).code >= 192
    BY <1>1, <1>2 DEF Output, Gives
  <2>2. \A byte \in Int : byte >= 192 => Digit(byte) = None
    BY SMT DEF Digit
  <2> QED BY <1>1, <1>2, <2>1, <2>2 DEF Output, Gives
<1>3. CASE ~(d.czech /\ code >= 192)
  BY <1>3 DEF Output, Gives
<1> QED BY <1>2, <1>3

LEMMA DigitRange == \A code \in Byte : Digit(code) \in 0 .. 15 \/ Digit(code) = None
BY SMT DEF Digit, Byte, None

(* The code of a key of the main block. *)
TableOf(czech, mods) ==
  LET upper == ("shift" \in mods) # ("caps" \in mods)
  IN IF czech THEN IF upper THEN "cz_vp" ELSE "cz_mp"
     ELSE IF upper THEN "us_vp" ELSE "us_mp"
CodeOf(czech, key, mods) == Table[TableOf(czech, mods)][key.scan]

LEMMA CodeIsByte ==
  ASSUME NEW czech \in BOOLEAN, NEW key, key.scan \in Scan, NEW mods
  PROVE  CodeOf(czech, key, mods) \in Byte
<1>1. TableOf(czech, mods) \in Tables
  BY DEF TableOf, Tables
<1> DEFINE table == TableOf(czech, mods)
<1> HIDE DEF table
<1>2. Table \in [Tables -> [Scan -> Byte]]
  BY AtKeyboardAssumption
<1>3. Table[table] \in [Scan -> Byte]
  BY <1>1, <1>2 DEF table
<1>4. Table[table][key.scan] \in Byte
  BY <1>3
<1> QED BY <1>4 DEF CodeOf, table

(* What the decoder holds is the digit the history holds. *)
TypingInv ==
  /\ decoder \in Decoder /\ entered = TRUE
  /\ digits = IF decoder.pending THEN <<decoder.high>> ELSE <<>>

(* A key with Scroll Lock that is no dead key. *)
LEMMA MainWithScroll ==
  ASSUME NEW d \in Decoder, NEW key, NEW mods, "scroll" \in mods,
         ~(d.czech /\ key.scan = DeadScan), key.scan \in Scan
  PROVE  Main(d, key.scan, mods) =
           IF CodeOf(d.czech, key, mods) = 0 THEN Nothing(d)
           ELSE Hexadecimal(d, CodeOf(d.czech, key, mods))
BY DEF Main, CodeOf, TableOf

(* The digit of the history is the digit of the table's code. *)
LEMMA TypedIsDigit ==
  ASSUME TypingInv, NEW key, NEW mods, ~key.extended, key.scan # AltScan,
         ~(decoder.czech /\ key.scan = DeadScan), key.scan \in Scan
  PROVE  Typed(key, mods) = IF CodeOf(decoder.czech, key, mods) = 0 THEN None
                            ELSE Digit(CodeOf(decoder.czech, key, mods))
<1> DEFINE plain == [ResetDecoder EXCEPT !.czech = decoder.czech]
           bare == mods \ {"scroll", "control"}
           code == CodeOf(decoder.czech, key, mods)
<1>1. decoder.czech \in BOOLEAN
  BY DEF TypingInv, Decoder
<1>2. /\ plain \in Decoder /\ plain.czech = decoder.czech /\ plain.dead = {}
      /\ ReleaseScroll(plain) = plain
  <2>1. ResetDecoder \in Decoder
    BY DEF Decoder, ResetDecoder
  <2>2. plain \in Decoder
    BY <1>1, <2>1 DEF Decoder
  <2>3. plain.czech = decoder.czech /\ plain.dead = {} /\ plain.pending = FALSE
    BY <2>1 DEF Decoder, ResetDecoder
  <2> HIDE DEF plain
  <2>4. ReleaseScroll(plain) = plain
    BY <2>2, <2>3 DEF ReleaseScroll, Decoder
  <2> QED BY <2>2, <2>3, <2>4
<1>3. "scroll" \notin bare /\ "control" \notin bare
  OBVIOUS
<1>4. CodeOf(decoder.czech, key, bare) = code
  BY DEF CodeOf, TableOf
<1>5. code \in Byte
  BY <1>1, CodeIsByte
<1> HIDE DEF plain, bare, code
<1>6. Translate(plain, key, bare) = Main(plain, key.scan, bare)
  BY <1>2, <1>3 DEF Translate
<1>7. Main(plain, key.scan, bare) = IF code = 0 THEN Nothing(plain) ELSE Output(plain, code)
  BY <1>2, <1>3, <1>4 DEF Main, CodeOf, TableOf
<1>8. Typed(key, mods) = Digit(Translate(plain, key, bare).code)
  BY DEF Typed, plain, bare
<1>9. Digit(None) = None
  BY DEF Digit, None
<1>10. Nothing(plain).code = None
  BY DEF Nothing, Gives
<1> QED BY <1>2, <1>5, <1>6, <1>7, <1>8, <1>9, <1>10, OutputKeepsDigits DEF code

LEMMA ReleasedDecoder ==
  ASSUME NEW d \in Decoder
  PROVE  ReleaseScroll(d) \in Decoder /\ ReleaseScroll(d).pending = FALSE
BY DEF Decoder, ReleaseScroll

(* Two digits entered one after the other. *)
LEMMA HexadecimalStep ==
  ASSUME TypingInv, NEW key \in Key, NEW mods, KeyDown(key, mods), "scroll" \in mods,
         ~key.extended, key.scan # AltScan,
         ~(decoder.czech /\ key.scan = DeadScan), key.scan \in Scan
  PROVE  TypingInv'
<1> DEFINE code == CodeOf(decoder.czech, key, mods)
           t == Translate(decoder, key, mods)
           digit == Typed(key, mods)
<1>1. decoder \in Decoder /\ decoder.czech \in BOOLEAN /\ entered = TRUE
  BY DEF TypingInv, Decoder
<1>2. t = IF code = 0 THEN Nothing(decoder) ELSE Hexadecimal(decoder, code)
  BY <1>1, MainWithScroll DEF Translate
<1>3. digit = IF code = 0 THEN None ELSE Digit(code)
  BY TypedIsDigit
<1>4. code \in Byte
  BY <1>1, CodeIsByte
<1>5. /\ decoder' = t.decoder
      /\ digits' = IF digit # None THEN IF digits = <<>> THEN <<digit>> ELSE <<>> ELSE digits
      /\ entered' = IF digit = None THEN TRUE
                    ELSE t.code = IF digits = <<>> THEN None
                                  ELSE Output(decoder, digits[1] * 16 + digit).code
  BY <1>1 DEF KeyDown
<1> HIDE DEF code, t, digit
<1>6. CASE code = 0 \/ Digit(code) = None
  <2>1. t = Nothing(decoder) /\ digit = None
    BY <1>2, <1>3, <1>6 DEF Hexadecimal
  <2>2. decoder' = decoder /\ digits' = digits /\ entered' = TRUE
    BY <1>5, <2>1 DEF Nothing, Gives
  <2> QED BY <2>2 DEF TypingInv
<1>7. CASE code # 0 /\ Digit(code) # None
  <2>1. digit = Digit(code) /\ digit \in 0 .. 15 /\ digit # None
    BY <1>3, <1>4, <1>7, DigitRange
  <2>2. t = IF decoder.pending THEN Output(ReleaseScroll(decoder), decoder.high * 16 + digit)
            ELSE Nothing([decoder EXCEPT !.pending = TRUE, !.high = digit])
    BY <1>2, <1>7, <2>1 DEF Hexadecimal
  <2>3. CASE decoder.pending
    <3>1. digits = <<decoder.high>> /\ digits # <<>> /\ digits[1] = decoder.high
      BY <2>3 DEF TypingInv
    <3>2. /\ t.decoder = ReleaseScroll(decoder)
          /\ t.code = Output(decoder, decoder.high * 16 + digit).code
      <4>1. ReleaseScroll(decoder).czech = decoder.czech
        BY <1>1 DEF ReleaseScroll, Decoder
      <4> QED BY <2>2, <2>3, <4>1 DEF Output, Gives
    <3>3. decoder' = ReleaseScroll(decoder) /\ digits' = <<>> /\ entered' = TRUE
      BY <1>5, <2>1, <3>1, <3>2
    <3> QED BY <1>1, <3>3, ReleasedDecoder DEF TypingInv
  <2>4. CASE ~decoder.pending
    <3>1. digits = <<>>
      BY <2>4 DEF TypingInv
    <3>2. /\ t.decoder = [decoder EXCEPT !.pending = TRUE, !.high = digit]
          /\ t.code = None
      BY <2>2, <2>4 DEF Nothing, Gives
    <3>3. /\ decoder' = [decoder EXCEPT !.pending = TRUE, !.high = digit]
          /\ digits' = <<digit>> /\ entered' = TRUE
      BY <1>5, <2>1, <3>1, <3>2
    <3>4. decoder' \in Decoder /\ decoder'.pending = TRUE /\ decoder'.high = digit
      BY <1>1, <2>1, <3>3 DEF Decoder
    <3>5. (decoder \in Decoder)'
      BY <3>4 DEF Decoder
    <3> QED BY <3>3, <3>4, <3>5 DEF TypingInv
  <2> QED BY <2>3, <2>4
<1> QED BY <1>6, <1>7

(* A key of the main block without Scroll Lock ends an entry.              *)
LEMMA MainKeepsPending ==
  ASSUME NEW d \in Decoder, NEW key, key.scan \in Scan, NEW mods,
         "scroll" \notin mods \/ (d.czech /\ key.scan = DeadScan)
  PROVE  /\ Main(d, key.scan, mods).decoder \in Decoder
         /\ Main(d, key.scan, mods).decoder.pending = d.pending
         /\ Main(d, key.scan, mods).decoder.high = d.high
<1> DEFINE code == CodeOf(d.czech, key, mods)
           accent == IF "shift" \in mods THEN "caron" ELSE "acute"
           used == IF "acute" \in d.dead THEN "acute" ELSE "caron"
           added == [d EXCEPT !.dead = @ \cup {accent}]
           less == [d EXCEPT !.dead = @ \ {used}]
<1>1. accent \in {"acute", "caron"}
  OBVIOUS
<1>2. /\ added \in Decoder /\ added.pending = d.pending /\ added.high = d.high
      /\ less \in Decoder /\ less.pending = d.pending /\ less.high = d.high
  BY <1>1 DEF Decoder
<1>3. Main(d, key.scan, mods).decoder \in {d, added, less}
  BY DEF Main, Nothing, Gives, Accented, Controlled, Output
<1> QED BY <1>2, <1>3

LEMMA KeyDownTyping ==
  ASSUME TypingInv, NEW key \in Key, NEW mods, KeyDown(key, mods)
  PROVE  TypingInv'
<1> DEFINE t == Translate(decoder, key, mods)
           entry == IF "scroll" \in mods THEN decoder ELSE ReleaseScroll(decoder)
<1>1. decoder \in Decoder /\ decoder.czech \in BOOLEAN /\ entered = TRUE
  BY DEF TypingInv, Decoder
<1>2. key.scan \in IF key.extended THEN Extended ELSE Scan
  BY HostAssumption
<1>3. decoder' = t.decoder
  BY DEF KeyDown
<1>4. ReleaseScroll(decoder) \in Decoder /\ ReleaseScroll(decoder).pending = FALSE
  BY <1>1, ReleasedDecoder
<1>5. entry \in Decoder
  BY <1>1, <1>4
<1>6. ASSUME "scroll" \notin mods \/ Typed(key, mods) = None
      PROVE  /\ entered' = TRUE
             /\ digits' = IF "scroll" \in mods \/ key.scan = AltScan THEN digits ELSE <<>>
  BY <1>1, <1>6 DEF KeyDown
<1>7. CASE key.scan = AltScan
  <2>1. Typed(key, mods) = None
    BY <1>7 DEF Typed
  <2>2. decoder' = [decoder EXCEPT !.czech = ~@]
    BY <1>3, <1>7 DEF Translate, Nothing, Gives
  <2>3. /\ decoder' \in Decoder /\ decoder'.pending = decoder.pending
        /\ decoder'.high = decoder.high
    BY <1>1, <2>2 DEF Decoder
  <2>4. entered' = TRUE /\ digits' = digits
    BY <1>6, <1>7, <2>1
  <2>5. (decoder \in Decoder)'
    BY <2>3 DEF Decoder
  <2> QED BY <2>3, <2>4, <2>5 DEF TypingInv
<1>8. CASE key.scan # AltScan /\ key.extended
  <2>1. Typed(key, mods) = None
    BY <1>8 DEF Typed
  <2>2. decoder' = entry
    BY <1>3, <1>8 DEF Translate, Extra, Nothing, Output, Gives
  <2>3. entered' = TRUE /\ digits' = IF "scroll" \in mods THEN digits ELSE <<>>
    BY <1>6, <1>8, <2>1
  <2>4. (decoder \in Decoder)'
    BY <1>5, <2>2 DEF Decoder
  <2> QED BY <1>4, <2>2, <2>3, <2>4 DEF TypingInv
<1>9. CASE key.scan # AltScan /\ ~key.extended /\ "scroll" \notin mods
  <2>1. decoder' = Main(ReleaseScroll(decoder), key.scan, mods).decoder
    BY <1>3, <1>9 DEF Translate
  <2>2. decoder' \in Decoder /\ decoder'.pending = FALSE
    BY <1>2, <1>4, <1>9, <2>1, MainKeepsPending
  <2>3. entered' = TRUE /\ digits' = <<>>
    BY <1>6, <1>9
  <2>4. (decoder \in Decoder)'
    BY <2>2 DEF Decoder
  <2> QED BY <2>2, <2>3, <2>4 DEF TypingInv
<1>10. CASE /\ key.scan # AltScan /\ ~key.extended /\ "scroll" \in mods
            /\ decoder.czech /\ key.scan = DeadScan
  <2>1. Typed(key, mods) = None
    BY <1>10 DEF Typed
  <2>2. decoder' = Main(decoder, key.scan, mods).decoder
    BY <1>3, <1>10 DEF Translate
  <2>3. /\ decoder' \in Decoder /\ decoder'.pending = decoder.pending
        /\ decoder'.high = decoder.high
    BY <1>1, <1>2, <1>10, <2>2, MainKeepsPending
  <2>4. entered' = TRUE /\ digits' = digits
    BY <1>6, <1>10, <2>1
  <2>5. (decoder \in Decoder)'
    BY <2>3 DEF Decoder
  <2> QED BY <2>3, <2>4, <2>5 DEF TypingInv
<1>11. CASE /\ key.scan # AltScan /\ ~key.extended /\ "scroll" \in mods
            /\ ~(decoder.czech /\ key.scan = DeadScan)
  BY <1>2, <1>11, HexadecimalStep
<1> QED BY <1>7, <1>8, <1>9, <1>10, <1>11

(* Only the user's keys reach the decoder. *)
LEMMA TypingStep == TypingInv /\ [HostNext]_hvars => TypingInv'
<1> SUFFICES ASSUME TypingInv, [HostNext]_hvars PROVE TypingInv'
  OBVIOUS
<1>1. CASE UNCHANGED typing
  BY <1>1 DEF typing, TypingInv, Decoder
<1>2. ASSUME NEW key \in Key, NEW mods \in Pressed[key], KeyDown(key, mods) PROVE TypingInv'
  BY <1>2, KeyDownTyping
<1>3. CASE ScrollUp
  <2>1. decoder' = ReleaseScroll(decoder) /\ digits' = <<>> /\ entered' = TRUE
    BY <1>3 DEF ScrollUp, TypingInv
  <2>2. decoder' \in Decoder /\ decoder'.pending = FALSE
    BY <2>1, ReleasedDecoder DEF TypingInv
  <2>3. (decoder \in Decoder)'
    BY <2>2 DEF Decoder
  <2> QED BY <2>1, <2>2, <2>3 DEF TypingInv
<1>4. CASE UNCHANGED hvars
  BY <1>1, <1>4 DEF hvars
<1>5. ASSUME NEW key, KeyUp(key) PROVE UNCHANGED typing
  BY <1>5 DEF KeyUp
<1>6. ASSUME NEW capture, MouseCapture(capture) PROVE UNCHANGED typing
  BY <1>6 DEF MouseCapture, MouseUsed
<1>7. ASSUME NEW button, NEW captures, ButtonDown(button, captures) PROVE UNCHANGED typing
  BY <1>7 DEF ButtonDown, MouseUsed
<1>8. ASSUME NEW button, ButtonUp(button) PROVE UNCHANGED typing
  BY <1>8 DEF ButtonUp, MouseUsed
<1>9. ASSUME NEW dx, NEW dy, Motion(dx, dy) PROVE UNCHANGED typing
  BY <1>9 DEF Motion, MouseUsed
<1>10. ASSUME NEW signals, TestSignalsSet(signals) PROVE UNCHANGED typing
  BY <1>10 DEF TestSignalsSet, MouseUsed
<1>11. Frame \/ Access \/ HostReset => UNCHANGED typing
  BY DEF Frame, Access, HostReset
<1>12. ASSUME NEW cycle, Synchronize(cycle) PROVE UNCHANGED typing
  BY <1>12 DEF Synchronize
<1>13. ASSUME NEW length, Complete(length) PROVE UNCHANGED typing
  BY <1>13 DEF Complete
<1> QED BY <1>1, <1>2, <1>3, <1>4, <1>5, <1>6, <1>7, <1>8, <1>9, <1>10, <1>11, <1>12,
           <1>13 DEF HostNext

LEMMA TypingStarts == HostInit => TypingInv
<1>1. ResetDecoder \in Decoder /\ ResetDecoder.pending = FALSE
  BY DEF ResetDecoder, Decoder
<1> QED BY <1>1 DEF HostInit, TypingInv

(* A byte entered with Scroll Lock is that of the two digits seen with it, *)
(* one after the other, for every table of scan codes and accents and      *)
(* every keyboard; language toggles and dead keys do not come between      *)
(* (AtKeyboard::translate and release_scroll).                             *)
THEOREM BytesAlwaysTyped == HostSpec => []BytesAreTyped
<1>1. HostInit => TypingInv
  BY TypingStarts
<1>2. TypingInv /\ [HostNext]_hvars => TypingInv'
  BY TypingStep
<1>3. TypingInv => BytesAreTyped
  BY DEF TypingInv, BytesAreTyped
<1> QED BY <1>1, <1>2, <1>3, PTL DEF HostSpec

----------------------------------------------------------------------------
(* The repeats of the held key. *)

LEMMA AccentIsByte ==
  ASSUME NEW dead \in {"acute", "caron"}, NEW letter \in 65 .. 90
  PROVE  Accent[dead][letter] \in Byte
<1>1. Accent \in [{"acute", "caron"} -> [65 .. 90 -> Byte]]
  BY AtKeyboardAssumption
<1>2. Accent[dead] \in [65 .. 90 -> Byte]
  BY <1>1
<1> QED BY <1>2

LEMMA OutputIsByte ==
  ASSUME NEW d, NEW code \in Byte
  PROVE  Output(d, code).code \in Byte
<1>1. code \in 0 .. 255
  BY DEF Byte
<1>2. CASE d.czech /\ code >= 192
  <2>1. (code \div 32) % 2 = 1 \/ code <= 223
    BY <1>1, <1>2
  <2> QED BY <1>1, <1>2, <2>1 DEF Output, Gives, Byte
<1>3. CASE ~(d.czech /\ code >= 192)
  BY <1>3 DEF Output, Gives
<1> QED BY <1>2, <1>3

LEMMA AccentedIsByte ==
  ASSUME NEW d, NEW code \in Byte, NEW shift
  PROVE  Accented(d, code, shift).code \in Byte
<1> DEFINE dead == IF "acute" \in d.dead THEN "acute" ELSE "caron"
           letter == code % 128
           upper == IF letter >= 96 THEN letter - 32 ELSE letter
           accent == IF letter \in 65 .. 122 /\ upper \in 65 .. 90 THEN Accent[dead][upper] ELSE 0
           result == IF accent = 0 THEN code ELSE (accent + (IF shift THEN 32 ELSE 0)) % 256
           used == [d EXCEPT !.dead = @ \ {dead}]
<1>1. dead \in {"acute", "caron"}
  OBVIOUS
<1>2. accent \in 0 .. 255
  <2>1. CASE letter \in 65 .. 122 /\ upper \in 65 .. 90
    <3> HIDE DEF dead, letter, upper
    <3> QED BY <1>1, <2>1, AccentIsByte DEF Byte
  <2>2. CASE ~(letter \in 65 .. 122 /\ upper \in 65 .. 90)
    <3> HIDE DEF dead, letter, upper
    <3> QED BY <2>2
  <2> QED BY <2>1, <2>2
<1> HIDE DEF accent
<1>3. result \in Byte
  BY <1>2 DEF Byte
<1>4. Accented(d, code, shift) = Output(used, result)
  BY Zenon DEF Accented, accent
<1> HIDE DEF used, result
<1> QED BY <1>3, <1>4, OutputIsByte

LEMMA ControlledIsByte ==
  ASSUME NEW d, NEW code \in Byte
  PROVE  Controlled(d, code).code \in Byte \cup {None}
<1>1. code % 128 \in 0 .. 127 /\ (code % 128) % 32 \in Byte
  BY DEF Byte
<1>2. CASE code % 128 < 63
  BY <1>2 DEF Controlled, Nothing, Gives
<1>3. CASE ~(code % 128 < 63) /\ code % 128 = 63
  <2>1. Controlled(d, code) = Output(d, code)
    BY <1>3 DEF Controlled
  <2> QED BY <2>1, OutputIsByte
<1>4. CASE ~(code % 128 < 63) /\ code % 128 # 63
  <2>1. Controlled(d, code) = Output(d, (code % 128) % 32)
    BY <1>4 DEF Controlled
  <2> QED BY <1>1, <2>1, OutputIsByte
<1> QED BY <1>2, <1>3, <1>4

LEMMA HexadecimalIsByte ==
  ASSUME NEW d \in Decoder, NEW code \in Byte
  PROVE  Hexadecimal(d, code).code \in Byte \cup {None}
<1>1. CASE Digit(code) = None
  BY <1>1 DEF Hexadecimal, Nothing, Gives
<1>2. CASE Digit(code) # None /\ d.pending
  <2>1. Digit(code) \in 0 .. 15 /\ d.high \in 0 .. 15
    BY <1>2, DigitRange DEF Decoder
  <2>2. d.high * 16 + Digit(code) \in Byte
    BY <2>1 DEF Byte
  <2>3. Hexadecimal(d, code) = Output(ReleaseScroll(d), d.high * 16 + Digit(code))
    BY <1>2 DEF Hexadecimal
  <2> QED BY <2>2, <2>3, OutputIsByte
<1>3. CASE Digit(code) # None /\ ~d.pending
  BY <1>3 DEF Hexadecimal, Nothing, Gives
<1> QED BY <1>1, <1>2, <1>3

LEMMA MainIsByte ==
  ASSUME NEW d \in Decoder, NEW key, key.scan \in Scan, NEW mods
  PROVE  Main(d, key.scan, mods).code \in Byte \cup {None}
<1> DEFINE code == CodeOf(d.czech, key, mods)
           result == Main(d, key.scan, mods)
<1>1. code \in Byte
  <2>1. d.czech \in BOOLEAN
    BY DEF Decoder
  <2> QED BY <2>1, CodeIsByte
<1>2. \/ result.code = None
      \/ result = Hexadecimal(d, code)
      \/ result = Accented(d, code, "shift" \in mods)
      \/ result = Controlled(d, code)
      \/ result = Output(d, code)
  BY DEF Main, Nothing, Gives, CodeOf, TableOf
<1> HIDE DEF result, code
<1> QED BY <1>1, <1>2, HexadecimalIsByte, AccentedIsByte, ControlledIsByte, OutputIsByte DEF result

LEMMA ExtraIsByte ==
  ASSUME NEW d, NEW scan \in Extended, NEW mods
  PROVE  Extra(d, scan, mods).code \in Byte \cup {None}
<1> DEFINE code == CASE scan = 90 -> 13
                     [] scan = 74 -> 47
                     [] OTHER -> IF "num" \in mods THEN 0 ELSE Navigation["shift" \in mods][scan]
<1>1. Navigation["shift" \in mods][scan] \in Byte
  <2>1. Navigation \in [BOOLEAN -> [Extended -> Byte]]
    BY AtKeyboardAssumption
  <2>2. \A shift \in BOOLEAN : Navigation[shift][scan] \in Byte
    BY <2>1
  <2>3. ("shift" \in mods) \in BOOLEAN
    OBVIOUS
  <2> QED BY <2>2, <2>3
<1>2. code \in Byte
  <2>1. 13 \in Byte /\ 47 \in Byte /\ 0 \in Byte
    BY DEF Byte
  <2> QED BY <1>1, <2>1
<1>3. Extra(d, scan, mods) = IF code = 0 THEN Nothing(d) ELSE Output(d, code)
  BY DEF Extra
<1> HIDE DEF code
<1> QED BY <1>2, <1>3, OutputIsByte DEF Nothing, Gives

LEMMA TranslateIsByte ==
  ASSUME NEW d \in Decoder, NEW key \in Key, NEW mods
  PROVE  Translate(d, key, mods).code \in Byte \cup {None}
<1> DEFINE entry == IF "scroll" \in mods THEN d ELSE ReleaseScroll(d)
<1>1. entry \in Decoder
  BY ReleasedDecoder
<1>2. key.scan \in IF key.extended THEN Extended ELSE Scan
  BY HostAssumption
<1>3. \/ Translate(d, key, mods).code = None
      \/ key.extended /\ Translate(d, key, mods) = Extra(entry, key.scan, mods)
      \/ ~key.extended /\ Translate(d, key, mods) = Main(entry, key.scan, mods)
  BY DEF Translate, Nothing, Gives
<1> HIDE DEF entry
<1> QED BY <1>1, <1>2, <1>3, ExtraIsByte, MainIsByte

(* Division with a remainder, and one period further. *)
LEMMA Division ==
  ASSUME NEW period \in Nat \ {0}, NEW n \in Nat
  PROVE  /\ n % period \in 0 .. period - 1 /\ n \div period \in Nat
         /\ n = period * (n \div period) + (n % period)
         /\ n < period => n \div period = 0
         /\ (n + period) \div period = n \div period + 1
         /\ (n + period) % period = n % period
<1>0. ASSUME NEW m \in Nat
      PROVE  /\ m % period \in 0 .. period - 1 /\ m \div period \in Nat
             /\ m = period * (m \div period) + (m % period)
  <2>1. m % period \in 0 .. period - 1
    OBVIOUS
  <2>2. m \div period \in Int /\ m - period * (m \div period) = m % period
    OBVIOUS
  <2>3. m \div period >= 0
    BY <2>1, <2>2
  <2>4. m \div period \in Nat
    BY <2>2, <2>3
  <2>5. \A x, y, z \in Int : x - y = z => x = y + z
    OBVIOUS
  <2>6. period * (m \div period) \in Int /\ m % period \in Int
    BY <2>1, <2>4
  <2>7. m = period * (m \div period) + (m % period)
    <3> DEFINE whole == period * (m \div period)
               rest == m % period
    <3>1. m - whole = rest /\ whole \in Int /\ rest \in Int
      BY <2>2, <2>6
    <3> HIDE DEF whole, rest
    <3>2. m = whole + rest
      BY <2>5, <3>1
    <3> QED BY <3>2 DEF whole, rest
  <2> QED BY <2>1, <2>4, <2>7
<1>1. /\ n % period \in 0 .. period - 1 /\ n \div period \in Nat
      /\ n = period * (n \div period) + (n % period)
  BY <1>0
<1>2. n < period => n \div period = 0
  OBVIOUS
<1>3. /\ (n + period) % period \in 0 .. period - 1 /\ (n + period) \div period \in Nat
      /\ n + period = period * ((n + period) \div period) + ((n + period) % period)
  <2>1. n + period \in Nat
    OBVIOUS
  <2> QED BY <1>0, <2>1
<1> DEFINE q == n \div period
           r == n % period
           qq == (n + period) \div period
           rr == (n + period) % period
<1>4. /\ q \in Nat /\ qq \in Nat /\ r \in 0 .. period - 1 /\ rr \in 0 .. period - 1
      /\ period * (q + 1) + r = period * qq + rr
  BY <1>1, <1>3
<1> HIDE DEF q, r, qq, rr
<1>5. qq = q + 1
  <2>1. period * (q + 1 - qq) = rr - r /\ rr - r < period /\ r - rr < period
    BY <1>4
  <2>2. CASE q + 1 > qq
    <3>1. q + 1 - qq >= 1
      BY <1>4, <2>2
    <3>2. period * (q + 1 - qq) >= period
      BY <1>4, <3>1
    <3> QED BY <1>4, <2>1, <3>2
  <2>3. CASE q + 1 < qq
    <3>1. qq - (q + 1) >= 1
      BY <1>4, <2>3
    <3>2. period * (qq - (q + 1)) >= period
      BY <1>4, <3>1
    <3>3. period * (qq - (q + 1)) = r - rr
      BY <1>4
    <3> QED BY <1>4, <2>1, <3>2, <3>3
  <2> QED BY <1>4, <2>2, <2>3
<1>6. rr = r
  BY <1>4, <1>5
<1> QED BY <1>1, <1>2, <1>5, <1>6 DEF q, r, qq, rr

(* The repeats are folded: age is that of the last code, or that of the    *)
(* first one with the delay still to come.                                 *)
KeysOnTime ==
  /\ kb \in KeyboardState
  /\ IF latest = NoPress THEN kb.held = NoPress /\ sent = 0
     ELSE /\ latest \in Key /\ kb.held # NoPress /\ kb.held.key = latest
          /\ age \in 0 .. RepeatDelay + RepeatInterval - 1
          /\ IF age < RepeatDelay THEN kb.wait = RepeatDelay - age /\ sent = 1
             ELSE kb.wait = RepeatDelay + RepeatInterval - age /\ sent = 2

LEMMA KeysOnTimeSuffices == KeysOnTime => RepeatsOnTime
<1> SUFFICES ASSUME KeysOnTime, latest # NoPress PROVE sent = Due(age)
  BY DEF KeysOnTime, RepeatsOnTime
<1>1. RepeatDelay \in Nat \ {0} /\ RepeatInterval \in Nat \ {0}
  BY KeyboardAssumption
<1>2. CASE age < RepeatDelay
  BY <1>2 DEF KeysOnTime, Due
<1>3. CASE ~(age < RepeatDelay)
  <2>1. age - RepeatDelay \in Nat /\ age - RepeatDelay < RepeatInterval
    BY <1>1, <1>3 DEF KeysOnTime
  <2>2. (age - RepeatDelay) \div RepeatInterval = 0
    BY <1>1, <2>1, Division
  <2> QED BY <1>3, <2>2 DEF KeysOnTime, Due
<1> QED BY <1>2, <1>3

LEMMA KeyDownOnTime ==
  ASSUME KeysOnTime, decoder \in Decoder, NEW key \in Key, NEW mods, KeyDown(key, mods)
  PROVE  KeysOnTime'
<1> DEFINE code == Translate(decoder, key, mods).code
<1>1. CASE code = None
  BY <1>1 DEF KeyDown, kvars, KeysOnTime, KeyboardState
<1>2. CASE code # None
  <2>1. Sends(key, code)
    BY <1>2 DEF KeyDown
  <2>2. code \in Code
    BY <1>2, TranslateIsByte, HostAssumption
  <2> HIDE DEF code
  <2>3. [key |-> key, code |-> code] \in Press /\ NoPress \notin Press
    BY <2>2, KeyboardAssumption DEF Press
  <2>4. RepeatDelay \in Nat \ {0} /\ RepeatInterval \in Nat \ {0} /\ NoPress \notin Key
    BY KeyboardAssumption, HostAssumption
  <2>5. CASE key = latest
    <3>1. ~Emits(kb, key)
      BY <2>4, <2>5 DEF KeysOnTime, Emits, Holds
    <3>2. kb' = kb /\ latest' = latest /\ sent' = sent + 0 /\ age' = age
      BY <2>1, <2>5, <3>1 DEF Sends, KeyPressed, Emitted
    <3>3. sent' = sent
      BY <3>2 DEF KeysOnTime
    <3> QED BY <3>2, <3>3 DEF KeysOnTime, KeyboardState
  <2>6. CASE key # latest
    <3>1. Emits(kb, key)
      BY <2>6 DEF KeysOnTime, Emits, Holds
    <3>2. /\ kb' = [held |-> [key |-> key, code |-> code], wait |-> RepeatDelay]
          /\ latest' = key /\ sent' = 1 /\ age' = 0
      BY <2>1, <2>6, <3>1 DEF Sends, KeyPressed, Emitted
    <3>3. kb' \in KeyboardState
      BY <2>3, <2>4, <3>2 DEF KeyboardState
    <3>4. kb'.held # NoPress /\ kb'.held.key = key /\ kb'.wait = RepeatDelay
      BY <2>3, <3>2
    <3>5. (kb \in KeyboardState)'
      BY <3>3 DEF KeyboardState
    <3> QED BY <2>4, <3>2, <3>4, <3>5 DEF KeysOnTime
  <2> QED BY <2>5, <2>6
<1> QED BY <1>1, <1>2

LEMMA ReleasedOnTime == kb' = ResetKeyboard /\ Released => KeysOnTime'
<1> SUFFICES ASSUME kb' = ResetKeyboard, Released PROVE KeysOnTime'
  OBVIOUS
<1>1. RepeatDelay \in Nat \ {0}
  BY KeyboardAssumption
<1>2. kb' \in KeyboardState /\ kb'.held = NoPress
  BY <1>1 DEF ResetKeyboard, KeyboardState
<1>3. (kb \in KeyboardState)'
  BY <1>2 DEF KeyboardState
<1> QED BY <1>2, <1>3 DEF KeysOnTime, Released

LEMMA KeyUpOnTime ==
  ASSUME KeysOnTime, NEW key \in Key, KeyUp(key)
  PROVE  KeysOnTime'
<1>1. key # NoPress
  BY HostAssumption
<1>2. CASE key = latest
  <2>1. Holds(kb, key)
    BY <1>1, <1>2 DEF KeysOnTime, Holds
  <2> QED BY <1>2, <2>1, ReleasedOnTime DEF KeyUp, KeyReleased
<1>3. CASE key # latest
  <2>1. ~Holds(kb, key)
    BY <1>3 DEF KeysOnTime, Holds
  <2> QED BY <1>3, <2>1 DEF KeyUp, KeyReleased, KeysOnTime, KeyboardState
<1> QED BY <1>2, <1>3

(* The time that passes, however advance_time cuts it. *)
LEMMA AdvanceOnTime ==
  ASSUME KeysOnTime, NEW ticks \in Nat, HostAdvance(ticks)
  PROVE  KeysOnTime'
<1> DEFINE older == age + ticks
           left == ticks - kb.wait
           q == left \div RepeatInterval
           r == left % RepeatInterval
<1>1. /\ RepeatDelay \in Nat \ {0} /\ RepeatInterval \in Nat \ {0}
      /\ RepeatInterval <= RepeatDelay
  BY KeyboardAssumption
<1>2. kb \in KeyboardState /\ latest' = latest /\ kb' = Waited(kb, ticks)
  BY DEF HostAdvance, KeysOnTime
<1>3. CASE latest = NoPress
  <2>1. kb' = kb /\ age' = age /\ sent' = sent
    BY <1>3 DEF HostAdvance, KeysOnTime, Waited
  <2> QED BY <1>2, <2>1 DEF KeysOnTime, KeyboardState
<1>4. CASE latest # NoPress
  <2>1. /\ latest \in Key /\ kb.held # NoPress /\ kb.held.key = latest
        /\ age \in 0 .. RepeatDelay + RepeatInterval - 1
        /\ IF age < RepeatDelay THEN kb.wait = RepeatDelay - age /\ sent = 1
           ELSE kb.wait = RepeatDelay + RepeatInterval - age /\ sent = 2
    BY <1>4 DEF KeysOnTime
  <2>2. /\ age' = older - RepeatInterval * Folded(older)
        /\ sent' = sent + Repeats(kb, ticks) - Folded(older)
    BY <1>4 DEF HostAdvance
  <2>3. older \in Nat /\ kb.wait \in Nat
    BY <1>1, <2>1
  <2>4. ASSUME NEW w \in 1 .. RepeatDelay, kb' = [kb EXCEPT !.wait = w],
               age' \in 0 .. RepeatDelay + RepeatInterval - 1,
               IF age' < RepeatDelay THEN w = RepeatDelay - age' /\ sent' = 1
               ELSE w = RepeatDelay + RepeatInterval - age' /\ sent' = 2
        PROVE  KeysOnTime'
    <3>1. kb' \in KeyboardState /\ kb'.held = kb.held /\ kb'.wait = w
      BY <1>2, <2>4 DEF KeyboardState
    <3>2. (kb \in KeyboardState)'
      BY <3>1 DEF KeyboardState
    <3> QED BY <1>2, <1>4, <2>1, <2>4, <3>1, <3>2 DEF KeysOnTime
  <2>5. CASE ticks < kb.wait
    <3>1. Repeats(kb, ticks) = 0 /\ kb' = [kb EXCEPT !.wait = kb.wait - ticks]
      BY <1>2, <2>1, <2>5 DEF Repeats, Waited
    <3>2. older < RepeatDelay + RepeatInterval
      BY <1>1, <2>1, <2>3, <2>5
    <3>3. Folded(older) = 0
      BY <3>2 DEF Folded
    <3>4. age' = older - RepeatInterval * 0 /\ sent' = sent + 0 - 0
      BY <2>2, <3>1, <3>3
    <3>5. age' = older /\ sent' = sent
      BY <1>1, <2>1, <2>3, <3>4
    <3>6. kb.wait - ticks \in 1 .. RepeatDelay
      BY <1>1, <2>1, <2>5
    <3>7. IF age' < RepeatDelay THEN kb.wait - ticks = RepeatDelay - age' /\ sent' = 1
          ELSE kb.wait - ticks = RepeatDelay + RepeatInterval - age' /\ sent' = 2
      BY <1>1, <2>1, <2>5, <3>5
    <3>8. age' \in 0 .. RepeatDelay + RepeatInterval - 1
      BY <1>1, <2>3, <3>2, <3>5
    <3> QED BY <2>4, <3>1, <3>6, <3>7, <3>8
  <2>6. CASE ~(ticks < kb.wait)
    <3>1. left \in Nat
      BY <2>3, <2>6
    <3>2. Repeats(kb, ticks) = 1 + q /\ kb' = [kb EXCEPT !.wait = RepeatInterval - r]
      BY <1>2, <2>1, <2>6 DEF Repeats, Waited
    <3> HIDE DEF left
    <3>3. /\ r \in 0 .. RepeatInterval - 1 /\ left = RepeatInterval * q + r /\ q \in Nat
          /\ left < RepeatInterval => q = 0
          /\ (left + RepeatInterval) \div RepeatInterval = q + 1
      BY <1>1, <3>1, Division
    <3>4. age' = RepeatDelay + r /\ sent' = 2
      <4>1. CASE age < RepeatDelay
        <5>1. older - RepeatDelay = left /\ sent = 1
          BY <1>1, <2>1, <4>1 DEF left
        <5>2. Folded(older) = q
          <6>1. CASE older < RepeatDelay + RepeatInterval
            <7>1. left < RepeatInterval
              BY <1>1, <2>3, <5>1, <6>1
            <7> QED BY <3>3, <6>1, <7>1 DEF Folded
          <6>2. CASE ~(older < RepeatDelay + RepeatInterval)
            BY <5>1, <6>2 DEF Folded
          <6> QED BY <6>1, <6>2
        <5>3. age' = older - RepeatInterval * q /\ sent' = 1 + (1 + q) - q
          BY <2>2, <3>2, <5>1, <5>2
        <5> HIDE DEF older, q, r
        <5>4. RepeatInterval * q \in Int
          BY <1>1, <3>3
        <5> QED BY <1>1, <2>3, <3>1, <3>3, <5>1, <5>3, <5>4
      <4>2. CASE ~(age < RepeatDelay)
        <5>1. older - RepeatDelay = left + RepeatInterval /\ sent = 2
          BY <1>1, <2>1, <4>2 DEF left
        <5>2. ~(older < RepeatDelay + RepeatInterval)
          BY <1>1, <2>3, <3>1, <5>1
        <5>3. Folded(older) = q + 1
          BY <3>3, <5>1, <5>2 DEF Folded
        <5>4. age' = older - RepeatInterval * (q + 1) /\ sent' = 2 + (1 + q) - (q + 1)
          BY <2>2, <3>2, <5>1, <5>3
        <5> HIDE DEF older, q, r
        <5>5. RepeatInterval * (q + 1) = RepeatInterval * q + RepeatInterval
          BY <1>1, <3>3
        <5>6. RepeatInterval * q \in Int
          BY <1>1, <3>3
        <5> QED BY <1>1, <2>3, <3>1, <3>3, <5>1, <5>4, <5>5, <5>6
      <4> QED BY <4>1, <4>2
    <3> HIDE DEF r, q
    <3>5. RepeatInterval - r \in 1 .. RepeatDelay
      BY <1>1, <3>3
    <3>6. /\ age' \in 0 .. RepeatDelay + RepeatInterval - 1 /\ ~(age' < RepeatDelay)
          /\ RepeatInterval - r = RepeatDelay + RepeatInterval - age'
      BY <1>1, <3>3, <3>4
    <3> QED BY <2>4, <3>2, <3>4, <3>5, <3>6
  <2> QED BY <2>5, <2>6
<1> QED BY <1>3, <1>4

LEMMA KeysStep == KeysOnTime /\ TypingInv /\ ClockInv /\ [HostNext]_hvars => KeysOnTime'
<1> SUFFICES ASSUME KeysOnTime, TypingInv, ClockInv, [HostNext]_hvars PROVE KeysOnTime'
  OBVIOUS
<1>0. TicksPerCycle \in Nat
  BY ClockAssumption
<1>1. CASE UNCHANGED kvars
  BY <1>1 DEF kvars, KeysOnTime, KeyboardState
<1>2. ASSUME NEW key \in Key, NEW mods \in Pressed[key], KeyDown(key, mods) PROVE KeysOnTime'
  BY <1>2, KeyDownOnTime DEF TypingInv
<1>3. ASSUME NEW key \in Key, KeyUp(key) PROVE KeysOnTime'
  BY <1>3, KeyUpOnTime
<1>4. CASE HostReset
  BY <1>4, ReleasedOnTime DEF HostReset
<1>5. ASSUME NEW cycle \in 1 .. Max(Instructions), Synchronize(cycle) PROVE KeysOnTime'
  <2>1. cycle * TicksPerCycle \in Nat
    BY <1>0, LongestInstruction DEF Longest
  <2> QED BY <1>5, <2>1, AdvanceOnTime DEF Synchronize
<1>6. ASSUME NEW length \in Instructions, Complete(length) PROVE KeysOnTime'
  <2>1. length \in Nat /\ clock.synchronized \in Nat /\ length - clock.synchronized >= 0
    BY <1>6, LongestInstruction DEF Complete, CompleteInstruction, ClockInv, ClockState
  <2>2. length - clock.synchronized \in Nat
    BY <2>1
  <2>3. (length - clock.synchronized) * TicksPerCycle \in Nat
    BY <1>0, <2>2
  <2> QED BY <1>1, <1>6, <2>3, AdvanceOnTime DEF Complete
<1>7. ScrollUp \/ Frame \/ Access => UNCHANGED kvars
  BY DEF ScrollUp, Frame, Access
<1>8. ASSUME NEW capture, MouseCapture(capture) PROVE UNCHANGED kvars
  BY <1>8 DEF MouseCapture, MouseUsed
<1>9. ASSUME NEW button, NEW captures, ButtonDown(button, captures) PROVE UNCHANGED kvars
  BY <1>9 DEF ButtonDown, MouseUsed
<1>10. ASSUME NEW button, ButtonUp(button) PROVE UNCHANGED kvars
  BY <1>10 DEF ButtonUp, MouseUsed
<1>11. ASSUME NEW dx, NEW dy, Motion(dx, dy) PROVE UNCHANGED kvars
  BY <1>11 DEF Motion, MouseUsed
<1>12. ASSUME NEW signals, TestSignalsSet(signals) PROVE UNCHANGED kvars
  BY <1>12 DEF TestSignalsSet, MouseUsed
<1>13. CASE UNCHANGED hvars
  BY <1>1, <1>13 DEF hvars
<1> QED BY <1>1, <1>2, <1>3, <1>4, <1>5, <1>6, <1>7, <1>8, <1>9, <1>10, <1>11, <1>12,
           <1>13 DEF HostNext

LEMMA HostStarts == HostInit => KeysOnTime /\ TypingInv /\ ClockInv
<1> SUFFICES ASSUME HostInit PROVE KeysOnTime /\ TypingInv /\ ClockInv
  OBVIOUS
<1>1. KeysOnTime
  <2>1. RepeatDelay \in Nat \ {0}
    BY KeyboardAssumption
  <2>2. ResetKeyboard \in KeyboardState /\ ResetKeyboard.held = NoPress
    BY <2>1 DEF ResetKeyboard, KeyboardState
  <2> QED BY <2>2 DEF HostInit, KeysOnTime
<1>2. TypingInv
  BY TypingStarts
<1>3. ClockInv
  BY ClockStarts
<1> QED BY <1>1, <1>2, <1>3

(* The key pressed last has sent the codes it owes for the time it is      *)
(* held, and none after its release, for every delay, every interval not   *)
(* longer than it and every cut of the time (Keyboard::advance).           *)
THEOREM RepeatsAlwaysOnTime == HostSpec => []RepeatsOnTime
<1> DEFINE Inv == KeysOnTime /\ TypingInv /\ ClockInv
<1>1. HostInit => Inv
  BY HostStarts
<1>2. Inv /\ [HostNext]_hvars => Inv'
  BY KeysStep, TypingStep, ClockStep
<1>3. Inv => RepeatsOnTime
  BY KeysOnTimeSuffices
<1> QED BY <1>1, <1>2, <1>3, PTL DEF HostSpec

----------------------------------------------------------------------------
(* Induction and recursion over the numbers, with sets and functions for   *)
(* parameters.                                                             *)
LEMMA Counting ==
  ASSUME NEW P, 0 \in P, \A n \in Nat : n \in P => n + 1 \in P
  PROVE  \A n \in Nat : n \in P
<1> DEFINE T == Nat \ P
<1>1. SUFFICES ASSUME T # {} PROVE FALSE
  OBVIOUS
<1>2. PICK x \in T : \A y \in T : ~(<<y, x>> \in OpToRel(<, Nat))
  <2>1. T \subseteq Nat
    OBVIOUS
  <2> QED BY <1>1, <2>1, NatLessThanWellFounded, WFMin
<1>3. \A y \in T : ~(y < x)
  BY <1>2 DEF OpToRel
<1>4. x \in Nat /\ x # 0 /\ x \notin P
  OBVIOUS
<1>5. x - 1 \in Nat /\ x - 1 < x /\ (x - 1) + 1 = x
  BY <1>4
<1>6. x - 1 \in P
  BY <1>3, <1>5
<1> QED BY <1>4, <1>5, <1>6

Runs(f, S, a, step) ==
  /\ f \in [Nat -> S] /\ f[0] = a
  /\ \A n \in Nat : f[n + 1] = step[<<n, f[n]>>]

LEMMA Recursion ==
  ASSUME NEW S, NEW a \in S, NEW step \in [Nat \X S -> S]
  PROVE  \E f : Runs(f, S, a, step)
<1> DEFINE Prefix(n, g) == /\ g \in [0 .. n -> S] /\ g[0] = a
                           /\ \A i \in 0 .. n - 1 : g[i + 1] = step[<<i, g[i]>>]
           P == {n \in Nat : \E g : Prefix(n, g)}
           Q == {n \in Nat : \A j, k \in Nat : \A g, h :
                   n <= j /\ n <= k /\ Prefix(j, g) /\ Prefix(k, h) => g[n] = h[n]}
           of(n) == CHOOSE g : Prefix(n, g)
           f == [n \in Nat |-> of(n)[n]]
<1>1. \A n \in Nat : n \in P
  <2>1. 0 \in P
    <3>1. Prefix(0, [i \in 0 .. 0 |-> a])
      OBVIOUS
    <3> QED BY <3>1
  <2>2. ASSUME NEW n \in Nat, n \in P PROVE n + 1 \in P
    <3>1. PICK g : Prefix(n, g)
      BY <2>2
    <3> DEFINE h == [i \in 0 .. n + 1 |-> IF i <= n THEN g[i] ELSE step[<<n, g[n]>>]]
    <3>2. g \in [0 .. n -> S] /\ g[n] \in S /\ step[<<n, g[n]>>] \in S
      BY <3>1
    <3>3. h \in [0 .. n + 1 -> S]
      <4>1. \A i \in 0 .. n + 1 : i <= n => i \in 0 .. n
        OBVIOUS
      <4> QED BY <3>2, <4>1
    <3>4. \A i \in 0 .. n : h[i] = g[i]
      OBVIOUS
    <3>5. h[n + 1] = step[<<n, g[n]>>] /\ n \in 0 .. n /\ 0 \in 0 .. n
      OBVIOUS
    <3> HIDE DEF h
    <3>6. ASSUME NEW i \in 0 .. (n + 1) - 1 PROVE h[i + 1] = step[<<i, h[i]>>]
      <4>1. CASE i = n
        BY <3>4, <3>5, <4>1
      <4>2. CASE i # n
        <5>1. i \in 0 .. n - 1 /\ i \in 0 .. n /\ i + 1 \in 0 .. n
          BY <4>2
        <5> QED BY <3>1, <3>4, <5>1
      <4> QED BY <4>1, <4>2
    <3>7. h[0] = a
      BY <3>1, <3>4, <3>5
    <3>8. Prefix(n + 1, h)
      BY <3>3, <3>6, <3>7
    <3> HIDE DEF Prefix
    <3> QED BY <3>8
  <2> HIDE DEF P
  <2> QED BY <2>1, <2>2, Counting
<1>2. \A n \in Nat : n \in Q
  <2>1. 0 \in Q
    OBVIOUS
  <2>2. ASSUME NEW n \in Nat, n \in Q PROVE n + 1 \in Q
    <3>1. SUFFICES ASSUME NEW j \in Nat, NEW k \in Nat, NEW g, NEW h,
                          n + 1 <= j, n + 1 <= k, Prefix(j, g), Prefix(k, h)
                   PROVE  g[n + 1] = h[n + 1]
      OBVIOUS
    <3>2. n <= j /\ n <= k /\ n \in 0 .. j - 1 /\ n \in 0 .. k - 1
      BY <3>1
    <3>3. g[n] = h[n]
      <4> HIDE DEF Prefix
      <4> QED BY <2>2, <3>1, <3>2
    <3>4. g[n + 1] = step[<<n, g[n]>>] /\ h[n + 1] = step[<<n, h[n]>>]
      BY <3>1, <3>2
    <3> QED BY <3>3, <3>4
  <2> HIDE DEF Q
  <2> QED BY <2>1, <2>2, Counting
<1>3. \A n \in Nat : Prefix(n, of(n))
  <2> HIDE DEF Prefix
  <2> QED BY <1>1
<1>4. \A n \in Nat : of(n)[n] \in S
  <2> HIDE DEF of
  <2>1. ASSUME NEW n \in Nat PROVE of(n)[n] \in S
    <3>1. of(n) \in [0 .. n -> S] /\ n \in 0 .. n
      BY <1>3
    <3> QED BY <3>1
  <2> QED BY <2>1
<1>5. f \in [Nat -> S] /\ f[0] = a
  <2> HIDE DEF of
  <2>1. of(0)[0] = a
    BY <1>3
  <2> QED BY <1>4, <2>1
<1>6. ASSUME NEW n \in Nat PROVE f[n + 1] = step[<<n, f[n]>>]
  <2>1. Prefix(n, of(n)) /\ Prefix(n + 1, of(n + 1)) /\ n + 1 \in Nat
    <3>1. n + 1 \in Nat
      OBVIOUS
    <3> HIDE DEF of, Prefix
    <3> QED BY <1>3, <3>1
  <2>2. of(n + 1)[n + 1] = step[<<n, of(n + 1)[n]>>]
    <3>1. n \in 0 .. (n + 1) - 1
      OBVIOUS
    <3> HIDE DEF of
    <3> QED BY <2>1, <3>1
  <2>3. of(n + 1)[n] = of(n)[n]
    <3>1. n <= n /\ n <= n + 1 /\ n \in Q
      BY <1>2
    <3> HIDE DEF of, Prefix
    <3> QED BY <2>1, <3>1
  <2> HIDE DEF of
  <2> QED BY <2>1, <2>2, <2>3
<1> HIDE DEF f
<1>7. Runs(f, S, a, step)
  BY <1>5, <1>6 DEF Runs
<1> QED BY <1>7

(* A recursive definition has a solution if it only looks at what a        *)
(* measure says is smaller.                                                *)
Descends(step, D, S, m) ==
  /\ m \in [D -> Nat] /\ step \in [[D -> S] -> [D -> S]]
  /\ \A g, h \in [D -> S] : \A x \in D :
       (\A y \in D : m[y] < m[x] => g[y] = h[y]) => step[g][x] = step[h][x]

LEMMA Fixpoint ==
  ASSUME NEW D, NEW S, S # {}, NEW m, NEW step, Descends(step, D, S, m)
  PROVE  \E f \in [D -> S] : f = step[f]
<1>0. /\ m \in [D -> Nat] /\ step \in [[D -> S] -> [D -> S]]
      /\ \A g, h \in [D -> S] : \A x \in D :
           (\A y \in D : m[y] < m[x] => g[y] = h[y]) => step[g][x] = step[h][x]
  BY DEF Descends
<1> DEFINE T == [D -> S]
           next == [p \in Nat \X T |-> step[p[2]]]
           start == [x \in D |-> CHOOSE s \in S : TRUE]
<1>1. start \in T /\ next \in [Nat \X T -> T]
  BY <1>0
<1>2. PICK G : Runs(G, T, start, next)
  <2> HIDE DEF T, start, next
  <2> QED BY <1>1, Recursion
<1>3. G \in [Nat -> T] /\ \A n \in Nat : G[n] \in T /\ G[n + 1] = step[G[n]]
  <2>1. G \in [Nat -> T] /\ \A n \in Nat : G[n + 1] = next[<<n, G[n]>>]
    BY <1>2 DEF Runs
  <2>2. \A n \in Nat : \A g \in T : next[<<n, g>>] = step[g]
    OBVIOUS
  <2> HIDE DEF T, next
  <2> QED BY <2>1, <2>2
<1> HIDE DEF start, next
<1> DEFINE Steady == {n \in Nat : \A x \in D : m[x] < n => G[n + 1][x] = G[n][x]}
           f == [x \in D |-> G[m[x] + 1][x]]
           Settled == {n \in Nat : \A x \in D : m[x] < n => G[n][x] = f[x]}
<1>4. \A n \in Nat : n \in Steady
  <2>1. 0 \in Steady
    BY <1>0
  <2>2. ASSUME NEW n \in Nat, n \in Steady PROVE n + 1 \in Steady
    <3>1. SUFFICES ASSUME NEW x \in D, m[x] < n + 1
                   PROVE  G[(n + 1) + 1][x] = G[n + 1][x]
      OBVIOUS
    <3>2. \A y \in D : m[y] < m[x] => G[n + 1][y] = G[n][y]
      BY <1>0, <2>2, <3>1
    <3>3. n + 1 \in Nat /\ G[n + 1] \in T /\ G[n] \in T
            /\ G[(n + 1) + 1] = step[G[n + 1]] /\ G[n + 1] = step[G[n]]
      BY <1>3
    <3> QED BY <1>0, <3>2, <3>3
  <2> HIDE DEF Steady
  <2> QED BY <2>1, <2>2, Counting
<1>5. \A n \in Nat : n \in Settled
  <2>1. 0 \in Settled
    BY <1>0
  <2>2. ASSUME NEW n \in Nat, n \in Settled PROVE n + 1 \in Settled
    <3>1. SUFFICES ASSUME NEW x \in D, m[x] < n + 1 PROVE G[n + 1][x] = f[x]
      OBVIOUS
    <3>2. CASE m[x] = n
      BY <3>2
    <3>3. CASE m[x] # n
      <4>1. m[x] < n
        BY <1>0, <3>1, <3>3
      <4> QED BY <1>4, <2>2, <4>1
    <3> QED BY <3>2, <3>3
  <2> HIDE DEF Settled
  <2> QED BY <2>1, <2>2, Counting
<1>6. f \in T
  BY <1>0, <1>3
<1>7. ASSUME NEW x \in D PROVE f[x] = step[f][x]
  <2>1. m[x] \in Nat /\ G[m[x]] \in T /\ G[m[x] + 1] = step[G[m[x]]]
    BY <1>0, <1>3
  <2>2. f[x] = step[G[m[x]]][x]
    BY <2>1
  <2>3. \A y \in D : m[y] < m[x] => G[m[x]][y] = f[y]
    BY <1>5, <2>1
  <2> HIDE DEF f
  <2> QED BY <1>0, <1>6, <2>1, <2>2, <2>3
<1>8. step[f] \in T
  <2> HIDE DEF f
  <2> QED BY <1>0, <1>6
<1>9. f = step[f]
  <2> HIDE DEF f
  <2> QED BY <1>6, <1>7, <1>8
<1> QED BY <1>6, <1>9

(* What holds for a point if it holds for all smaller ones holds for all.  *)
LEMMA Descent ==
  ASSUME NEW D, NEW m \in [D -> Nat], NEW P,
         \A x \in D : (\A y \in D : m[y] < m[x] => y \in P) => x \in P
  PROVE  \A x \in D : x \in P
<1> DEFINE Q == {n \in Nat : \A x \in D : m[x] < n => x \in P}
<1>1. 0 \in Q
  OBVIOUS
<1>2. ASSUME NEW n \in Nat, n \in Q PROVE n + 1 \in Q
  <2>1. SUFFICES ASSUME NEW x \in D, m[x] < n + 1 PROVE x \in P
    OBVIOUS
  <2>2. \A y \in D : m[y] < m[x] => y \in P
    BY <1>2, <2>1
  <2> QED BY <2>2
<1>3. \A n \in Nat : n \in Q
  <2> HIDE DEF Q
  <2> QED BY <1>1, <1>2, Counting
<1>4. ASSUME NEW x \in D PROVE x \in P
  <2>1. m[x] + 1 \in Q /\ m[x] < m[x] + 1
    BY <1>3
  <2> QED BY <2>1
<1> QED BY <1>4

----------------------------------------------------------------------------
(* The mouse. *)

(* The mouse in the middle of a call, with ticks of any number. *)
Turning == [signals : SUBSET Wire, phase : [Axis -> 0 .. 3], pending : [Axis -> Int],
            ticks : Int, yNext : BOOLEAN, latch : BOOLEAN]

QueueSize(m) == Size(m.pending["x"]) + Size(m.pending["y"])
Balanced(m, t) ==
  /\ t["x"] = (m.phase["x"] - m.pending["x"]) % 4
  /\ t["y"] = (m.phase["y"] + m.pending["y"]) % 4
ShowsPhase(m) == \A a \in Axis : m.signals \cap WiresOf[a] = Gray(a, m.phase[a])

LEMMA MinOfTwo ==
  ASSUME NEW a \in Int, NEW b \in Int
  PROVE  Min({a, b}) = IF a <= b THEN a ELSE b
<1>1. \E x \in {a, b} : \A y \in {a, b} : x =< y
  BY SMT
<1>2. Min({a, b}) \in {a, b} /\ \A y \in {a, b} : Min({a, b}) =< y
  BY <1>1, Zenon DEF Min
<1> HIDE DEF Min
<1> QED BY <1>2

LEMMA MaxOfTwo ==
  ASSUME NEW a \in Int, NEW b \in Int
  PROVE  Max({a, b}) = IF a <= b THEN b ELSE a
<1>1. \E x \in {a, b} : \A y \in {a, b} : x >= y
  BY SMT
<1>2. Max({a, b}) \in {a, b} /\ \A y \in {a, b} : Max({a, b}) >= y
  BY <1>1, Zenon DEF Max
<1> QED BY <1>2

LEMMA Axes == Axis = {"x", "y"} /\ WiresOf["x"] = {"AX", "BX"} /\ WiresOf["y"] = {"AY", "BY"}
BY DEF Axis, WiresOf

LEMMA GrayWires ==
  ASSUME NEW a \in Axis, NEW phase
  PROVE  Gray(a, phase) \subseteq WiresOf[a]
<1>1. CASE a = "x" BY <1>1, Axes DEF Gray
<1>2. CASE a = "y" BY <1>2, Axes DEF Gray
<1> QED BY <1>1, <1>2, Axes

LEMMA WiresApart ==
  /\ \A a \in Axis : WiresOf[a] \subseteq Wire /\ WiresOf[a] \cap Button = {}
  /\ WiresOf["x"] \cap WiresOf["y"] = {}
BY Axes DEF Wire, Button

(* Every pair of levels is that of one phase. *)
LEMMA PhaseIsShown ==
  ASSUME NEW a \in Axis, NEW signals
  PROVE  /\ PhaseOf(a, signals) \in 0 .. 3
         /\ Gray(a, PhaseOf(a, signals)) = signals \cap WiresOf[a]
<1>1. \E phase \in 0 .. 3 : Gray(a, phase) = signals \cap WiresOf[a]
  <2> DEFINE A == IF a = "x" THEN "AX" ELSE "AY"
             B == IF a = "x" THEN "BX" ELSE "BY"
  <2>1. A # B /\ WiresOf[a] = {A, B}
    BY Axes
  <2>2. \A phase : Gray(a, phase) = {w \in {A} : phase \in GrayA} \cup {w \in {B} : phase \in GrayB}
    BY Axes DEF Gray
  <2> HIDE DEF A, B
  <2>3. \A phase : Gray(a, phase) = (IF phase \in {1, 2} THEN {A} ELSE {})
                                      \cup (IF phase \in {2, 3} THEN {B} ELSE {})
    BY <2>2 DEF GrayA, GrayB
  <2>4. /\ Gray(a, 0) = {} /\ Gray(a, 1) = {A} /\ Gray(a, 2) = {A, B} /\ Gray(a, 3) = {B}
    BY <2>3
  <2>5. signals \cap WiresOf[a] \in {{}, {A}, {A, B}, {B}}
    BY <2>1
  <2> QED BY <2>4, <2>5
<1> QED BY <1>1, Zenon DEF PhaseOf

(* What an edge does, field by field. *)
LEMMA EdgeFields ==
  ASSUME NEW m \in Turning, NEW open \in BOOLEAN
  PROVE  LET a == NextAxis(m)
             p == (m.phase[a] + Forward(a, m.pending[a] > 0)) % 4
             e == Edge(m, open)
         IN /\ a \in Axis /\ p \in 0 .. 3
            /\ e \in Turning
            /\ e.pending = [m.pending EXCEPT ![a] = @ + (IF m.pending[a] > 0 THEN -1 ELSE 1)]
            /\ e.phase = [m.phase EXCEPT ![a] = p]
            /\ e.ticks = m.ticks - EdgeInterval
            /\ e.yNext = IF Both(m) THEN ~m.yNext ELSE m.yNext
            /\ e.signals = (m.signals \ WiresOf[a]) \cup Gray(a, p)
            /\ e.latch = (m.latch \/ (open /\ e.signals # m.signals))
<1> DEFINE a == NextAxis(m)
           positive == m.pending[a] > 0
           p == (m.phase[a] + Forward(a, positive)) % 4
           e == Edge(m, open)
           signals == (m.signals \ WiresOf[a]) \cup Gray(a, p)
           turned == [m EXCEPT !.pending[a] = @ + (IF positive THEN -1 ELSE 1),
                               !.phase[a] = p,
                               !.ticks = @ - EdgeInterval,
                               !.yNext = IF Both(m) THEN ~@ ELSE @]
<1>1. a \in Axis
  BY Axes DEF NextAxis
<1>2. Forward(a, positive) \in {1, 3}
  BY DEF Forward
<1>3. m.phase[a] \in 0 .. 3 /\ m.pending[a] \in Int /\ EdgeInterval \in Int
  BY <1>1, MouseAssumption DEF Turning
<1>4. p \in 0 .. 3
  BY <1>2, <1>3
<1>5. e = [turned EXCEPT !.signals = signals, !.latch = @ \/ (open /\ signals # turned.signals)]
  <2>1. e = UpdateSignals(turned, open, signals)
    BY Zenon DEF Edge
  <2> QED BY <2>1, Zenon DEF UpdateSignals
<1> HIDE DEF a, p, signals, e
<1>6. /\ turned \in Turning
      /\ turned.pending = [m.pending EXCEPT ![a] = @ + (IF positive THEN -1 ELSE 1)]
      /\ turned.phase = [m.phase EXCEPT ![a] = p]
      /\ turned.ticks = m.ticks - EdgeInterval
      /\ turned.yNext = IF Both(m) THEN ~m.yNext ELSE m.yNext
      /\ turned.signals = m.signals /\ turned.latch = m.latch
  <2> DEFINE pending == [m.pending EXCEPT ![a] = @ + (IF positive THEN -1 ELSE 1)]
             phase == [m.phase EXCEPT ![a] = p]
             ticks == m.ticks - EdgeInterval
             yNext == IF Both(m) THEN ~m.yNext ELSE m.yNext
  <2>1. pending \in [Axis -> Int] /\ phase \in [Axis -> 0 .. 3] /\ ticks \in Int /\ yNext \in BOOLEAN
    <3>1. /\ m.phase \in [Axis -> 0 .. 3] /\ m.pending \in [Axis -> Int]
          /\ m.ticks \in Int /\ m.yNext \in BOOLEAN
      BY DEF Turning
    <3>2. \A n \in Int : n + 1 \in Int /\ n + -1 \in Int
      OBVIOUS
    <3>3. pending \in [Axis -> Int]
      BY <1>3, <3>1, <3>2
    <3>4. phase \in [Axis -> 0 .. 3]
      BY <1>4, <3>1
    <3>5. ticks \in Int
      BY <1>3, <3>1
    <3>6. yNext \in BOOLEAN
      BY <3>1, Zenon
    <3> QED BY <3>3, <3>4, <3>5, <3>6
  <2>2. turned = [m EXCEPT !.pending = pending, !.phase = phase, !.ticks = ticks, !.yNext = yNext]
    BY Zenon
  <2> HIDE DEF pending, phase, ticks, yNext, turned
  <2>3. /\ turned \in Turning /\ turned.pending = pending /\ turned.phase = phase
        /\ turned.ticks = ticks /\ turned.yNext = yNext
        /\ turned.signals = m.signals /\ turned.latch = m.latch
    BY <2>1, <2>2 DEF Turning
  <2> QED BY <2>3 DEF pending, phase, ticks, yNext
<1> HIDE DEF turned
<1>7. signals \in SUBSET Wire
  <2>1. Gray(a, p) \subseteq Wire
    BY <1>1, GrayWires, WiresApart
  <2> QED BY <2>1 DEF signals, Turning
<1>8. (m.latch \/ (open /\ signals # m.signals)) \in BOOLEAN
  BY DEF Turning
<1>9. /\ e \in Turning /\ e.pending = turned.pending /\ e.phase = turned.phase
      /\ e.ticks = turned.ticks /\ e.yNext = turned.yNext /\ e.signals = signals
      /\ e.latch = (m.latch \/ (open /\ signals # m.signals))
  BY <1>5, <1>6, <1>7, <1>8 DEF Turning
<1> QED BY <1>1, <1>4, <1>6, <1>9 DEF a, p, signals, e

Within(m) == \A a \in Axis : m.pending[a] \in -Limit .. Limit

(* A phase and its queue move together, modulo the four phases. *)
LEMMA PhaseSteps ==
  ASSUME NEW phase \in 0 .. 3, NEW pending \in Int
  PROVE  /\ (((phase + 3) % 4) - (pending + -1)) % 4 = (phase - pending) % 4
         /\ (((phase + 1) % 4) - (pending + 1)) % 4 = (phase - pending) % 4
         /\ (((phase + 1) % 4) + (pending + -1)) % 4 = (phase + pending) % 4
         /\ (((phase + 3) % 4) + (pending + 1)) % 4 = (phase + pending) % 4
<1>1. \A n \in Int : (n + 4) % 4 = n % 4 /\ (n - 4) % 4 = n % 4
  OBVIOUS
<1>2. /\ (phase + 3) % 4 = IF phase = 0 THEN 3 ELSE phase - 1
      /\ (phase + 1) % 4 = IF phase = 3 THEN 0 ELSE phase + 1
  BY SMTT(30)
<1>3. /\ (phase - pending) % 4 = ((phase - pending) + 4) % 4
      /\ (phase - pending) % 4 = ((phase - pending) - 4) % 4
      /\ (phase + pending) % 4 = ((phase + pending) + 4) % 4
      /\ (phase + pending) % 4 = ((phase + pending) - 4) % 4
  <2>1. phase - pending \in Int /\ phase + pending \in Int
    OBVIOUS
  <2> QED BY <1>1, <2>1
<1>4. /\ ((phase + 3) % 4) - (pending + -1) \in {phase - pending, (phase - pending) + 4}
      /\ ((phase + 1) % 4) - (pending + 1) \in {phase - pending, (phase - pending) - 4}
      /\ ((phase + 1) % 4) + (pending + -1) \in {phase + pending, (phase + pending) - 4}
      /\ ((phase + 3) % 4) + (pending + 1) \in {phase + pending, (phase + pending) + 4}
  BY <1>2
<1> QED BY <1>3, <1>4

(* An edge takes one motion from the queue of its axis into the phase. *)
LEMMA EdgeKeeps ==
  ASSUME NEW m \in Turning, NEW open \in BOOLEAN, ~Idle(m), NEW e, e = Edge(m, open)
  PROVE  /\ Within(m) => Within(e)
         /\ QueueSize(e) = QueueSize(m) - 1
         /\ \A t : Balanced(m, t) => Balanced(e, t)
         /\ ShowsPhase(m) => ShowsPhase(e)
         /\ e.signals \cap Button = m.signals \cap Button
         /\ Both(e) => /\ Both(m) /\ e.yNext = ~m.yNext
                       /\ (e.pending["y"] # m.pending["y"]) <=> m.yNext
<1> DEFINE a == NextAxis(m)
           p == (m.phase[a] + Forward(a, m.pending[a] > 0)) % 4
           x == m.pending["x"]
           y == m.pending["y"]
<1>1. /\ a \in Axis /\ p \in 0 .. 3 /\ e \in Turning
      /\ e.pending = [m.pending EXCEPT ![a] = @ + (IF m.pending[a] > 0 THEN -1 ELSE 1)]
      /\ e.phase = [m.phase EXCEPT ![a] = p]
      /\ e.yNext = IF Both(m) THEN ~m.yNext ELSE m.yNext
      /\ e.signals = (m.signals \ WiresOf[a]) \cup Gray(a, p)
  BY EdgeFields
<1>2. /\ x \in Int /\ y \in Int /\ m.phase["x"] \in 0 .. 3 /\ m.phase["y"] \in 0 .. 3
      /\ Limit \in Nat
  BY Axes, MouseAssumption DEF Turning
<1>3. /\ e.pending["x"] = IF a = "x" THEN x + (IF x > 0 THEN -1 ELSE 1) ELSE x
      /\ e.pending["y"] = IF a = "y" THEN y + (IF y > 0 THEN -1 ELSE 1) ELSE y
      /\ e.phase["x"] = IF a = "x" THEN p ELSE m.phase["x"]
      /\ e.phase["y"] = IF a = "y" THEN p ELSE m.phase["y"]
  BY <1>1, Axes DEF Turning
<1>4. m.pending[a] # 0 /\ a = IF x = 0 \/ (Both(m) /\ m.yNext) THEN "y" ELSE "x"
  BY DEF NextAxis, Idle, Both
<1>5. /\ a = "x" => p = (m.phase["x"] + (IF x > 0 THEN 3 ELSE 1)) % 4
      /\ a = "y" => p = (m.phase["y"] + (IF y > 0 THEN 1 ELSE 3)) % 4
  BY DEF Forward
<1> HIDE DEF a, p
<1>6. Within(m) => Within(e)
  BY <1>1, <1>2, <1>3, <1>4, Axes DEF Within
<1>7. QueueSize(e) = QueueSize(m) - 1
  BY <1>1, <1>2, <1>3, <1>4, Axes DEF QueueSize, Size
<1>8. ASSUME NEW t, Balanced(m, t) PROVE Balanced(e, t)
  <2>1. (e.phase["x"] - e.pending["x"]) % 4 = (m.phase["x"] - x) % 4
    BY <1>1, <1>2, <1>3, <1>4, <1>5, PhaseSteps, Axes
  <2>2. (e.phase["y"] + e.pending["y"]) % 4 = (m.phase["y"] + y) % 4
    BY <1>1, <1>2, <1>3, <1>4, <1>5, PhaseSteps, Axes
  <2> QED BY <1>8, <2>1, <2>2 DEF Balanced
<1>9. ASSUME ShowsPhase(m) PROVE ShowsPhase(e)
  <2> SUFFICES ASSUME NEW b \in Axis PROVE e.signals \cap WiresOf[b] = Gray(b, e.phase[b])
    BY DEF ShowsPhase
  <2>1. CASE b = a
    <3>1. e.phase[b] = p
      BY <1>1, <2>1 DEF Turning
    <3> QED BY <1>1, <2>1, <3>1, GrayWires
  <2>2. CASE b # a
    <3>1. e.phase[b] = m.phase[b] /\ WiresOf[a] \cap WiresOf[b] = {}
      BY <1>1, <2>2, WiresApart, Axes DEF Turning
    <3>2. Gray(a, p) \subseteq WiresOf[a]
      BY <1>1, GrayWires
    <3>3. m.signals \cap WiresOf[b] = Gray(b, m.phase[b])
      BY <1>9 DEF ShowsPhase
    <3> QED BY <1>1, <3>1, <3>2, <3>3
  <2> QED BY <2>1, <2>2
<1>10. e.signals \cap Button = m.signals \cap Button
  <2>1. Gray(a, p) \subseteq WiresOf[a] /\ WiresOf[a] \cap Button = {}
    BY <1>1, GrayWires, WiresApart
  <2> QED BY <1>1, <2>1
<1>11. ASSUME Both(e)
       PROVE  /\ Both(m) /\ e.yNext = ~m.yNext
              /\ (e.pending["y"] # m.pending["y"]) <=> m.yNext
  <2>1. Both(m)
    BY <1>2, <1>3, <1>4, <1>11, <1>1, Axes DEF Both
  <2>2. e.yNext = ~m.yNext
    BY <1>1, <2>1
  <2>3. m.yNext \in BOOLEAN /\ (a = "y" <=> m.yNext)
    BY <1>4, <2>1 DEF Both, Turning
  <2>4. e.pending["y"] # m.pending["y"] <=> a = "y"
    BY <1>2, <1>3
  <2> QED BY <2>1, <2>2, <2>3, <2>4
<1> QED BY <1>6, <1>7, <1>8, <1>9, <1>10, <1>11

(* The mouse after each edge of a call: the model's recursive function is  *)
(* the one Recursion finds, since a function that satisfies an equation of *)
(* this form is what CHOOSE yields.                                        *)
LEMMA TurnedSteps ==
  ASSUME NEW m \in Turning, NEW open \in BOOLEAN, NEW ticks \in Int,
         EdgesDue(m, ticks) \in Nat
  PROVE  LET states == Turned(m, open, ticks)
         IN /\ \A n \in 0 .. EdgesDue(m, ticks) : states[n] \in Turning
            /\ states[0] = [m EXCEPT !.ticks = @ + ticks]
            /\ \A n \in 0 .. EdgesDue(m, ticks) - 1 : states[n + 1] = Edge(states[n], open)
<1> DEFINE after[n \in Nat] == IF n = 0 THEN [m EXCEPT !.ticks = @ + ticks]
                               ELSE Edge(after[n - 1], open)
           first == [m EXCEPT !.ticks = @ + ticks]
           step == [p \in Nat \X Turning |-> Edge(p[2], open)]
           K == EdgesDue(m, ticks)
           states == Turned(m, open, ticks)
<1>1. first \in Turning
  BY DEF Turning
<1>2. \A s \in Turning : Edge(s, open) \in Turning
  BY EdgeFields
<1>3. PICK f \in [Nat -> Turning] : /\ f[0] = first
                                    /\ \A n \in Nat : f[n + 1] = step[<<n, f[n]>>]
  <2>1. step \in [Nat \X Turning -> Turning]
    BY <1>2
  <2> HIDE DEF step, first
  <2>2. \E f : Runs(f, Turning, first, step)
    BY <1>1, <2>1, Recursion
  <2> QED BY <2>2 DEF Runs
<1>4. \A n \in Nat : f[n + 1] = Edge(f[n], open)
  <2> HIDE DEF first
  <2> QED BY <1>3
<1>5. f = [n \in Nat |-> IF n = 0 THEN [m EXCEPT !.ticks = @ + ticks] ELSE Edge(f[n - 1], open)]
  <2> HIDE DEF step
  <2>1. ASSUME NEW n \in Nat PROVE f[n] = IF n = 0 THEN first ELSE Edge(f[n - 1], open)
    <3> HIDE DEF first
    <3>1. CASE n = 0
      BY <1>3, <3>1
    <3>2. CASE n # 0
      <4>1. n - 1 \in Nat /\ (n - 1) + 1 = n
        BY <3>2
      <4> QED BY <1>4, <3>2, <4>1
    <3> QED BY <3>1, <3>2
  <2>2. f = [n \in Nat |-> IF n = 0 THEN first ELSE Edge(f[n - 1], open)]
    <3> HIDE DEF first
    <3> QED BY <1>3, <2>1
  <2> QED BY <2>2
<1>6. after = [n \in Nat |-> IF n = 0 THEN [m EXCEPT !.ticks = @ + ticks]
                             ELSE Edge(after[n - 1], open)]
  <2> HIDE DEF step, first
  <2> QED BY <1>5, Zenon
<1>7. states = [n \in 0 .. K |-> after[n]]
  BY Zenon DEF Turned
<1> HIDE DEF after, step, K, states
<1>8. \A n \in Nat : after[n] = IF n = 0 THEN first ELSE Edge(after[n - 1], open)
  BY <1>6, Zenon
<1> HIDE DEF first
<1> DEFINE P == {n \in Nat : after[n] \in Turning}
<1>9. \A n \in Nat : n \in P
  <2>1. 0 \in P
    BY <1>1, <1>8
  <2>2. ASSUME NEW n \in Nat, n \in P PROVE n + 1 \in P
    <3>1. n + 1 \in Nat /\ n + 1 # 0 /\ (n + 1) - 1 = n
      OBVIOUS
    <3> QED BY <1>2, <1>8, <2>2, <3>1
  <2> HIDE DEF P
  <2> QED BY <2>1, <2>2, Counting
<1>10. K \in Nat
  BY DEF K
<1>11. \A n \in 0 .. K : states[n] = after[n] /\ states[n] \in Turning
  BY <1>7, <1>9, <1>10
<1>12. states[0] = first
  BY <1>8, <1>10, <1>11
<1>13. ASSUME NEW n \in 0 .. K - 1 PROVE states[n + 1] = Edge(states[n], open)
  <2>1. n \in 0 .. K /\ n + 1 \in 0 .. K /\ n + 1 \in Nat /\ n + 1 # 0 /\ (n + 1) - 1 = n
    BY <1>10
  <2> QED BY <1>8, <1>11, <2>1
<1> QED BY <1>11, <1>12, <1>13 DEF K, states, first

(* The lead after each edge of a call. *)
Leads(led, m, ticks) ==
  LET states == Turned(m, gate, ticks)
  IN /\ led \in [Nat -> Int]
     /\ Led(m, ticks) = led[EdgesDue(m, ticks)]
     /\ led[0] = IF Both(m) THEN lead ELSE 0
     /\ \A n \in Nat :
           led[n + 1] = IF ~Both(states[n + 1]) THEN 0
                        ELSE led[n] + (IF states[n + 1].pending["y"] # states[n].pending["y"]
                                       THEN 1 ELSE -1)

LEMMA LedSteps ==
  ASSUME NEW m, NEW ticks, lead \in Int, EdgesDue(m, ticks) \in Nat
  PROVE  \E led : Leads(led, m, ticks)
<1> DEFINE states == Turned(m, gate, ticks)
           K == EdgesDue(m, ticks)
           Turn(n, l) == IF ~Both(states[n]) THEN 0
                         ELSE l + (IF states[n].pending["y"] # states[n - 1].pending["y"]
                                   THEN 1 ELSE -1)
           first == IF Both(m) THEN lead ELSE 0
           led[n \in Nat] ==
             IF n = 0 THEN IF Both(m) THEN lead ELSE 0
             ELSE IF ~Both(states[n]) THEN 0
             ELSE led[n - 1] + (IF states[n].pending["y"] # states[n - 1].pending["y"]
                                THEN 1 ELSE -1)
           step == [p \in Nat \X Int |-> Turn(p[1] + 1, p[2])]
<1>1. first \in Int
  OBVIOUS
<1>2. \A n, l : l \in Int => Turn(n, l) \in Int
  <2> HIDE DEF states
  <2> QED OBVIOUS
<1>3. PICK f \in [Nat -> Int] : /\ f[0] = first
                                /\ \A n \in Nat : f[n + 1] = step[<<n, f[n]>>]
  <2>1. step \in [Nat \X Int -> Int]
    <3> HIDE DEF Turn
    <3> QED BY <1>2
  <2> HIDE DEF step, first
  <2>2. \E f : Runs(f, Int, first, step)
    BY <1>1, <2>1, Recursion
  <2> QED BY <2>2 DEF Runs
<1>4. \A n \in Nat : f[n + 1] = Turn(n + 1, f[n])
  <2> HIDE DEF first, Turn
  <2> QED BY <1>3
<1> HIDE DEF step
<1>5. ASSUME NEW n \in Nat PROVE f[n] = IF n = 0 THEN first ELSE Turn(n, f[n - 1])
  <2> HIDE DEF first, Turn
  <2>1. CASE n = 0
    BY <1>3, <2>1
  <2>2. CASE n # 0
    <3>1. n - 1 \in Nat /\ (n - 1) + 1 = n
      BY <2>2
    <3> QED BY <1>4, <2>2, <3>1
  <2> QED BY <2>1, <2>2
<1>6. f = [n \in Nat |-> IF n = 0 THEN first ELSE Turn(n, f[n - 1])]
  <2> HIDE DEF first, Turn
  <2> QED BY <1>3, <1>5
<1>7. led = [n \in Nat |-> IF n = 0 THEN first ELSE Turn(n, led[n - 1])]
  <2>1. f = [n \in Nat |-> IF n = 0 THEN IF Both(m) THEN lead ELSE 0
             ELSE IF ~Both(states[n]) THEN 0
             ELSE f[n - 1] + (IF states[n].pending["y"] # states[n - 1].pending["y"]
                                THEN 1 ELSE -1)]
    BY <1>6, Zenon
  <2>2. led = [n \in Nat |-> IF n = 0 THEN IF Both(m) THEN lead ELSE 0
             ELSE IF ~Both(states[n]) THEN 0
             ELSE led[n - 1] + (IF states[n].pending["y"] # states[n - 1].pending["y"]
                                THEN 1 ELSE -1)]
    <3> HIDE DEF states
    <3> QED BY <2>1, Zenon
  <2> HIDE DEF led
  <2> QED BY <2>2, Zenon
<1>8. Led(m, ticks) = led[K]
  BY Zenon DEF Led
<1> HIDE DEF led, first, Turn, K, states
<1>9. \A n \in Nat : led[n] = IF n = 0 THEN first ELSE Turn(n, led[n - 1])
  BY <1>7, Zenon
<1>10. led[0] = first /\ \A n \in Nat : led[n + 1] = Turn(n + 1, led[n])
  <2>1. \A n \in Nat : n + 1 \in Nat /\ n + 1 # 0 /\ (n + 1) - 1 = n
    OBVIOUS
  <2> QED BY <1>9, <2>1
<1> DEFINE P == {n \in Nat : led[n] \in Int}
<1>11. \A n \in Nat : n \in P
  <2>1. 0 \in P
    BY <1>1, <1>10
  <2>2. \A n \in Nat : n \in P => n + 1 \in P
    BY <1>2, <1>10
  <2> HIDE DEF P
  <2> QED BY <2>1, <2>2, Counting
<1>12. led \in [Nat -> Int]
  BY <1>7, <1>11
<1>13. \A n \in Nat :
          led[n + 1] = IF ~Both(states[n + 1]) THEN 0
                       ELSE led[n] + (IF states[n + 1].pending["y"] # states[n].pending["y"]
                                      THEN 1 ELSE -1)
  <2>1. \A n \in Nat : (n + 1) - 1 = n
    OBVIOUS
  <2> QED BY <1>10, <2>1 DEF Turn
<1>14. Leads(led, m, ticks)
  BY <1>8, <1>10, <1>12, <1>13 DEF Leads, first, K, states
<1> QED BY <1>14

(* A call lets out all that is due and queued, and no more. *)
LEMMA DueEdges ==
  ASSUME NEW m \in Turning, m.ticks \in Nat, NEW ticks \in Nat
  PROVE  LET K == EdgesDue(m, ticks)
             left == m.ticks + ticks - EdgeInterval * K
         IN /\ K \in Nat /\ K <= QueueSize(m) /\ left \in Nat
            /\ K < QueueSize(m) => left < EdgeInterval
<1> DEFINE all == m.ticks + ticks
           q == all \div EdgeInterval
           r == all % EdgeInterval
           size == QueueSize(m)
           K == EdgesDue(m, ticks)
           left == all - EdgeInterval * K
<1>1. EdgeInterval \in Nat \ {0} /\ all \in Nat
  BY MouseAssumption
<1>2. size \in Nat
  BY Axes DEF Turning, QueueSize, Size
<1>3. q \in Nat /\ r \in 0 .. EdgeInterval - 1 /\ all = EdgeInterval * q + r
  <2> HIDE DEF all
  <2> QED BY <1>1, Division
<1>4. K = IF q <= size THEN q ELSE size
  <2>1. K = Min({q, size})
    BY DEF EdgesDue, QueueSize
  <2> HIDE DEF K, q, size
  <2> QED BY <1>2, <1>3, <2>1, MinOfTwo
<1> HIDE DEF all, q, r, size, K
<1>5. K \in Nat /\ K <= size /\ K <= q
  BY <1>2, <1>3, <1>4
<1>6. EdgeInterval * K <= EdgeInterval * q /\ EdgeInterval * K \in Nat /\ EdgeInterval * q \in Nat
  <2>1. \A i, j, k \in Nat : j <= k => i * j <= i * k
    BY SMTT(30)
  <2>2. \A i, j \in Nat : i * j \in Nat
    OBVIOUS
  <2> QED BY <1>1, <1>3, <1>5, <2>1, <2>2
<1>7. all - EdgeInterval * K \in Nat
  BY <1>1, <1>3, <1>6
<1>8. K < size => all - EdgeInterval * K < EdgeInterval
  <2>1. SUFFICES ASSUME K < size PROVE all - EdgeInterval * K < EdgeInterval
    OBVIOUS
  <2>2. K = q
    BY <1>2, <1>3, <1>4, <2>1
  <2> QED BY <1>1, <1>3, <1>6, <2>2
<1>9. left \in Nat /\ (K < size => left < EdgeInterval)
  BY <1>7, <1>8
<1> HIDE DEF left
<1>10. /\ K = EdgesDue(m, ticks) /\ size = QueueSize(m)
       /\ left = m.ticks + ticks - EdgeInterval * EdgesDue(m, ticks)
  <2>1. \A i, j, k \in Int : (i + j) - k = i + (j - k)
    OBVIOUS
  <2>2. EdgeInterval * K \in Int
    BY <1>6
  <2>3. left = m.ticks + (ticks - EdgeInterval * K)
    <3> DEFINE out == EdgeInterval * K
    <3>1. out \in Int /\ left = (m.ticks + ticks) - out
      BY <2>2 DEF left, all
    <3> HIDE DEF out
    <3>2. left = m.ticks + (ticks - out)
      BY <2>1, <3>1
    <3> QED BY <3>2 DEF out
  <2> QED BY <2>3, Zenon DEF K, size
<1> QED BY <1>5, <1>9, <1>10

(* While both axes wait they take turns: whose turn it is says which axis  *)
(* is an edge ahead, if one is.                                            *)
InTurn(m, l) ==
  \/ l = 0
  \/ l = -1 /\ Both(m) /\ m.yNext
  \/ l = 1 /\ Both(m) /\ ~m.yNext

(* What n edges of a call have done. *)
Follows(m, ticks, s, n, l) ==
  /\ s.ticks = m.ticks + ticks - EdgeInterval * n
  /\ QueueSize(s) = QueueSize(m) - n
  /\ Within(s)
  /\ \A t : Balanced(m, t) => Balanced(s, t)
  /\ ShowsPhase(m) => ShowsPhase(s)
  /\ s.signals \cap Button = m.signals \cap Button
  /\ m.latch => s.latch
  /\ gate /\ s.signals # m.signals => s.latch
  /\ InTurn(s, l)

LEMMA Followed ==
  ASSUME NEW m \in Turning, Within(m), m.ticks \in Nat, NEW ticks \in Nat,
         gate \in BOOLEAN, lead \in Int, InTurn(m, IF Both(m) THEN lead ELSE 0)
  PROVE  LET K == EdgesDue(m, ticks)
             s == Turned(m, gate, ticks)[K]
         IN s \in Turning /\ Follows(m, ticks, s, K, Led(m, ticks))
<1> DEFINE K == EdgesDue(m, ticks)
           states == Turned(m, gate, ticks)
<1>1. K \in Nat /\ K <= QueueSize(m)
  BY DueEdges
<1>2. /\ \A n \in 0 .. K : states[n] \in Turning
      /\ states[0] = [m EXCEPT !.ticks = @ + ticks]
      /\ \A n \in 0 .. K - 1 : states[n + 1] = Edge(states[n], gate)
  BY <1>1, TurnedSteps
<1>3. PICK led : Leads(led, m, ticks)
  BY <1>1, LedSteps
<1>4. /\ led \in [Nat -> Int] /\ Led(m, ticks) = led[K]
      /\ led[0] = IF Both(m) THEN lead ELSE 0
      /\ \A n \in Nat :
            led[n + 1] = IF ~Both(states[n + 1]) THEN 0
                         ELSE led[n] + (IF states[n + 1].pending["y"] # states[n].pending["y"]
                                        THEN 1 ELSE -1)
  BY <1>3 DEF Leads
<1> HIDE DEF K, states
<1> DEFINE P == {n \in Nat : n <= K => Follows(m, ticks, states[n], n, led[n])}
<1>5. 0 \in P
  <2> DEFINE s == states[0]
  <2>1. /\ s.ticks = m.ticks + ticks /\ s.pending = m.pending /\ s.phase = m.phase
        /\ s.signals = m.signals /\ s.latch = m.latch /\ s.yNext = m.yNext
    BY <1>2 DEF Turning
  <2> HIDE DEF s
  <2>2. m.ticks + ticks - EdgeInterval * 0 = m.ticks + ticks /\ QueueSize(m) - 0 = QueueSize(m)
    <3>1. EdgeInterval \in Nat /\ QueueSize(m) \in Int
      BY MouseAssumption, Axes DEF Turning, QueueSize, Size
    <3> QED BY <3>1
  <2>3. QueueSize(s) = QueueSize(m) /\ (Within(m) => Within(s))
    BY <2>1 DEF QueueSize, Within
  <2>4. /\ \A t : Balanced(m, t) => Balanced(s, t)
        /\ ShowsPhase(m) => ShowsPhase(s)
    BY <2>1 DEF Balanced, ShowsPhase
  <2>5. InTurn(s, led[0])
    BY <1>4, <2>1 DEF InTurn, Both
  <2>6. Follows(m, ticks, s, 0, led[0])
    BY <2>1, <2>2, <2>3, <2>4, <2>5 DEF Follows
  <2> QED BY <2>6 DEF s
<1>6. ASSUME NEW n \in Nat, n \in P PROVE n + 1 \in P
  <2> DEFINE s == states[n]
             e == states[n + 1]
             l == led[n]
             ll == led[n + 1]
  <2>1. SUFFICES ASSUME n + 1 <= K PROVE Follows(m, ticks, e, n + 1, ll)
    OBVIOUS
  <2>2. n \in 0 .. K /\ n \in 0 .. K - 1 /\ n <= K /\ n < K
    BY <1>1, <2>1
  <2>3. s \in Turning /\ e = Edge(s, gate) /\ Follows(m, ticks, s, n, l)
    BY <1>2, <1>6, <2>2
  <2>4. /\ l \in Int
        /\ ll = IF ~Both(e) THEN 0
                ELSE l + (IF e.pending["y"] # s.pending["y"] THEN 1 ELSE -1)
    BY <1>4
  <2> HIDE DEF s, e, l, ll, P
  <2>5. ~Idle(s)
    <3>1. QueueSize(s) # 0
      BY <1>1, <2>2, <2>3, Axes DEF Follows, QueueSize, Size, Turning
    <3> QED BY <3>1 DEF QueueSize, Size, Idle
  <2>6. /\ e.ticks = s.ticks - EdgeInterval
        /\ e.latch = (s.latch \/ (gate /\ e.signals # s.signals))
    BY <2>3, EdgeFields
  <2>7. /\ Within(s) => Within(e)
        /\ QueueSize(e) = QueueSize(s) - 1
        /\ \A t : Balanced(s, t) => Balanced(e, t)
        /\ ShowsPhase(s) => ShowsPhase(e)
        /\ e.signals \cap Button = s.signals \cap Button
        /\ Both(e) => /\ Both(s) /\ e.yNext = ~s.yNext
                      /\ (e.pending["y"] # s.pending["y"]) <=> s.yNext
    BY <2>3, <2>5, EdgeKeeps
  <2>8. e.ticks = m.ticks + ticks - EdgeInterval * (n + 1)
    <3>1. \A i, j, k \in Int : i - j * k - j = i - j * (k + 1)
      OBVIOUS
    <3>2. m.ticks + ticks \in Int /\ EdgeInterval \in Int /\ n \in Int
      BY MouseAssumption
    <3> QED BY <2>3, <2>6, <3>1, <3>2 DEF Follows
  <2>9. QueueSize(e) = QueueSize(m) - (n + 1)
    <3>1. QueueSize(m) \in Int
      BY Axes DEF QueueSize, Size, Turning
    <3> QED BY <2>3, <2>7, <3>1 DEF Follows
  <2>10. /\ m.latch => e.latch
         /\ gate /\ e.signals # m.signals => e.latch
    BY <2>3, <2>6 DEF Follows
  <2>11. InTurn(e, ll)
    <3>1. CASE ~Both(e)
      BY <2>4, <3>1 DEF InTurn
    <3>2. CASE Both(e)
      <4>1. /\ Both(s) /\ e.yNext = ~s.yNext /\ s.yNext \in BOOLEAN
            /\ ll = l + (IF s.yNext THEN 1 ELSE -1)
        BY <2>3, <2>4, <2>7, <3>2 DEF Turning
      <4>2. InTurn(s, l)
        BY <2>3 DEF Follows
      <4>3. l \in {0, IF s.yNext THEN -1 ELSE 1}
        BY <4>1, <4>2 DEF InTurn
      <4>4. ll \in {0, IF s.yNext THEN 1 ELSE -1}
        BY <2>4, <4>1, <4>3
      <4> QED BY <3>2, <4>1, <4>4 DEF InTurn
    <3> QED BY <3>1, <3>2
  <2> QED BY <2>3, <2>7, <2>8, <2>9, <2>10, <2>11 DEF Follows
<1>7. \A n \in Nat : n \in P
  <2> HIDE DEF P
  <2> QED BY <1>5, <1>6, Counting
<1>8. Follows(m, ticks, states[K], K, led[K]) /\ states[K] \in Turning
  <2>1. K \in P /\ K <= K /\ K \in 0 .. K
    <3> HIDE DEF P
    <3> QED BY <1>1, <1>7
  <2> QED BY <1>2, <2>1
<1> QED BY <1>4, <1>8 DEF K, states

(* What a call leaves: no edge overdue, and a rest at most one interval.   *)
LEMMA CallKeeps ==
  ASSUME NEW m \in Turning, Within(m), m.ticks \in Nat, NEW ticks \in Nat,
         gate \in BOOLEAN, lead \in Int, InTurn(m, IF Both(m) THEN lead ELSE 0),
         NEW r, r = AdvanceMouse(m, gate, ticks)
  PROVE  /\ r \in Mouse
         /\ ~Idle(r) => r.ticks < EdgeInterval
         /\ r.ticks = Slack(r, m.ticks + ticks - EdgeInterval * EdgesDue(m, ticks))
         /\ \A t : Balanced(m, t) => Balanced(r, t)
         /\ ShowsPhase(m) => ShowsPhase(r)
         /\ r.signals \cap Button = m.signals \cap Button
         /\ m.latch => r.latch
         /\ gate /\ r.signals # m.signals => r.latch
         /\ InTurn(r, Led(m, ticks))
<1> DEFINE K == EdgesDue(m, ticks)
           s == Turned(m, gate, ticks)[K]
           left == m.ticks + ticks - EdgeInterval * K
           l == Led(m, ticks)
<1>1. /\ K \in Nat /\ K <= QueueSize(m) /\ left \in Nat
      /\ K < QueueSize(m) => left < EdgeInterval
  BY DueEdges
<1>2. s \in Turning /\ Follows(m, ticks, s, K, l)
  BY Followed
<1>3. r = Rest(s)
  BY Zenon DEF AdvanceMouse
<1>4. /\ s.ticks = left /\ QueueSize(s) = QueueSize(m) - K /\ Within(s)
      /\ \A t : Balanced(m, t) => Balanced(s, t)
      /\ ShowsPhase(m) => ShowsPhase(s)
      /\ s.signals \cap Button = m.signals \cap Button
      /\ m.latch => s.latch
      /\ gate /\ s.signals # m.signals => s.latch
      /\ InTurn(s, l)
  BY <1>2 DEF Follows
<1> HIDE DEF K, s, left, l
<1>5. EdgeInterval \in Nat \ {0} /\ Limit \in Nat
  BY MouseAssumption
<1>6. ~Idle(s) => left < EdgeInterval
  <2>1. SUFFICES ASSUME ~Idle(s) PROVE QueueSize(s) > 0
    BY <1>1, <1>4, Axes DEF Turning, QueueSize, Size
  <2> QED BY <1>2, <2>1, Axes DEF Idle, QueueSize, Size, Turning
<1>7. Min({left, EdgeInterval}) \in 0 .. EdgeInterval
  <2>1. Min({left, EdgeInterval}) = IF left <= EdgeInterval THEN left ELSE EdgeInterval
    BY <1>1, <1>5, MinOfTwo
  <2> QED BY <1>1, <1>5, <2>1
<1> DEFINE ticksLeft == IF Idle(s) THEN Min({left, EdgeInterval}) ELSE left
<1>8. ticksLeft \in 0 .. EdgeInterval
  BY <1>1, <1>5, <1>6, <1>7
<1>9. r = [s EXCEPT !.ticks = ticksLeft]
  <2>1. CASE Idle(s)
    BY <1>3, <1>4, <2>1, Zenon DEF Rest
  <2>2. CASE ~Idle(s)
    <3>1. r = s
      BY <1>3, <2>2 DEF Rest
    <3>2. ticksLeft = s.ticks
      BY <1>4, <2>2
    <3> HIDE DEF ticksLeft
    <3> QED BY <1>2, <3>1, <3>2 DEF Turning
  <2> QED BY <2>1, <2>2
<1> HIDE DEF ticksLeft
<1>10. /\ r.ticks = ticksLeft /\ r.pending = s.pending /\ r.phase = s.phase
       /\ r.signals = s.signals /\ r.latch = s.latch /\ r.yNext = s.yNext
  BY <1>2, <1>9 DEF Turning
<1>11. (Idle(r) <=> Idle(s)) /\ (Both(r) <=> Both(s))
  BY <1>10 DEF Idle, Both
<1>12. r \in Mouse
  <2>1. s.pending \in [Axis -> -Limit .. Limit]
    BY <1>2, <1>4 DEF Turning, Within
  <2>2. /\ s.signals \in SUBSET Wire /\ s.phase \in [Axis -> 0 .. 3]
        /\ s.yNext \in BOOLEAN /\ s.latch \in BOOLEAN
    BY <1>2 DEF Turning
  <2>3. r = [signals |-> s.signals, phase |-> s.phase, pending |-> s.pending,
             ticks |-> ticksLeft, yNext |-> s.yNext, latch |-> s.latch]
    BY <1>2, <1>9 DEF Turning
  <2> QED BY <1>8, <2>1, <2>2, <2>3 DEF Mouse
<1>13. ~Idle(r) => r.ticks < EdgeInterval
  BY <1>6, <1>10, <1>11 DEF ticksLeft
<1>14. r.ticks = Slack(r, left)
  BY <1>10, <1>11 DEF Slack, ticksLeft
<1>15. /\ \A t : Balanced(m, t) => Balanced(r, t)
       /\ ShowsPhase(m) => ShowsPhase(r)
       /\ r.signals \cap Button = m.signals \cap Button
       /\ m.latch => r.latch
       /\ gate /\ r.signals # m.signals => r.latch
  BY <1>4, <1>10 DEF Balanced, ShowsPhase
<1>16. InTurn(r, l)
  BY <1>4, <1>10, <1>11 DEF InTurn
<1> QED BY <1>12, <1>13, <1>14, <1>15, <1>16 DEF left, l, K

(* The histories agree with the encoders, and PA3 is open while the        *)
(* program is told of every change.                                        *)
MouseInv ==
  /\ TypeOK
  /\ slack = mouse.ticks
  /\ InTurn(mouse, lead)
  /\ Balanced(mouse, target) /\ ShowsPhase(mouse)
  /\ watched => gate
  /\ ChangesAreAnnounced

LEMMA MouseInvSuffices ==
  MouseInv => MotionIsConserved /\ EdgesAreSpaced /\ ChangesAreAnnounced
<1> SUFFICES ASSUME MouseInv PROVE MotionIsConserved /\ EdgesAreSpaced
  BY DEF MouseInv
<1>1. MotionIsConserved
  BY DEF MouseInv, MotionIsConserved, Balanced, ShowsPhase
<1>2. mouse.ticks \in 0 .. EdgeInterval /\ EdgeInterval \in Nat
  BY MouseAssumption DEF MouseInv, TypeOK, Mouse
<1>3. slack >= 0 /\ lead \in -1 .. 1
  BY <1>2 DEF MouseInv, InTurn
<1> QED BY <1>1, <1>3 DEF MouseInv, EdgesAreSpaced

(* A call that lets edges out, with the queue it finds. *)
LEMMA CallKeepsInv ==
  ASSUME MouseInv, NEW m \in Mouse, NEW ticks \in Nat,
         m.ticks = mouse.ticks, m.signals = mouse.signals, m.latch = mouse.latch,
         InTurn(m, IF Both(m) THEN lead ELSE 0),
         target' \in [Axis -> 0 .. 3], Balanced(m, target'), ShowsPhase(m),
         mouse' = AdvanceMouse(m, gate, ticks), lead' = Led(m, ticks),
         slack' = Slack(mouse', m.ticks + ticks - EdgeInterval * EdgesDue(m, ticks)),
         Moves, UNCHANGED <<gate, watched>>
  PROVE  MouseInv' /\ mouse'.signals \cap Button = mouse.signals \cap Button
<1>1. /\ m \in Turning /\ Within(m) /\ m.ticks \in Nat
      /\ EdgeInterval \in Nat
  <2>1. EdgeInterval \in Nat /\ Limit \in Nat
    BY MouseAssumption
  <2>2. m.ticks \in Nat /\ Within(m)
    BY <2>1 DEF Mouse, Within
  <2>3. m \in Turning
    BY <2>1 DEF Mouse, Turning
  <2> QED BY <2>1, <2>2, <2>3
<1>2. gate \in BOOLEAN /\ lead \in Int
  BY DEF MouseInv, TypeOK
<1> DEFINE r == mouse'
<1>3. /\ r \in Mouse
      /\ ~Idle(r) => r.ticks < EdgeInterval
      /\ r.ticks = Slack(r, m.ticks + ticks - EdgeInterval * EdgesDue(m, ticks))
      /\ \A t : Balanced(m, t) => Balanced(r, t)
      /\ ShowsPhase(m) => ShowsPhase(r)
      /\ r.signals \cap Button = m.signals \cap Button
      /\ m.latch => r.latch
      /\ gate /\ r.signals # m.signals => r.latch
      /\ InTurn(r, Led(m, ticks))
  BY <1>1, <1>2, CallKeeps
<1>4. (mouse \in Mouse)'
  BY <1>3 DEF Mouse
<1>5. (~Idle(mouse) => mouse.ticks < EdgeInterval)'
  BY <1>3 DEF Idle
<1>6. slack' = mouse'.ticks
  BY <1>3
<1>7. InTurn(mouse, lead)'
  BY <1>3 DEF InTurn, Both
<1>8. Balanced(mouse, target)'
  BY <1>3 DEF Balanced
<1>9. ShowsPhase(mouse)'
  BY <1>3 DEF ShowsPhase
<1>10. lead' \in Int /\ slack' \in Int
  <2>1. lead' \in {0, -1, 1}
    BY <1>3 DEF InTurn
  <2>2. mouse'.ticks \in Int
    BY <1>1, <1>3 DEF Mouse
  <2> QED BY <1>6, <2>1, <2>2
<1>11. moved' = (moved \/ (watched /\ mouse'.signals # mouse.signals))
  BY DEF Moves
<1>12. moved' \in BOOLEAN /\ watched' \in BOOLEAN /\ gate' \in BOOLEAN
  BY <1>11 DEF MouseInv, TypeOK
<1>13. ChangesAreAnnounced'
  BY <1>3, <1>11 DEF MouseInv, ChangesAreAnnounced
<1>14. TypeOK'
  BY <1>4, <1>5, <1>10, <1>12 DEF TypeOK
<1>15. (watched => gate)'
  BY DEF MouseInv
<1> QED BY <1>3, <1>6, <1>7, <1>8, <1>9, <1>13, <1>14, <1>15 DEF MouseInv

LEMMA AdvanceKeepsInv ==
  ASSUME MouseInv, NEW ticks \in Nat, AdvanceTime(ticks)
  PROVE  MouseInv' /\ mouse'.signals \cap Button = mouse.signals \cap Button
<1>1. /\ mouse \in Mouse /\ target' \in [Axis -> 0 .. 3] /\ target' = target
      /\ Balanced(mouse, target') /\ ShowsPhase(mouse)
  BY DEF MouseInv, TypeOK, AdvanceTime
<1>2. InTurn(mouse, IF Both(mouse) THEN lead ELSE 0)
  BY DEF MouseInv, InTurn
<1>3. slack' = Slack(mouse', mouse.ticks + ticks - EdgeInterval * EdgesDue(mouse, ticks))
  BY DEF MouseInv, AdvanceTime
<1>4. /\ mouse' = AdvanceMouse(mouse, gate, ticks) /\ lead' = Led(mouse, ticks)
      /\ Moves /\ UNCHANGED <<gate, watched>>
  BY DEF AdvanceTime
<1> QED BY <1>1, <1>2, <1>3, <1>4, CallKeepsInv

LEMMA ModFour ==
  ASSUME NEW i \in Int, NEW j \in Int
  PROVE  /\ ((i % 4) - j) % 4 = (i - j) % 4 /\ ((i % 4) + j) % 4 = (i + j) % 4
         /\ i % 4 \in 0 .. 3
BY SMTT(60)

LEMMA QueueClamps ==
  ASSUME NEW n \in Int, NEW delta \in Int
  PROVE  Queue(n, delta) \in -Limit .. Limit
<1>1. Limit \in Nat /\ n + delta \in Int /\ -Limit \in Int
  BY MouseAssumption
<1> DEFINE low == Min({Limit, n + delta})
<1>2. low = IF Limit <= n + delta THEN Limit ELSE n + delta
  BY <1>1, MinOfTwo
<1> HIDE DEF low
<1>3. low \in Int /\ low <= Limit
  BY <1>1, <1>2
<1>4. Max({-Limit, low}) = IF -Limit <= low THEN low ELSE -Limit
  BY <1>1, <1>3, MaxOfTwo
<1>5. Queue(n, delta) = Max({-Limit, low})
  BY Zenon DEF Queue, low
<1> QED BY <1>1, <1>3, <1>4, <1>5

(* Motion the host reports goes into the queues, up to their limit, and    *)
(* what is queued turns the target phases.                                 *)
LEMMA MotionKeepsInv ==
  ASSUME MouseInv, NEW dx \in Int, NEW dy \in Int, MouseMotion(dx, dy)
  PROVE  MouseInv' /\ mouse'.signals \cap Button = mouse.signals \cap Button
<1> DEFINE qx == Queue(mouse.pending["x"], dx)
           qy == Queue(mouse.pending["y"], dy)
           m == [mouse EXCEPT !.pending = [x |-> Queue(@["x"], dx), y |-> Queue(@["y"], dy)]]
           px == mouse.pending["x"]
           py == mouse.pending["y"]
<1>1. EdgeInterval \in Nat /\ Limit \in Nat /\ mouse \in Mouse /\ target \in [Axis -> 0 .. 3]
  BY MouseAssumption DEF MouseInv, TypeOK
<1>2. px \in Int /\ py \in Int /\ mouse.phase["x"] \in Int /\ mouse.phase["y"] \in Int
  BY <1>1, Axes DEF Mouse
<1>3. qx \in -Limit .. Limit /\ qy \in -Limit .. Limit
  <2> HIDE DEF px, py
  <2>1. \A n, d \in Int : Queue(n, d) \in -Limit .. Limit
    BY QueueClamps
  <2> QED BY <1>2, <2>1 DEF px, py
<1>4. m = [mouse EXCEPT !.pending = [x |-> qx, y |-> qy]]
  OBVIOUS
<1>5. /\ MouseMotion(dx, dy)
      /\ mouse' = AdvanceMouse(m, gate, 0) /\ lead' = Led(m, 0)
      /\ slack' = Slack(mouse', slack - EdgeInterval * EdgesDue(m, 0))
      /\ Moves /\ UNCHANGED <<gate, watched>>
  BY Zenon DEF MouseMotion
<1>6. target' = [x |-> (target["x"] - (m.pending["x"] - px)) % 4,
                 y |-> (target["y"] + (m.pending["y"] - py)) % 4]
  BY Zenon DEF MouseMotion
<1> HIDE DEF m, qx, qy
<1>7. [x |-> qx, y |-> qy] \in [Axis -> -Limit .. Limit]
  BY <1>3, Axes
<1>8. /\ m \in Mouse
      /\ m.ticks = mouse.ticks /\ m.signals = mouse.signals /\ m.latch = mouse.latch
      /\ m.phase = mouse.phase /\ m.yNext = mouse.yNext
      /\ m.pending["x"] = qx /\ m.pending["y"] = qy
  BY <1>1, <1>4, <1>7 DEF Mouse
<1>9. /\ target["x"] = (mouse.phase["x"] - px) % 4
      /\ target["y"] = (mouse.phase["y"] + py) % 4
  BY DEF MouseInv, Balanced
<1> HIDE DEF px, py
<1>10. /\ (target["x"] - (qx - px)) % 4 = (mouse.phase["x"] - qx) % 4
       /\ (target["y"] + (qy - py)) % 4 = (mouse.phase["y"] + qy) % 4
  <2>1. /\ qx - px \in Int /\ qy - py \in Int /\ qx \in Int /\ qy \in Int
        /\ mouse.phase["x"] - px \in Int /\ mouse.phase["y"] + py \in Int
    BY <1>1, <1>2, <1>3
  <2>2. /\ (target["x"] - (qx - px)) % 4 = ((mouse.phase["x"] - px) - (qx - px)) % 4
        /\ (target["y"] + (qy - py)) % 4 = ((mouse.phase["y"] + py) + (qy - py)) % 4
    BY <1>9, <2>1, ModFour
  <2>3. /\ (mouse.phase["x"] - px) - (qx - px) = mouse.phase["x"] - qx
        /\ (mouse.phase["y"] + py) + (qy - py) = mouse.phase["y"] + qy
    BY <1>2, <2>1
  <2> QED BY <2>2, <2>3
<1>11. Balanced(m, target')
  BY <1>6, <1>8, <1>10 DEF Balanced
<1>12. target' \in [Axis -> 0 .. 3]
  <2>1. /\ mouse.phase["x"] - qx \in Int /\ mouse.phase["y"] + qy \in Int
    BY <1>1, <1>2, <1>3
  <2>2. target'["x"] \in 0 .. 3 /\ target'["y"] \in 0 .. 3
    BY <1>6, <1>8, <1>10, <2>1, ModFour
  <2> QED BY <1>6, <2>2, Axes
<1>13. ShowsPhase(m)
  BY <1>8 DEF MouseInv, ShowsPhase
<1>14. InTurn(m, IF Both(m) THEN lead ELSE 0)
  BY <1>8 DEF MouseInv, InTurn
<1>15. slack' = Slack(mouse', m.ticks + 0 - EdgeInterval * EdgesDue(m, 0))
  <2> DEFINE out == EdgeInterval * EdgesDue(m, 0)
  <2>1. m.ticks \in Nat /\ m \in Turning
    BY <1>1, <1>8 DEF Mouse, Turning
  <2>2. EdgesDue(m, 0) \in Nat
    BY <2>1, DueEdges
  <2>3. out \in Int /\ slack = m.ticks
    BY <1>1, <1>8, <2>2 DEF MouseInv
  <2> HIDE DEF out
  <2>4. m.ticks + 0 - out = slack - out
    BY <2>1, <2>3
  <2> QED BY <1>5, <2>4 DEF out
<1> HIDE DEF m
<1> QED BY <1>5, <1>8, <1>11, <1>12, <1>13, <1>14, <1>15, CallKeepsInv

(* A call that moves wires only. *)
LEMMA SignalsKeepInv ==
  ASSUME MouseInv, NEW m \in Mouse, NEW signals \in SUBSET Wire,
         mouse' = UpdateSignals(m, gate, signals),
         m.signals = mouse.signals, m.latch = mouse.latch,
         \A a \in Axis : signals \cap WiresOf[a] = Gray(a, m.phase[a]),
         ~Idle(m) => m.ticks < EdgeInterval,
         target' \in [Axis -> 0 .. 3], Balanced(m, target'),
         InTurn(m, lead'), slack' = m.ticks,
         Moves, UNCHANGED <<gate, watched>>
  PROVE  MouseInv' /\ mouse'.signals = signals
<1>1. EdgeInterval \in Nat /\ gate \in BOOLEAN /\ watched \in BOOLEAN /\ moved \in BOOLEAN
  BY MouseAssumption DEF MouseInv, TypeOK
<1> DEFINE latch == (m.latch \/ (gate /\ signals # m.signals))
<1>2. latch \in BOOLEAN
  BY DEF Mouse
<1>3. mouse' = [m EXCEPT !.signals = signals, !.latch = latch]
  BY Zenon DEF UpdateSignals
<1> HIDE DEF latch
<1>4. /\ mouse' \in Mouse /\ mouse'.signals = signals /\ mouse'.latch = latch
      /\ mouse'.phase = m.phase /\ mouse'.pending = m.pending
      /\ mouse'.ticks = m.ticks /\ mouse'.yNext = m.yNext
  BY <1>2, <1>3 DEF Mouse
<1>5. (mouse \in Mouse)'
  BY <1>4 DEF Mouse
<1>6. (~Idle(mouse) => mouse.ticks < EdgeInterval)'
  BY <1>4 DEF Idle
<1>7. slack' = mouse'.ticks
  BY <1>4
<1>8. InTurn(mouse, lead)'
  BY <1>4 DEF InTurn, Both
<1>9. Balanced(mouse, target)'
  BY <1>4 DEF Balanced
<1>10. ShowsPhase(mouse)'
  BY <1>4 DEF ShowsPhase
<1>11. lead' \in Int /\ slack' \in Int
  <2>1. lead' \in {0, -1, 1}
    BY DEF InTurn
  <2>2. mouse'.ticks \in Int
    BY <1>1, <1>4 DEF Mouse
  <2> QED BY <1>7, <2>1, <2>2
<1>12. moved' = (moved \/ (watched /\ mouse'.signals # mouse.signals))
  BY DEF Moves
<1>13. moved' \in BOOLEAN
  BY <1>1, <1>12
<1>14. ChangesAreAnnounced'
  BY <1>4, <1>12 DEF MouseInv, ChangesAreAnnounced, latch
<1>15. TypeOK'
  BY <1>1, <1>5, <1>6, <1>11, <1>13 DEF TypeOK
<1>16. (watched => gate)'
  BY DEF MouseInv
<1> QED BY <1>4, <1>7, <1>8, <1>9, <1>10, <1>14, <1>15, <1>16 DEF MouseInv

(* A button's wire is no encoder's. *)
LEMMA ButtonsKeepInv ==
  ASSUME MouseInv, NEW signals \in SUBSET Wire,
         \A a \in Axis : signals \cap WiresOf[a] = mouse.signals \cap WiresOf[a],
         mouse' = UpdateSignals(mouse, gate, signals),
         Moves, UNCHANGED <<gate, watched, target, lead, slack>>
  PROVE  MouseInv' /\ mouse'.signals = signals
<1>1. /\ mouse \in Mouse /\ target' \in [Axis -> 0 .. 3] /\ Balanced(mouse, target')
      /\ ~Idle(mouse) => mouse.ticks < EdgeInterval
      /\ InTurn(mouse, lead') /\ slack' = mouse.ticks
      /\ UNCHANGED <<gate, watched>>
  BY DEF MouseInv, TypeOK
<1>2. \A a \in Axis : signals \cap WiresOf[a] = Gray(a, mouse.phase[a])
  BY DEF MouseInv, ShowsPhase
<1> QED BY <1>1, <1>2, SignalsKeepInv

LEMMA ForcedKeepsInv ==
  ASSUME MouseInv, NEW signals \in TestSignals, SetMouseSignals(signals)
  PROVE  MouseInv' /\ mouse'.signals = signals
<1> DEFINE phase == [a \in Axis |-> PhaseOf(a, signals)]
           rest == [a \in Axis |-> 0]
           m == [mouse EXCEPT !.phase = phase, !.pending = rest, !.ticks = EdgeInterval]
<1>1. /\ EdgeInterval \in Nat /\ Limit \in Nat /\ mouse \in Mouse
      /\ signals \in SUBSET Wire
  BY MouseAssumption DEF MouseInv, TypeOK, Wire
<1>2. phase \in [Axis -> 0 .. 3] /\ rest \in [Axis -> -Limit .. Limit]
  <2>1. 0 \in -Limit .. Limit
    BY <1>1
  <2> QED BY <2>1, PhaseIsShown
<1>3. rest["x"] = 0 /\ rest["y"] = 0 /\ \A a \in Axis : phase[a] = PhaseOf(a, signals)
  BY Axes
<1>4. /\ mouse' = UpdateSignals(m, gate, signals)
      /\ target' = phase /\ lead' = 0 /\ slack' = EdgeInterval
      /\ Moves /\ UNCHANGED <<gate, watched>>
  BY Zenon DEF SetMouseSignals
<1> HIDE DEF phase, rest
<1>5. /\ m \in Mouse /\ m.signals = mouse.signals /\ m.latch = mouse.latch
      /\ m.phase = phase /\ m.pending = rest /\ m.ticks = EdgeInterval
  <2> DEFINE ticks == EdgeInterval
  <2>1. ticks \in 0 .. EdgeInterval
    BY <1>1
  <2>2. m = [mouse EXCEPT !.phase = phase, !.pending = rest, !.ticks = ticks]
    OBVIOUS
  <2> HIDE DEF m, ticks
  <2>3. /\ m \in Mouse /\ m.signals = mouse.signals /\ m.latch = mouse.latch
        /\ m.phase = phase /\ m.pending = rest /\ m.ticks = ticks
    BY <1>1, <1>2, <2>1, <2>2 DEF Mouse
  <2> QED BY <2>3 DEF ticks
<1> HIDE DEF m
<1>6. Idle(m)
  BY <1>3, <1>5 DEF Idle
<1>7. \A a \in Axis : signals \cap WiresOf[a] = Gray(a, m.phase[a])
  BY <1>3, <1>5, PhaseIsShown
<1>8. Balanced(m, target')
  <2>1. phase["x"] \in 0 .. 3 /\ phase["y"] \in 0 .. 3
    BY <1>2, Axes
  <2>2. \A n \in 0 .. 3 : n = (n - 0) % 4 /\ n = (n + 0) % 4
    OBVIOUS
  <2> QED BY <1>3, <1>4, <1>5, <2>1, <2>2 DEF Balanced
<1>9. InTurn(m, lead') /\ slack' = m.ticks /\ target' \in [Axis -> 0 .. 3]
  BY <1>2, <1>4, <1>5 DEF InTurn
<1> QED BY <1>1, <1>4, <1>5, <1>6, <1>7, <1>8, <1>9, SignalsKeepInv

(* The program reads group 70h or moves PA3, and a reset does both. *)
LEMMA AccessKeepsInv ==
  ASSUME MouseInv, MouseAccess \/ Reset \/ UNCHANGED vars
  PROVE  MouseInv' /\ mouse'.signals = mouse.signals
<1>1. \A open \in Opens : open \in BOOLEAN
  BY MouseAssumption
<1>2. mouse \in Mouse
  BY DEF MouseInv, TypeOK
<1>3. ASSUME mouse' = [mouse EXCEPT !.latch = FALSE] \/ mouse' = mouse,
             gate' \in BOOLEAN, watched' \in BOOLEAN, moved' \in BOOLEAN,
             UNCHANGED <<target, lead, slack>>,
             watched' => gate', ChangesAreAnnounced'
      PROVE  MouseInv' /\ mouse'.signals = mouse.signals
  <2>1. /\ mouse' \in Mouse /\ mouse'.signals = mouse.signals
        /\ mouse'.phase = mouse.phase /\ mouse'.pending = mouse.pending
        /\ mouse'.ticks = mouse.ticks /\ mouse'.yNext = mouse.yNext
    <3>1. CASE mouse' = mouse
      BY <1>2, <3>1
    <3>2. CASE mouse' = [mouse EXCEPT !.latch = FALSE]
      <4> DEFINE latch == FALSE
      <4>1. latch \in BOOLEAN /\ mouse' = [mouse EXCEPT !.latch = latch]
        BY <3>2
      <4> HIDE DEF latch
      <4> QED BY <1>2, <4>1 DEF Mouse
    <3> QED BY <1>3, <3>1, <3>2
  <2>2. (mouse \in Mouse)'
    BY <2>1 DEF Mouse
  <2>3. (~Idle(mouse) => mouse.ticks < EdgeInterval)'
    BY <2>1 DEF MouseInv, TypeOK, Idle
  <2>4. TypeOK'
    BY <1>3, <2>2, <2>3 DEF MouseInv, TypeOK
  <2>5. InTurn(mouse, lead)'
    BY <1>3, <2>1 DEF MouseInv, InTurn, Both
  <2>6. Balanced(mouse, target)' /\ ShowsPhase(mouse)' /\ slack' = mouse'.ticks
    BY <1>3, <2>1 DEF MouseInv, Balanced, ShowsPhase
  <2> QED BY <1>3, <2>1, <2>4, <2>5, <2>6 DEF MouseInv
<1>4. gate \in BOOLEAN /\ watched \in BOOLEAN /\ moved \in BOOLEAN
  BY DEF MouseInv, TypeOK
<1>5. CASE ReadMouse
  <2>1. ChangesAreAnnounced' /\ watched' = gate /\ gate' = gate /\ moved' \in BOOLEAN
    BY <1>5 DEF ReadMouse, ChangesAreAnnounced
  <2> QED BY <1>3, <1>4, <1>5, <2>1 DEF ReadMouse
<1>6. ASSUME NEW open \in Opens, WriteControl(open)
      PROVE  MouseInv' /\ mouse'.signals = mouse.signals
  <2>1. /\ gate' = open /\ open \in BOOLEAN /\ watched' = (watched /\ open)
        /\ moved' = (moved /\ open) /\ mouse' = mouse
    BY <1>1, <1>6 DEF WriteControl
  <2>2. watched' \in BOOLEAN /\ moved' \in BOOLEAN /\ (watched' => gate')
    BY <1>4, <2>1, Zenon
  <2>3. ChangesAreAnnounced'
    BY <2>1 DEF MouseInv, ChangesAreAnnounced
  <2> QED BY <1>3, <1>6, <2>1, <2>2, <2>3 DEF WriteControl
<1>7. CASE Reset
  <2>1. ChangesAreAnnounced' /\ gate' \in BOOLEAN /\ watched' \in BOOLEAN /\ moved' \in BOOLEAN
    BY <1>7 DEF Reset, ChangesAreAnnounced
  <2> QED BY <1>3, <1>7, <2>1 DEF Reset
<1>8. CASE UNCHANGED vars
  <2>1. /\ mouse' = mouse /\ gate' = gate /\ watched' = watched /\ moved' = moved
        /\ UNCHANGED <<target, lead, slack>>
    BY <1>8 DEF vars
  <2>2. ChangesAreAnnounced' /\ (watched' => gate')
    BY <2>1 DEF MouseInv, ChangesAreAnnounced
  <2> QED BY <1>3, <1>4, <2>1, <2>2
<1> QED BY <1>5, <1>6, <1>7, <1>8 DEF MouseAccess

LEMMA CaptureKeepsInv ==
  ASSUME MouseInv, NEW capture, SetMouseCapture(capture)
  PROVE  /\ MouseInv'
         /\ mouse'.signals = IF captured /\ ~capture THEN mouse.signals \cup Button
                             ELSE mouse.signals
<1>1. CASE captured /\ ~capture
  <2>1. /\ mouse' = UpdateSignals(mouse, gate, mouse.signals \cup Button)
        /\ Moves /\ UNCHANGED <<gate, watched, target, lead, slack>>
    BY <1>1 DEF SetMouseCapture
  <2>2. mouse.signals \cup Button \in SUBSET Wire
    BY DEF MouseInv, TypeOK, Mouse, Button, Wire
  <2>3. \A a \in Axis : (mouse.signals \cup Button) \cap WiresOf[a] = mouse.signals \cap WiresOf[a]
    BY WiresApart
  <2> QED BY <1>1, <2>1, <2>2, <2>3, ButtonsKeepInv
<1>2. CASE ~(captured /\ ~capture)
  BY <1>2, AccessKeepsInv DEF SetMouseCapture
<1> QED BY <1>1, <1>2

LEMMA ButtonKeepsInv ==
  ASSUME MouseInv, NEW button \in Button, NEW pressed \in BOOLEAN, SetMouseButton(button, pressed)
  PROVE  /\ MouseInv'
         /\ mouse'.signals = IF pressed THEN mouse.signals \ {button}
                             ELSE mouse.signals \cup {button}
<1> DEFINE signals == IF pressed THEN mouse.signals \ {button} ELSE mouse.signals \cup {button}
<1>1. signals \in SUBSET Wire
  BY DEF MouseInv, TypeOK, Mouse, Button, Wire
<1>2. \A a \in Axis : signals \cap WiresOf[a] = mouse.signals \cap WiresOf[a]
  BY WiresApart
<1>3. /\ mouse' = UpdateSignals(mouse, gate, signals)
      /\ Moves /\ UNCHANGED <<gate, watched, target, lead, slack>>
  BY DEF SetMouseButton
<1> HIDE DEF signals
<1>4. MouseInv' /\ mouse'.signals = signals
  BY <1>1, <1>2, <1>3, ButtonsKeepInv
<1> QED BY <1>4 DEF signals

(* Every turn of the loop keeps the mouse, and each of the parts of it     *)
(* that is not the mouse's leaves it alone.                                *)
LEMMA MouseStep == MouseInv /\ ClockInv /\ [HostNext]_hvars => MouseInv'
<1> SUFFICES ASSUME MouseInv, ClockInv, [HostNext]_hvars PROVE MouseInv'
  OBVIOUS
<1>0. TicksPerCycle \in Nat /\ Deltas \subseteq Int /\ Pressable \subseteq Button
  BY ClockAssumption, MouseAssumption DEF Button
<1>1. CASE UNCHANGED vars
  BY <1>1, AccessKeepsInv
<1>2. ASSUME NEW cycle \in 1 .. Max(Instructions), Synchronize(cycle) PROVE MouseInv'
  <2>1. cycle * TicksPerCycle \in Nat
    BY <1>0, LongestInstruction DEF Longest
  <2> QED BY <1>2, <2>1, AdvanceKeepsInv DEF Synchronize, HostAdvance
<1>3. ASSUME NEW length \in Instructions, Complete(length) PROVE MouseInv'
  <2>1. length \in Nat /\ clock.synchronized \in Nat /\ length - clock.synchronized >= 0
    BY <1>3, LongestInstruction DEF Complete, CompleteInstruction, ClockInv, ClockState
  <2>2. length - clock.synchronized \in Nat
    BY <2>1
  <2>3. (length - clock.synchronized) * TicksPerCycle \in Nat
    BY <1>0, <2>2
  <2> QED BY <1>1, <1>3, <2>3, AdvanceKeepsInv DEF Complete, HostAdvance
<1>4. ASSUME NEW capture, MouseCapture(capture) PROVE MouseInv'
  BY <1>4, CaptureKeepsInv DEF MouseCapture
<1>5. ASSUME NEW button \in Pressable, NEW captures \in BOOLEAN, ButtonDown(button, captures)
      PROVE  MouseInv'
  <2>1. CASE captured
    BY <1>0, <1>5, <2>1, ButtonKeepsInv DEF ButtonDown
  <2>2. CASE ~captured
    BY <1>5, <2>2, CaptureKeepsInv DEF ButtonDown
  <2> QED BY <2>1, <2>2
<1>6. ASSUME NEW button \in Pressable, ButtonUp(button) PROVE MouseInv'
  BY <1>0, <1>1, <1>6, ButtonKeepsInv DEF ButtonUp
<1>7. ASSUME NEW dx \in Deltas, NEW dy \in Deltas, Motion(dx, dy) PROVE MouseInv'
  BY <1>0, <1>7, MotionKeepsInv DEF Motion
<1>8. ASSUME NEW signals \in TestSignals, TestSignalsSet(signals) PROVE MouseInv'
  BY <1>8, ForcedKeepsInv DEF TestSignalsSet
<1>9. CASE Access
  BY <1>9, AccessKeepsInv DEF Access
<1>10. CASE HostReset
  BY <1>10, AccessKeepsInv DEF HostReset
<1>11. ASSUME NEW key, NEW mods, KeyDown(key, mods) PROVE UNCHANGED vars
  BY <1>11 DEF KeyDown
<1>12. ASSUME NEW key, KeyUp(key) PROVE UNCHANGED vars
  BY <1>12 DEF KeyUp
<1>13. ScrollUp \/ Frame => UNCHANGED vars
  BY DEF ScrollUp, Frame
<1>14. CASE UNCHANGED hvars
  BY <1>1, <1>14 DEF hvars
<1> QED BY <1>1, <1>2, <1>3, <1>4, <1>5, <1>6, <1>7, <1>8, <1>9, <1>10, <1>11, <1>12,
           <1>13, <1>14 DEF HostNext

LEMMA MouseStarts == HostInit => MouseInv
<1> SUFFICES ASSUME Init PROVE MouseInv
  BY DEF HostInit
<1>1. EdgeInterval \in Nat \ {0} /\ Limit \in Nat
  BY MouseAssumption
<1> DEFINE zeros == [a \in Axis |-> 0]
           ticks == EdgeInterval
           yNext == FALSE
           latch == FALSE
<1>2. /\ zeros \in [Axis -> 0 .. 3] /\ zeros \in [Axis -> -Limit .. Limit]
      /\ zeros["x"] = 0 /\ zeros["y"] = 0 /\ Button \in SUBSET Wire
      /\ ticks \in 0 .. EdgeInterval /\ yNext \in BOOLEAN /\ latch \in BOOLEAN
  BY <1>1, Axes DEF Button, Wire
<1>3. mouse = [signals |-> Button, phase |-> zeros, pending |-> zeros, ticks |-> ticks,
               yNext |-> yNext, latch |-> latch]
  BY DEF Init
<1>4. /\ gate = FALSE /\ watched = FALSE /\ moved = FALSE
      /\ target = zeros /\ lead = 0 /\ slack = ticks
  BY DEF Init
<1> HIDE DEF zeros, ticks, yNext, latch
<1>5. /\ mouse \in Mouse /\ mouse.signals = Button /\ mouse.phase = zeros
      /\ mouse.pending = zeros /\ mouse.ticks = ticks
  BY <1>2, <1>3 DEF Mouse
<1>6. Idle(mouse)
  BY <1>2, <1>5 DEF Idle
<1>7. TypeOK
  <2>1. gate \in BOOLEAN /\ watched \in BOOLEAN /\ moved \in BOOLEAN
    BY <1>4
  <2>2. lead \in Int /\ slack \in Int /\ target \in [Axis -> 0 .. 3]
    BY <1>1, <1>2, <1>4
  <2> QED BY <1>5, <1>6, <2>1, <2>2 DEF TypeOK
<1>8. Balanced(mouse, target)
  <2>1. 0 = (0 - 0) % 4 /\ 0 = (0 + 0) % 4
    OBVIOUS
  <2> QED BY <1>2, <1>4, <1>5, <2>1 DEF Balanced
<1>9. ShowsPhase(mouse)
  <2> SUFFICES ASSUME NEW a \in Axis PROVE Button \cap WiresOf[a] = Gray(a, zeros[a])
    BY <1>5 DEF ShowsPhase
  <2>1. zeros[a] = 0 /\ 0 \notin GrayA /\ 0 \notin GrayB
    BY Axes DEF zeros, GrayA, GrayB
  <2>2. Gray(a, 0) = {}
    BY <2>1, Axes DEF Gray
  <2> QED BY <2>1, <2>2, WiresApart
<1> QED BY <1>4, <1>5, <1>7, <1>8, <1>9 DEF MouseInv, InTurn, ChangesAreAnnounced

(* No motion of the mouse is lost or invented: the phases the encoders     *)
(* show and the motion still queued always add up to what the host has     *)
(* queued, and the wires show the phases (mouse_motion, advance_mouse).    *)
THEOREM MotionAlwaysConserved == HostSpec => []MotionIsConserved
<1> DEFINE Inv == MouseInv /\ ClockInv
<1>1. HostInit => Inv
  BY MouseStarts, ClockStarts
<1>2. Inv /\ [HostNext]_hvars => Inv'
  BY MouseStep, ClockStep
<1>3. Inv => MotionIsConserved
  BY MouseInvSuffices
<1> QED BY <1>1, <1>2, <1>3, PTL DEF HostSpec

(* From a rest on there is at most one edge more than intervals, and the   *)
(* axes take turns while both wait, for every interval, every limit of the *)
(* queues, all motions and however advance_time cuts the time.             *)
THEOREM EdgesAlwaysSpaced == HostSpec => []EdgesAreSpaced
<1> DEFINE Inv == MouseInv /\ ClockInv
<1>1. HostInit => Inv
  BY MouseStarts, ClockStarts
<1>2. Inv /\ [HostNext]_hvars => Inv'
  BY MouseStep, ClockStep
<1>3. Inv => EdgesAreSpaced
  BY MouseInvSuffices
<1> QED BY <1>1, <1>2, <1>3, PTL DEF HostSpec

(* A program that keeps PA3 open hears of every change of a wire since it  *)
(* read group 70h: the latch behind I3 is up (update_mouse_signals).       *)
THEOREM ChangesAlwaysAnnounced == HostSpec => []ChangesAreAnnounced
<1> DEFINE Inv == MouseInv /\ ClockInv
<1>1. HostInit => Inv
  BY MouseStarts, ClockStarts
<1>2. Inv /\ [HostNext]_hvars => Inv'
  BY MouseStep, ClockStep
<1>3. Inv => ChangesAreAnnounced
  BY MouseInvSuffices
<1> QED BY <1>1, <1>2, <1>3, PTL DEF HostSpec

(* What each turn of the loop does to the buttons' wires. *)
LEMMA ButtonsStep ==
  ASSUME \A signals \in TestSignals : Button \subseteq signals,
         MouseInv, ClockInv, ButtonsAreHeld, [HostNext]_hvars
  PROVE  ButtonsAreHeld'
<1>0. /\ TicksPerCycle \in Nat /\ Deltas \subseteq Int /\ Pressable \subseteq Button
      /\ mouse \in Mouse
  BY ClockAssumption, MouseAssumption DEF Button, MouseInv, TypeOK
<1>1. ASSUME mouse'.signals \cap Button = mouse.signals \cap Button, UNCHANGED hand
      PROVE  ButtonsAreHeld'
  BY <1>1 DEF ButtonsAreHeld, hand
<1>2. ASSUME UNCHANGED <<vars, hand>> PROVE ButtonsAreHeld'
  BY <1>1, <1>2 DEF vars
<1>3. ASSUME NEW cycle \in 1 .. Max(Instructions), Synchronize(cycle) PROVE ButtonsAreHeld'
  <2>1. cycle * TicksPerCycle \in Nat
    BY <1>0, LongestInstruction DEF Longest
  <2> QED BY <1>1, <1>3, <2>1, AdvanceKeepsInv DEF Synchronize, HostAdvance
<1>4. ASSUME NEW length \in Instructions, Complete(length) PROVE ButtonsAreHeld'
  <2>1. length \in Nat /\ clock.synchronized \in Nat /\ length - clock.synchronized >= 0
    BY <1>4, LongestInstruction DEF Complete, CompleteInstruction, ClockInv, ClockState
  <2>2. length - clock.synchronized \in Nat
    BY <2>1
  <2>3. (length - clock.synchronized) * TicksPerCycle \in Nat
    BY <1>0, <2>2
  <2> QED BY <1>1, <1>2, <1>4, <2>3, AdvanceKeepsInv DEF Complete, HostAdvance
<1>5. ASSUME NEW capture \in BOOLEAN, MouseCapture(capture) PROVE ButtonsAreHeld'
  <2>1. /\ SetMouseCapture(capture) /\ captured' = capture /\ holding' = holding
        /\ mouse'.signals = IF captured /\ ~capture THEN mouse.signals \cup Button
                            ELSE mouse.signals
    BY <1>5, CaptureKeepsInv DEF MouseCapture, SetMouseCapture
  <2> QED BY <2>1 DEF ButtonsAreHeld
<1>6. ASSUME NEW button \in Pressable, NEW captures \in BOOLEAN, ButtonDown(button, captures)
      PROVE  ButtonsAreHeld'
  <2>1. holding' = holding \cup {button} /\ button \in Button
    BY <1>0, <1>6 DEF ButtonDown
  <2>2. CASE captured
    <3>1. captured' = captured /\ mouse'.signals = mouse.signals \ {button}
      BY <1>6, <2>1, <2>2, ButtonKeepsInv DEF ButtonDown
    <3> QED BY <2>1, <2>2, <3>1 DEF ButtonsAreHeld
  <2>3. CASE ~captured
    <3>1. mouse'.signals = mouse.signals
      BY <1>6, <2>3, CaptureKeepsInv DEF ButtonDown
    <3> QED BY <2>1, <2>3, <3>1 DEF ButtonsAreHeld
  <2> QED BY <2>2, <2>3
<1>7. ASSUME NEW button \in Pressable, ButtonUp(button) PROVE ButtonsAreHeld'
  <2>1. holding' = holding \ {button} /\ captured' = captured /\ button \in Button
    BY <1>0, <1>7 DEF ButtonUp
  <2>2. CASE captured
    <3>1. mouse'.signals = mouse.signals \cup {button}
      BY <1>7, <2>1, <2>2, ButtonKeepsInv DEF ButtonUp
    <3> QED BY <2>1, <2>2, <3>1 DEF ButtonsAreHeld
  <2>3. CASE ~captured
    <3>1. mouse' = mouse
      BY <1>7, <2>3 DEF ButtonUp, vars
    <3> QED BY <2>1, <2>3, <3>1 DEF ButtonsAreHeld
  <2> QED BY <2>2, <2>3
<1>8. ASSUME NEW dx \in Deltas, NEW dy \in Deltas, Motion(dx, dy) PROVE ButtonsAreHeld'
  BY <1>0, <1>1, <1>8, MotionKeepsInv DEF Motion
<1>9. ASSUME NEW signals \in TestSignals, TestSignalsSet(signals) PROVE ButtonsAreHeld'
  <2>1. mouse'.signals = signals
    BY <1>9, ForcedKeepsInv DEF TestSignalsSet
  <2> QED BY <2>1 DEF ButtonsAreHeld
<1>10. CASE Access
  <2>1. mouse'.signals = mouse.signals
    BY <1>10, AccessKeepsInv DEF Access
  <2> QED BY <1>1, <1>10, <2>1 DEF Access
<1>11. CASE HostReset
  <2>1. mouse'.signals = mouse.signals
    BY <1>11, AccessKeepsInv DEF HostReset
  <2> QED BY <1>1, <1>11, <2>1 DEF HostReset
<1>12. ASSUME NEW key, NEW mods, KeyDown(key, mods) PROVE UNCHANGED <<vars, hand>>
  BY <1>12 DEF KeyDown
<1>13. ASSUME NEW key, KeyUp(key) PROVE UNCHANGED <<vars, hand>>
  BY <1>13 DEF KeyUp
<1>14. ScrollUp \/ Frame => UNCHANGED <<vars, hand>>
  BY DEF ScrollUp, Frame
<1>15. CASE UNCHANGED hvars
  BY <1>2, <1>15 DEF hvars
<1> QED BY <1>2, <1>3, <1>4, <1>5, <1>6, <1>7, <1>8, <1>9, <1>10, <1>11, <1>12,
           <1>13, <1>14, <1>15 DEF HostNext

(* A button the machine sees down is one the user holds on a captured      *)
(* mouse, whatever captures and releases it, if what forces the levels     *)
(* leaves both buttons high: the program never forces any, only a test     *)
(* calls set_mouse_signals.                                                *)
THEOREM ButtonsAlwaysHeld ==
  ASSUME \A signals \in TestSignals : Button \subseteq signals
  PROVE  HostSpec => []ButtonsAreHeld
<1> DEFINE Inv == MouseInv /\ ClockInv /\ ButtonsAreHeld
<1>1. HostInit => Inv
  <2>1. HostInit => ButtonsAreHeld
    BY DEF HostInit, Init, ButtonsAreHeld
  <2> QED BY <2>1, MouseStarts, ClockStarts
<1>2. Inv /\ [HostNext]_hvars => Inv'
  BY MouseStep, ClockStep, ButtonsStep
<1>3. Inv => ButtonsAreHeld
  OBVIOUS
<1> QED BY <1>1, <1>2, <1>3, PTL DEF HostSpec

----------------------------------------------------------------------------
(* The disk images: sizes and lengths. *)

LEMMA Sizes ==
  /\ Sectors \in Nat \ {0} /\ DataBytes \in Nat \ {0} /\ Skew \in Nat \ {0}
  /\ \A g \in {"before", "zeros", "after", "id", "data", "track"} : Gap[g] \in Nat \ {0}
  /\ ImageSize \in Nat \ {0} /\ ImageSize = Sectors * DataBytes
  /\ Sector = 1 .. Sectors
<1>1. /\ Sectors \in Nat \ {0} /\ DataBytes \in Nat \ {0} /\ Skew \in Nat \ {0}
      /\ \A g \in {"before", "zeros", "after", "id", "data", "track"} : Gap[g] \in Nat \ {0}
  BY ImageAssumption
<1>2. Sectors * DataBytes \in Nat \ {0}
  BY <1>1
<1> QED BY <1>1, <1>2 DEF ImageSize, Sector

----------------------------------------------------------------------------
(* The places of the sectors. *)

LEMMA Places ==
  \A s \in Sector : MapIndex[s] \in 0 .. Sectors - 1
<1> DEFINE D == Sector
           T == [D -> Int]
           Solves(g) == g = [s \in D |-> IF s = 1 THEN 0
                                         ELSE LET next == g[s - 1] + Skew
                                              IN IF next >= Sectors THEN next - (Sectors - 1) ELSE next]
           step == [g \in T |-> [s \in D |-> IF s = 1 THEN 0
                                  ELSE LET next == g[s - 1] + Skew
                                       IN IF next >= Sectors THEN next - (Sectors - 1) ELSE next]]
           m == [s \in D |-> s]
           P == {s \in D : MapIndex[s] \in Nat}
<1>1. /\ Sectors \in Nat \ {0} /\ Skew \in Nat /\ D = 1 .. Sectors
  BY Sizes
<1>2. \A s \in D : s # 1 => s - 1 \in D /\ m[s - 1] < m[s] /\ s \in Nat
  BY <1>1
<1> HIDE DEF D
<1>3. step \in [T -> T] /\ m \in [D -> Nat]
  <2>1. m \in [D -> Nat]
    BY <1>1
  <2>2. ASSUME NEW g \in T PROVE step[g] \in T
    <3>1. \A s \in D : s # 1 => g[s - 1] \in Int
      BY <1>2
    <3> QED BY <1>1, <3>1
  <2>3. step \in [T -> T]
    <3> HIDE DEF T
    <3> QED BY <2>2
  <2> QED BY <2>1, <2>3
<1>4. \A g, h \in T : \A s \in D :
        (\A t \in D : m[t] < m[s] => g[t] = h[t]) => step[g][s] = step[h][s]
  BY <1>2
<1>5. PICK f \in T : f = step[f]
  <2>1. Descends(step, D, Int, m)
    <3> HIDE DEF step, m
    <3> QED BY <1>3, <1>4 DEF Descends
  <2>2. \E g \in [D -> Int] : g = step[g]
    <3> HIDE DEF step, m
    <3> QED BY <2>1, Fixpoint
  <2> QED BY <2>2
<1>6. Solves(f)
  BY <1>5
<1>7. Solves(MapIndex)
  <2> HIDE DEF step
  <2> QED BY <1>6, Zenon DEF MapIndex, D
<1>8. \A s \in D : (\A t \in D : m[t] < m[s] => t \in P) => s \in P
  <2>1. SUFFICES ASSUME NEW s \in D, \A t \in D : m[t] < m[s] => t \in P PROVE s \in P
    OBVIOUS
  <2>2. CASE s = 1
    BY <1>7, <2>2
  <2>3. CASE s # 1
    <3>1. MapIndex[s - 1] \in Nat
      BY <1>2, <2>1, <2>3
    <3>2. MapIndex[s] = LET next == MapIndex[s - 1] + Skew
                              IN IF next >= Sectors THEN next - (Sectors - 1) ELSE next
      BY <1>7, <2>3
    <3> QED BY <1>1, <3>1, <3>2
  <2> QED BY <2>2, <2>3
<1>9. \A s \in D : s \in P
  <2> HIDE DEF P, m
  <2> QED BY <1>3, <1>8, Descent
<1>10. \A s \in D : MapIndex[s] < Sectors
  BY SkewAssumption DEF D
<1> QED BY <1>1, <1>9, <1>10 DEF D

LEMMA SectorPlaces ==
  ASSUME NEW place \in 0 .. Sectors - 1
  PROVE  SectorAt(place) \in Sector /\ MapIndex[SectorAt(place)] = place
<1> DEFINE S == 1 .. Sectors
           T == 0 .. Sectors - 1
           f == [s \in S |-> MapIndex[s]]
<1>1. Sectors \in Nat \ {0} /\ Sector = S
  BY Sizes
<1>2. f \in [S -> T] /\ \A s, t \in S : f[s] = f[t] => s = t
  BY <1>1, Places, SkewAssumption
<1>3. /\ IsFiniteSet(S) /\ Cardinality(S) = Sectors
      /\ IsFiniteSet(T) /\ Cardinality(T) = Sectors
  BY <1>1, FS_Interval
<1>4. f \in Injection(S, T)
  BY <1>2 DEF Injection, IsInjective
<1>5. f \in Surjection(S, T)
  BY <1>3, <1>4, FS_Injection
<1>6. \E s \in Sector : MapIndex[s] = place
  <2>1. \E s \in S : f[s] = place
    BY <1>5 DEF Surjection
  <2> QED BY <1>1, <2>1
<1> QED BY <1>6 DEF SectorAt

----------------------------------------------------------------------------
(* A track made of an image. *)

FieldLength == 2 * Gap.zeros + Gap.id + Gap.data + DataBytes + 10
HeadLength == Gap.before + Gap.zeros + 1 + Gap.after
TrackLength == HeadLength + Sectors * FieldLength + Gap.track

Ints(s, n) == s \in Seq(Int) /\ Len(s) = n

LEMMA JoinInts ==
  ASSUME NEW s, NEW t, NEW m, NEW n, Ints(s, m), Ints(t, n)
  PROVE  Ints(s \o t, m + n)
BY ConcatProperties DEF Ints

LEMMA RepeatInts == ASSUME NEW n \in Nat, NEW b \in Int PROVE Ints(Repeat(n, b), n)
BY DEF Ints, Repeat

LEMMA MarkInts ==
  /\ \A m \in Int : Ints(<<m>>, 1)
  /\ IndexMark \in Int /\ IdMark \in Int /\ Mark(251) \in Int
  /\ Ints(Crc, 2)
BY DEF Ints, IndexMark, IdMark, Mark, Crc

LEMMA DataFieldInts ==
  ASSUME NEW data, Ints(data, DataBytes)
  PROVE  Ints(DataField(data), Gap.zeros + 1 + DataBytes + 2)
<1>1. Gap.zeros \in Nat /\ DataBytes \in Nat
  BY Sizes
<1>2. Ints(Repeat(Gap.zeros, 0) \o <<Mark(251)>>, Gap.zeros + 1)
  BY <1>1, RepeatInts, MarkInts, JoinInts
<1>3. Ints(Repeat(Gap.zeros, 0) \o <<Mark(251)>> \o data, Gap.zeros + 1 + DataBytes)
  BY <1>2, JoinInts
<1>4. Ints(Repeat(Gap.zeros, 0) \o <<Mark(251)>> \o data \o Crc,
           Gap.zeros + 1 + DataBytes + 2)
  BY <1>3, MarkInts, JoinInts
<1> QED BY <1>4 DEF DataField

LEMMA SectorFieldInts ==
  ASSUME NEW number \in Int, NEW s \in Int, NEW data, Ints(data, DataBytes)
  PROVE  Ints(SectorField(number, s, data), FieldLength)
<1> DEFINE z == Repeat(Gap.zeros, 0)
           i == <<IdMark, number, 0, s, 0>>
           g == Repeat(Gap.id, 255)
           d == DataField(data)
           e == Repeat(Gap.data, 255)
<1>1. Gap.zeros \in Nat /\ DataBytes \in Nat /\ Gap.id \in Nat /\ Gap.data \in Nat
  BY Sizes
<1>2. Ints(z, Gap.zeros) /\ Ints(g, Gap.id) /\ Ints(e, Gap.data) /\ Ints(Crc, 2)
  BY <1>1, RepeatInts, MarkInts
<1>3. Ints(i, 5)
  BY MarkInts DEF Ints
<1>4. Ints(d, Gap.zeros + 1 + DataBytes + 2)
  BY DataFieldInts
<1>5. SectorField(number, s, data) = z \o i \o Crc \o g \o d \o e
  BY DEF SectorField
<1> HIDE DEF z, i, g, d, e
<1>6. Ints(z \o i, Gap.zeros + 5)
  BY <1>2, <1>3, JoinInts
<1>7. Ints(z \o i \o Crc, Gap.zeros + 5 + 2)
  BY <1>2, <1>6, JoinInts
<1>8. Ints(z \o i \o Crc \o g, Gap.zeros + 5 + 2 + Gap.id)
  BY <1>2, <1>7, JoinInts
<1>9. Ints(z \o i \o Crc \o g \o d,
           Gap.zeros + 5 + 2 + Gap.id + (Gap.zeros + 1 + DataBytes + 2))
  BY <1>4, <1>8, JoinInts
<1>10. Ints(z \o i \o Crc \o g \o d \o e,
            Gap.zeros + 5 + 2 + Gap.id + (Gap.zeros + 1 + DataBytes + 2) + Gap.data)
  BY <1>2, <1>9, JoinInts
<1>11. Gap.zeros + 5 + 2 + Gap.id + (Gap.zeros + 1 + DataBytes + 2) + Gap.data = FieldLength
  BY <1>1 DEF FieldLength
<1> QED BY <1>5, <1>10, <1>11

LEMMA SectorDataInts ==
  ASSUME NEW image, Ints(image, ImageSize), NEW s \in Sector
  PROVE  Ints(SectorData(image, s), DataBytes)
<1>1. /\ Sectors \in Nat \ {0} /\ DataBytes \in Nat \ {0} /\ s \in 1 .. Sectors
      /\ ImageSize = Sectors * DataBytes
  BY Sizes
<1> DEFINE a == (s - 1) * DataBytes
           b == s * DataBytes
<1>2. a \in Nat /\ b \in Nat /\ b - a = DataBytes /\ b <= Sectors * DataBytes
  <2>1. a \in Nat /\ b \in Nat /\ b - a = DataBytes
    BY <1>1
  <2>2. (Sectors - s) * DataBytes \in Nat /\ (Sectors - s) * DataBytes = Sectors * DataBytes - b
    BY <1>1
  <2> QED BY <1>1, <2>1, <2>2
<1>3. SectorData(image, s) = SubSeq(image, a + 1, b)
  BY DEF SectorData
<1> HIDE DEF a, b
<1>4. image \in Seq(Int) /\ a + 1 \in 1 .. Len(image) + 1 /\ b \in 0 .. Len(image) /\ a + 1 <= b
  BY <1>1, <1>2 DEF Ints
<1>5. SubSeq(image, a + 1, b) \in Seq(Int) /\ Len(SubSeq(image, a + 1, b)) = b - (a + 1) + 1
  BY <1>4, SubSeqProperties
<1>6. b - (a + 1) + 1 = DataBytes
  BY <1>1, <1>2
<1> QED BY <1>3, <1>5, <1>6 DEF Ints

Begin == Repeat(Gap.before, 255) \o Repeat(Gap.zeros, 0) \o <<IndexMark>> \o Repeat(Gap.after, 255)
PlaceField(image, place) ==
  SectorField(Number, SectorAt(place), SectorData(image, SectorAt(place)))

LEMMA LayoutInts ==
  /\ HeadLength \in Nat \ {0} /\ FieldLength \in Nat \ {0} /\ TrackLength \in Nat \ {0}
  /\ Ints(Begin, HeadLength)
<1>1. /\ Sectors \in Nat /\ Gap.before \in Nat /\ Gap.zeros \in Nat /\ Gap.after \in Nat
      /\ Gap.track \in Nat \ {0} /\ Gap.id \in Nat /\ Gap.data \in Nat /\ DataBytes \in Nat
  BY Sizes
<1>2. Ints(Begin, HeadLength)
  <2>1. Ints(Repeat(Gap.before, 255) \o Repeat(Gap.zeros, 0), Gap.before + Gap.zeros)
    BY <1>1, RepeatInts, JoinInts
  <2>2. Ints(Repeat(Gap.before, 255) \o Repeat(Gap.zeros, 0) \o <<IndexMark>>,
             Gap.before + Gap.zeros + 1)
    BY <2>1, MarkInts, JoinInts
  <2>3. Ints(Begin, Gap.before + Gap.zeros + 1 + Gap.after)
    BY <1>1, <2>2, RepeatInts, JoinInts DEF Begin
  <2> QED BY <2>3 DEF HeadLength
<1>3. HeadLength \in Nat \ {0}
  <2>1. \A a, b, c \in Nat : a + b + 1 + c \in Nat \ {0}
    OBVIOUS
  <2> QED BY <1>1, <2>1, Zenon DEF HeadLength
<1>4. FieldLength \in Nat \ {0}
  <2>1. \A a, b, c, d \in Nat : 2 * a + b + c + d + 10 \in Nat \ {0}
    OBVIOUS
  <2> QED BY <1>1, <2>1, Zenon DEF FieldLength
<1>5. TrackLength \in Nat \ {0}
  <2>1. Sectors * FieldLength \in Nat
    BY <1>1, <1>4
  <2> QED BY <1>1, <1>3, <2>1 DEF TrackLength
<1> QED BY <1>2, <1>3, <1>4, <1>5

LEMMA PlaceFieldInts ==
  ASSUME NEW image, Ints(image, ImageSize), NEW place \in 0 .. Sectors - 1
  PROVE  Ints(PlaceField(image, place), FieldLength)
<1>1. Sectors \in Nat /\ Sector = 1 .. Sectors /\ Number \in Int
  BY Sizes DEF Number
<1>2. SectorAt(place) \in Sector
  BY SectorPlaces
<1>3. SectorAt(place) \in Int
  BY <1>1, <1>2
<1>4. Ints(SectorData(image, SectorAt(place)), DataBytes)
  BY <1>2, SectorDataInts
<1> QED BY <1>1, <1>3, <1>4, SectorFieldInts DEF PlaceField

(* The track grows by the field of one place after the other. *)
Grows(image, upTo) ==
  /\ upTo[0] = Begin
  /\ \A places \in 1 .. Sectors : upTo[places] = upTo[places - 1] \o PlaceField(image, places - 1)
  /\ Import(Number, image) = upTo[Sectors] \o Repeat(Gap.track, 255)

LEMMA ImportGrows ==
  ASSUME NEW image, Ints(image, ImageSize)
  PROVE  \E upTo : Grows(image, upTo)
<1> DEFINE D == 0 .. Sectors
           T == [D -> Seq(Int)]
           number == Number
           begin == Repeat(Gap.before, 255) \o Repeat(Gap.zeros, 0)
                      \o <<IndexMark>> \o Repeat(Gap.after, 255)
           field(p) == SectorField(number, SectorAt(p - 1),
                                         SectorData(image, SectorAt(p - 1)))
           upTo[places \in 0 .. Sectors] ==
             IF places = 0
             THEN Repeat(Gap.before, 255) \o Repeat(Gap.zeros, 0)
                    \o <<IndexMark>> \o Repeat(Gap.after, 255)
             ELSE LET s == SectorAt(places - 1)
                  IN upTo[places - 1] \o SectorField(number, s, SectorData(image, s))
           Solves(g) == g = [places \in 0 .. Sectors |->
             IF places = 0
             THEN Repeat(Gap.before, 255) \o Repeat(Gap.zeros, 0)
                    \o <<IndexMark>> \o Repeat(Gap.after, 255)
             ELSE LET s == SectorAt(places - 1)
                  IN g[places - 1] \o SectorField(number, s, SectorData(image, s))]
           step == [g \in T |-> [p \in D |-> IF p = 0 THEN begin ELSE g[p - 1] \o field(p)]]
           m == [p \in D |-> p]
<1>1. /\ Sectors \in Nat \ {0} /\ Gap.before \in Nat /\ Gap.zeros \in Nat /\ Gap.after \in Nat
      /\ Gap.track \in Nat \ {0} /\ Gap.id \in Nat /\ Gap.data \in Nat /\ DataBytes \in Nat
      /\ Sector = 1 .. Sectors
  BY Sizes
<1>2. number \in Int
  BY DEF Number
<1>3. Ints(begin, HeadLength)
  BY LayoutInts DEF Begin
<1>4. ASSUME NEW p \in D, p # 0 PROVE Ints(field(p), FieldLength)
  <2>1. p - 1 \in 0 .. Sectors - 1
    BY <1>1, <1>4
  <2> QED BY <2>1, PlaceFieldInts DEF PlaceField
<1>6. \A p \in D : p # 0 => p - 1 \in D /\ p \in Nat /\ p - 1 < p
  BY <1>1
<1> HIDE DEF begin, field
<1>7. m \in [D -> Nat]
  OBVIOUS
<1>8. ASSUME NEW g \in T PROVE step[g] \in T
  <2>1. \A p \in D : p # 0 => g[p - 1] \o field(p) \in Seq(Int)
    <3>1. ASSUME NEW p \in D, p # 0 PROVE g[p - 1] \o field(p) \in Seq(Int)
      <4>1. g[p - 1] \in Seq(Int) /\ field(p) \in Seq(Int)
        BY <1>4, <1>6, <3>1 DEF Ints
      <4> QED BY <4>1, ConcatProperties
    <3> QED BY <3>1
  <2>2. begin \in Seq(Int)
    BY <1>3 DEF Ints
  <2> QED BY <2>1, <2>2
<1>9. Descends(step, D, Seq(Int), m)
  <2>1. step \in [T -> T]
    <3> HIDE DEF T
    <3> QED BY <1>8
  <2>2. ASSUME NEW g \in T, NEW h \in T, NEW p \in D, \A q \in D : m[q] < m[p] => g[q] = h[q]
        PROVE  step[g][p] = step[h][p]
    <3>1. p # 0 => g[p - 1] = h[p - 1]
      BY <1>6, <2>2
    <3> HIDE DEF D
    <3> QED BY <3>1
  <2> HIDE DEF step, m, D
  <2> QED BY <1>7, <2>1, <2>2 DEF Descends
<1>10. PICK f \in T : f = step[f]
  <2>1. Seq(Int) # {}
    BY EmptySeq
  <2>2. \E g \in [D -> Seq(Int)] : g = step[g]
    <3> HIDE DEF step, m, D, T
    <3> QED BY <1>9, <2>1, Fixpoint
  <2> QED BY <2>2
<1>11. Solves(f)
  BY <1>10 DEF begin, field
<1>12. Solves(upTo)
  <2> HIDE DEF step, number
  <2> QED BY <1>11, Zenon
<1>13. Import(number, image) = upTo[Sectors] \o Repeat(Gap.track, 255)
  <2> HIDE DEF number
  <2> QED BY Zenon DEF Import
<1>14. /\ upTo[0] = begin
       /\ \A p \in D : p # 0 => upTo[p] = upTo[p - 1] \o field(p)
  <2>1. Sectors \in Nat /\ D = 0 .. Sectors
    BY <1>1
  <2> HIDE DEF upTo, number, step, m, T
  <2>2. 0 \in D /\ upTo[0] = begin
    BY <2>1, <1>12 DEF begin
  <2>3. ASSUME NEW p \in D, p # 0 PROVE upTo[p] = upTo[p - 1] \o field(p)
    BY <2>1, <2>3, <1>12 DEF field
  <2> QED BY <2>2, <2>3
<1> HIDE DEF upTo, step
<1>15. ASSUME NEW p \in 1 .. Sectors PROVE upTo[p] = upTo[p - 1] \o PlaceField(image, p - 1)
  <2>1. p \in D /\ p # 0
    BY <1>1
  <2> QED BY <1>14, <2>1 DEF field, PlaceField
<1>16. Grows(image, upTo)
  BY <1>13, <1>14, <1>15 DEF Grows, Begin, begin
<1> QED BY <1>16

LEMMA ImportInts ==
  ASSUME NEW image, Ints(image, ImageSize)
  PROVE  Ints(Import(Number, image), TrackLength) /\ TrackLength \in Nat \ {0}
<1>1. PICK upTo : Grows(image, upTo)
  BY ImportGrows
<1> DEFINE P == {n \in Nat : n <= Sectors => Ints(upTo[n], HeadLength + n * FieldLength)}
<1>2. Sectors \in Nat \ {0} /\ HeadLength \in Nat /\ FieldLength \in Nat /\ Gap.track \in Nat
  BY Sizes, LayoutInts
<1>3. 0 \in P
  BY <1>1, <1>2, LayoutInts DEF Grows
<1>4. ASSUME NEW n \in Nat, n \in P PROVE n + 1 \in P
  <2>1. SUFFICES ASSUME n + 1 <= Sectors
                 PROVE  Ints(upTo[n + 1], HeadLength + (n + 1) * FieldLength)
    OBVIOUS
  <2>2. n + 1 \in 1 .. Sectors /\ n \in 0 .. Sectors - 1 /\ (n + 1) - 1 = n
    BY <1>2, <2>1
  <2>3. Ints(upTo[n], HeadLength + n * FieldLength)
    BY <1>2, <1>4, <2>1
  <2>4. upTo[n + 1] = upTo[n] \o PlaceField(image, n)
    BY <1>1, <2>2 DEF Grows
  <2>5. Ints(upTo[n + 1], HeadLength + n * FieldLength + FieldLength)
    BY <2>2, <2>3, <2>4, PlaceFieldInts, JoinInts
  <2>6. HeadLength + n * FieldLength + FieldLength = HeadLength + (n + 1) * FieldLength
    BY <1>2
  <2> QED BY <2>5, <2>6
<1>5. \A n \in Nat : n \in P
  <2> HIDE DEF P
  <2> QED BY <1>3, <1>4, Counting
<1>6. Ints(upTo[Sectors], HeadLength + Sectors * FieldLength)
  BY <1>2, <1>5
<1>7. Ints(Import(Number, image), HeadLength + Sectors * FieldLength + Gap.track)
  BY <1>1, <1>2, <1>6, RepeatInts, JoinInts DEF Grows
<1> QED BY <1>7, LayoutInts DEF TrackLength

LEMMA BlankInts == Ints(Blank, ImageSize)
BY Sizes, RepeatInts DEF Blank

----------------------------------------------------------------------------
(* The sectors found on a track. *)

FieldBytes == [1 .. DataBytes -> 0 .. 255]
Sectorwise == [Sector -> FieldBytes \cup {<<>>}]

(* What Found makes of one place, given what it makes of the later ones.   *)
ScanOf(track, g, i, pending) ==
  LET n == Len(track) IN
  CASE i > n -> [s \in Sector |-> <<>>]
    [] i <= n /\ track[i] = IdMark ->
         IF i + 6 > n THEN g[i + 1][0]
         ELSE g[i + 7][Addressed(Number, track, i)]
    [] i <= n /\ track[i] \in DataMarks /\ pending # 0 ->
         IF i + DataBytes + 2 > n THEN g[i + 1][0]
         ELSE [g[i + DataBytes + 3][0] EXCEPT
                 ![pending] = IF @ = <<>> THEN Field(track, i) ELSE @]
    [] OTHER -> g[i + 1][pending]

LEMMA LowByte == \A x \in Int : x % 256 \in 0 .. 255
OBVIOUS

LEMMA FieldType ==
  ASSUME NEW track \in Seq(Int), NEW i \in Nat, i + DataBytes + 2 <= Len(track)
  PROVE  Field(track, i) \in FieldBytes
<1>1. DataBytes \in Nat /\ Len(track) \in Nat
  BY Sizes, LenProperties
<1>2. ASSUME NEW k \in 1 .. DataBytes PROVE track[i + k] % 256 \in 0 .. 255
  <2>1. i + k \in 1 .. Len(track)
    BY <1>1
  <2>2. track[i + k] \in Int
    BY <2>1, ElementOfSeq
  <2> QED BY <2>2, LowByte, Zenon
<1> QED BY <1>2 DEF Field, FieldBytes

LEMMA AddressedType ==
  ASSUME NEW track, NEW i
  PROVE  Addressed(Number, track, i) \in 0 .. Sectors
<1>1. Sector = 1 .. Sectors /\ Sectors \in Nat
  BY Sizes
<1> QED BY <1>1 DEF Addressed

(* Where the scan goes on, it goes on further. *)
LEMMA ScanGoesOn ==
  ASSUME NEW track \in Seq(Int), NEW i \in Nat, NEW pending \in 0 .. Sectors,
         NEW g, NEW h,
         \A j \in Nat : \A q \in 0 .. Sectors : j > i /\ i <= Len(track) => g[j][q] = h[j][q]
  PROVE  ScanOf(track, g, i, pending) = ScanOf(track, h, i, pending)
<1> DEFINE n == Len(track)
<1>1. DataBytes \in Nat /\ Sectors \in Nat /\ n \in Nat
  BY Sizes, LenProperties
<1>2. /\ i + 1 \in Nat /\ i + 1 > i /\ i + 7 \in Nat /\ i + 7 > i
      /\ i + DataBytes + 3 \in Nat /\ i + DataBytes + 3 > i /\ 0 \in 0 .. Sectors
  BY <1>1
<1>3. Addressed(Number, track, i) \in 0 .. Sectors
  BY AddressedType
<1>4. ASSUME i <= n
      PROVE  /\ g[i + 1][0] = h[i + 1][0] /\ g[i + 1][pending] = h[i + 1][pending]
             /\ g[i + DataBytes + 3][0] = h[i + DataBytes + 3][0]
             /\ g[i + 7][Addressed(Number, track, i)]
                  = h[i + 7][Addressed(Number, track, i)]
  BY <1>2, <1>3, <1>4
<1>5. CASE i > n
  <2>1. ~(i <= n)
    BY <1>1, <1>5
  <2> QED BY <1>5, <2>1 DEF ScanOf
<1>6. CASE i <= n
  <2>1. ~(i > n)
    BY <1>1, <1>6
  <2> QED BY <1>4, <1>6, <2>1, Zenon DEF ScanOf
<1> QED BY <1>1, <1>5, <1>6

LEMMA ScanType ==
  ASSUME NEW track \in Seq(Int), NEW i \in Nat, NEW pending \in 0 .. Sectors, NEW g,
         \A j \in Nat : \A q \in 0 .. Sectors : j > i /\ i <= Len(track) => g[j][q] \in Sectorwise
  PROVE  ScanOf(track, g, i, pending) \in Sectorwise
<1> DEFINE n == Len(track)
<1>1. DataBytes \in Nat /\ Sectors \in Nat /\ n \in Nat /\ Sector = 1 .. Sectors
  BY Sizes, LenProperties
<1>2. /\ i + 1 \in Nat /\ i + 1 > i /\ i + 7 \in Nat /\ i + 7 > i
      /\ i + DataBytes + 3 \in Nat /\ i + DataBytes + 3 > i /\ 0 \in 0 .. Sectors
  BY <1>1
<1>3. Addressed(Number, track, i) \in 0 .. Sectors
  BY AddressedType
<1>4. ASSUME i <= n
      PROVE  /\ g[i + 1][0] \in Sectorwise /\ g[i + 1][pending] \in Sectorwise
             /\ g[i + DataBytes + 3][0] \in Sectorwise
             /\ g[i + 7][Addressed(Number, track, i)] \in Sectorwise
  BY <1>2, <1>3, <1>4
<1>5. ASSUME i <= n, pending # 0, ~(i + DataBytes + 2 > n)
      PROVE  [g[i + DataBytes + 3][0] EXCEPT
                ![pending] = IF @ = <<>> THEN Field(track, i) ELSE @] \in Sectorwise
  <2>1. g[i + DataBytes + 3][0] \in Sectorwise
    BY <1>4, <1>5
  <2>2. Field(track, i) \in FieldBytes
    <3>1. i + DataBytes + 2 <= n
      BY <1>1, <1>5
    <3> QED BY <3>1, FieldType
  <2> DEFINE before == g[i + DataBytes + 3][0]
  <2> HIDE DEF before
  <2>3. pending \in Sector
    BY <1>1, <1>5
  <2>4. before \in Sectorwise
    BY <2>1 DEF before
  <2>5. [before EXCEPT ![pending] = IF @ = <<>> THEN Field(track, i) ELSE @] \in Sectorwise
    BY <2>2, <2>3, <2>4 DEF Sectorwise
  <2> QED BY <2>5 DEF before
<1>6. CASE i > n
  <2>1. [s \in Sector |-> <<>>] \in Sectorwise
    BY DEF Sectorwise
  <2>2. ~(i <= n)
    BY <1>1, <1>6
  <2> QED BY <1>6, <2>1, <2>2 DEF ScanOf
<1>7. CASE i <= n
  <2>1. ~(i > n)
    BY <1>1, <1>7
  <2>2. CASE track[i] = IdMark
    <3>1. ScanOf(track, g, i, pending)
            = IF i + 6 > n THEN g[i + 1][0]
              ELSE g[i + 7][Addressed(Number, track, i)]
      <4>1. ~(track[i] \in DataMarks)
        BY <2>2 DEF DataMarks, IdMark, Mark
      <4> QED BY <1>7, <2>1, <2>2, <4>1 DEF ScanOf
    <3> QED BY <1>4, <1>7, <3>1
  <2>3. CASE track[i] # IdMark /\ track[i] \in DataMarks /\ pending # 0
    <3>1. ScanOf(track, g, i, pending)
            = IF i + DataBytes + 2 > n THEN g[i + 1][0]
              ELSE [g[i + DataBytes + 3][0] EXCEPT
                      ![pending] = IF @ = <<>> THEN Field(track, i) ELSE @]
      BY <1>7, <2>1, <2>3 DEF ScanOf
    <3>2. CASE i + DataBytes + 2 > n
      BY <1>4, <1>7, <3>1, <3>2
    <3>3. CASE ~(i + DataBytes + 2 > n)
      BY <1>5, <1>7, <2>3, <3>1, <3>3, Zenon
    <3> QED BY <3>2, <3>3
  <2>4. CASE track[i] # IdMark /\ ~(track[i] \in DataMarks /\ pending # 0)
    <3>1. ScanOf(track, g, i, pending) = g[i + 1][pending]
      BY <1>7, <2>1, <2>4 DEF ScanOf
    <3> QED BY <1>4, <1>7, <3>1
  <2> QED BY <2>2, <2>3, <2>4
<1> QED BY <1>1, <1>6, <1>7

(* The scan of a track: what is found from each place on. *)
Scans(track, scan) ==
  /\ Found(Number, track) = scan[1][0]
  /\ \A i \in Nat : \A pending \in 0 .. Sectors :
       scan[i][pending] = ScanOf(track, scan, i, pending)

LEMMA FoundScans ==
  ASSUME NEW track \in Seq(Int)
  PROVE  \E scan : Scans(track, scan)
<1> DEFINE n == Len(track)
           number == Number
           Q == 0 .. Sectors
           Row == [Q -> Sectorwise]
           T == [Nat -> Row]
           scan[i \in Nat] == [pending \in 0 .. Sectors |->
             CASE i > Len(track) -> [s \in Sector |-> <<>>]
               [] i <= Len(track) /\ track[i] = IdMark ->
                    IF i + 6 > Len(track) THEN scan[i + 1][0]
                    ELSE scan[i + 7][Addressed(Number, track, i)]
               [] i <= Len(track) /\ track[i] \in DataMarks /\ pending # 0 ->
                    IF i + DataBytes + 2 > Len(track) THEN scan[i + 1][0]
                    ELSE [scan[i + DataBytes + 3][0] EXCEPT
                            ![pending] = IF @ = <<>> THEN Field(track, i) ELSE @]
               [] OTHER -> scan[i + 1][pending]]
           Solves(g) == g = [i \in Nat |-> [pending \in 0 .. Sectors |->
             CASE i > Len(track) -> [s \in Sector |-> <<>>]
               [] i <= Len(track) /\ track[i] = IdMark ->
                    IF i + 6 > Len(track) THEN g[i + 1][0]
                    ELSE g[i + 7][Addressed(Number, track, i)]
               [] i <= Len(track) /\ track[i] \in DataMarks /\ pending # 0 ->
                    IF i + DataBytes + 2 > Len(track) THEN g[i + 1][0]
                    ELSE [g[i + DataBytes + 3][0] EXCEPT
                            ![pending] = IF @ = <<>> THEN Field(track, i) ELSE @]
               [] OTHER -> g[i + 1][pending]]]
           row(g, i) == [pending \in Q |-> ScanOf(track, g, i, pending)]
           step == [g \in T |-> [i \in Nat |-> row(g, i)]]
           m == [i \in Nat |-> IF i > n THEN 0 ELSE n + 1 - i]
<1>1. n \in Nat /\ 0 \in Q
  BY Sizes, LenProperties
<1>2. \A i, j \in Nat : j > i /\ i <= n => m[j] < m[i]
  BY <1>1
<1>3. m \in [Nat -> Nat]
  BY <1>1
<1> HIDE DEF n, Q
<1>4. ASSUME NEW g \in T, NEW i \in Nat, NEW q \in Q PROVE ScanOf(track, g, i, q) \in Sectorwise
  <2>1. \A j \in Nat : \A p \in 0 .. Sectors : j > i /\ i <= Len(track) => g[j][p] \in Sectorwise
    BY DEF Q
  <2>2. q \in 0 .. Sectors
    BY DEF Q
  <2> HIDE DEF T
  <2> QED BY <2>1, <2>2, ScanType
<1>5. step \in [T -> T]
  <2>1. ASSUME NEW g \in T, NEW i \in Nat PROVE row(g, i) \in Row
    <3> HIDE DEF T
    <3> QED BY <1>4
  <2> HIDE DEF row, Row
  <2>2. \A g \in T : [i \in Nat |-> row(g, i)] \in T
    BY <2>1
  <2> HIDE DEF T
  <2> QED BY <2>2
<1>6. ASSUME NEW g \in T, NEW h \in T, NEW i \in Nat,
             \A j \in Nat : m[j] < m[i] => g[j] = h[j]
      PROVE  step[g][i] = step[h][i]
  <2>1. \A j \in Nat : \A q \in 0 .. Sectors : j > i /\ i <= Len(track) => g[j][q] = h[j][q]
    <3> HIDE DEF m, T
    <3> QED BY <1>2, <1>6 DEF n
  <2>2. \A q \in Q : ScanOf(track, g, i, q) = ScanOf(track, h, i, q)
    <3> HIDE DEF T, m
    <3> QED BY <2>1, ScanGoesOn DEF Q
  <2>3. row(g, i) = row(h, i)
    <3> HIDE DEF T, m
    <3> QED BY <2>2
  <2> HIDE DEF row, m, T
  <2> QED BY <2>3
<1>7. PICK f \in T : f = step[f]
  <2>1. Descends(step, Nat, Row, m)
    <3> HIDE DEF step, m, Row
    <3> QED BY <1>3, <1>5, <1>6 DEF Descends
  <2>2. Row # {}
    <3>1. [s \in Sector |-> <<>>] \in Sectorwise
      BY DEF Sectorwise
    <3>2. [q \in Q |-> [s \in Sector |-> <<>>]] \in Row
      BY <3>1
    <3> QED BY <3>2
  <2>3. \E g \in [Nat -> Row] : g = step[g]
    <3> DEFINE N == Nat
    <3> HIDE DEF N, step, m, Row
    <3>1. Descends(step, N, Row, m)
      BY <2>1 DEF N
    <3>2. \E g \in [N -> Row] : g = step[g]
      BY <2>2, <3>1, Fixpoint
    <3> QED BY <3>2 DEF N
  <2> QED BY <2>3
<1>8. Solves(f)
  <2>1. f = [i \in Nat |-> row(f, i)]
    <3> HIDE DEF row, T
    <3> QED BY <1>7
  <2> HIDE DEF step, m, T
  <2> QED BY <2>1 DEF ScanOf, Q
<1>9. Solves(scan)
  <2> HIDE DEF step, m, row, T
  <2> QED BY <1>8, Zenon
<1>10. Found(number, track) = scan[1][0]
  <2> QED BY Zenon DEF Found
<1>11. \A i \in Nat : \A q \in Q : scan[i][q] = ScanOf(track, scan, i, q)
  <2> HIDE DEF scan, step, m, T
  <2> QED BY <1>9, ZenonT(60) DEF ScanOf, Q
<1>12. Scans(track, scan)
  <2> HIDE DEF scan, step, m, T
  <2> QED BY <1>10, <1>11 DEF Scans, Q
<1> QED BY <1>12

LEMMA FoundType ==
  ASSUME NEW track \in Seq(Int)
  PROVE  Found(Number, track) \in Sectorwise
<1>1. PICK scan : Scans(track, scan)
  BY FoundScans
<1> DEFINE n == Len(track)
           Q == 0 .. Sectors
           m == [i \in Nat |-> IF i > n THEN 0 ELSE n + 1 - i]
           P == {i \in Nat : \A q \in Q : scan[i][q] \in Sectorwise}
<1>2. n \in Nat /\ 0 \in Q
  BY Sizes, LenProperties
<1>3. m \in [Nat -> Nat] /\ \A i, j \in Nat : j > i /\ i <= n => m[j] < m[i]
  BY <1>2
<1>4. \A i \in Nat : (\A j \in Nat : m[j] < m[i] => j \in P) => i \in P
  <2>1. SUFFICES ASSUME NEW i \in Nat, \A j \in Nat : m[j] < m[i] => j \in P PROVE i \in P
    OBVIOUS
  <2>2. \A j \in Nat : \A q \in Q : j > i /\ i <= Len(track) => scan[j][q] \in Sectorwise
    <3> HIDE DEF m
    <3> QED BY <1>3, <2>1
  <2>3. ASSUME NEW q \in Q PROVE scan[i][q] \in Sectorwise
    <3>1. ScanOf(track, scan, i, q) \in Sectorwise
      <4> HIDE DEF P
      <4> QED BY <2>2, ScanType
    <3> QED BY <1>1, <3>1 DEF Scans
  <2> QED BY <2>3
<1>5. 1 \in P
  <2>1. \A i \in Nat : i \in P
    <3> HIDE DEF P, m
    <3> QED BY <1>3, <1>4, Descent
  <2> QED BY <2>1
<1> QED BY <1>1, <1>2, <1>5 DEF Scans

(* A disk converts to an image of bytes, of the size of an image, or not.  *)
LEMMA ExportType ==
  ASSUME NEW track \in Seq(Int)
  PROVE  LET image == Export(Number, track)
         IN image # NoImage =>
              Ints(image, ImageSize) /\ \A k \in 1 .. ImageSize : image[k] \in 0 .. 255
<1> DEFINE found == Found(Number, track)
           byte(k) == found[(k - 1) \div DataBytes + 1][((k - 1) % DataBytes) + 1]
           image == Export(Number, track)
<1>1. SUFFICES ASSUME image # NoImage
               PROVE  Ints(image, ImageSize) /\ \A k \in 1 .. ImageSize : image[k] \in 0 .. 255
  OBVIOUS
<1>2. /\ \A s \in Sector : found[s] # <<>>
      /\ image = [k \in 1 .. ImageSize |-> byte(k)]
  BY <1>1 DEF Export
<1>3. /\ DataBytes \in Nat \ {0} /\ Sectors \in Nat \ {0} /\ ImageSize \in Nat
      /\ ImageSize = Sectors * DataBytes /\ Sector = 1 .. Sectors
  BY Sizes
<1>4. \A s \in Sector : found[s] \in FieldBytes
  <2>1. found \in Sectorwise
    BY FoundType
  <2> HIDE DEF found
  <2> QED BY <1>2, <2>1 DEF Sectorwise
<1> HIDE DEF found, image
<1>5. ASSUME NEW k \in 1 .. ImageSize PROVE byte(k) \in 0 .. 255
  <2> DEFINE q == (k - 1) \div DataBytes
             r == (k - 1) % DataBytes
  <2>1. k - 1 \in Nat /\ k - 1 < Sectors * DataBytes
    BY <1>3
  <2>2. q \in Nat /\ r \in 0 .. DataBytes - 1 /\ k - 1 = DataBytes * q + r
    BY <1>3, <2>1
  <2> HIDE DEF q, r
  <2>3. q < Sectors
    <3>1. DataBytes * q < Sectors * DataBytes
      BY <1>3, <2>1, <2>2
    <3>2. q >= Sectors => DataBytes * q >= Sectors * DataBytes
      <4>1. SUFFICES ASSUME q >= Sectors PROVE DataBytes * q >= Sectors * DataBytes
        OBVIOUS
      <4>2. q - Sectors \in Nat
        BY <1>3, <2>2, <4>1
      <4>3. DataBytes * (q - Sectors) \in Nat
        BY <1>3, <4>2
      <4>4. DataBytes * (q - Sectors) = DataBytes * q - Sectors * DataBytes
        BY <1>3, <2>2
      <4> QED BY <1>3, <2>2, <4>3, <4>4
    <3> QED BY <1>3, <2>2, <3>1, <3>2
  <2>4. q + 1 \in Sector /\ r + 1 \in 1 .. DataBytes
    BY <1>3, <2>2, <2>3
  <2>5. found[q + 1][r + 1] \in 0 .. 255
    BY <1>4, <2>4 DEF FieldBytes
  <2> QED BY <2>5 DEF q, r
<1>6. /\ \A k \in 1 .. ImageSize : image[k] \in 0 .. 255
      /\ Ints(image, ImageSize)
  <2> HIDE DEF byte
  <2>1. \A k \in 1 .. ImageSize : byte(k) \in Int
    <3>1. \A k \in 0 .. 255 : k \in Int
      OBVIOUS
    <3> QED BY <1>5, <3>1
  <2> QED BY <1>2, <1>3, <1>5, <2>1 DEF Ints
<1> QED BY <1>6 DEF image

----------------------------------------------------------------------------
(* Where the bytes of an image are on its track. *)

Joins(u, s, t, m, n) ==
  /\ Ints(u, m + n)
  /\ \A k \in 1 .. m : u[k] = s[k]
  /\ \A k \in m + 1 .. m + n : u[k] = t[k - m]

LEMMA Joining ==
  ASSUME NEW s, NEW t, NEW m \in Nat, NEW n \in Nat, Ints(s, m), Ints(t, n)
  PROVE  Joins(s \o t, s, t, m, n)
<1>1. s \in Seq(Int) /\ t \in Seq(Int) /\ Len(s) = m /\ Len(t) = n
  BY DEF Ints
<1>2. \A j \in 1 .. Len(s) + Len(t) : (s \o t)[j] = IF j <= Len(s) THEN s[j] ELSE t[j - Len(s)]
  BY <1>1, ConcatProperties
<1>3. ASSUME NEW k \in m + 1 .. m + n PROVE (s \o t)[k] = t[k - m]
  <2>1. k \in 1 .. Len(s) + Len(t) /\ ~(k <= Len(s))
    BY <1>1
  <2>2. (s \o t)[k] = t[k - Len(s)]
    BY <1>2, <2>1, Zenon
  <2> QED BY <1>1, <2>2
<1>4. ASSUME NEW k \in 1 .. m PROVE (s \o t)[k] = s[k]
  <2>1. k \in 1 .. Len(s) + Len(t) /\ k <= Len(s)
    BY <1>1
  <2> QED BY <1>2, <2>1, Zenon
<1>5. Ints(s \o t, m + n)
  BY JoinInts
<1> DEFINE u == s \o t
<1>6. /\ Ints(u, m + n) /\ (\A k \in 1 .. m : u[k] = s[k])
      /\ \A k \in m + 1 .. m + n : u[k] = t[k - m]
  BY <1>3, <1>4, <1>5
<1> HIDE DEF u
<1>7. Joins(u, s, t, m, n)
  BY <1>6 DEF Joins
<1> QED BY <1>7 DEF u

(* A data field: zeros, the mark, the data and the CRC. *)
DataLaid(f, data) ==
  /\ Ints(f, Gap.zeros + 1 + DataBytes + 2)
  /\ \A k \in 1 .. Gap.zeros : f[k] = 0
  /\ f[Gap.zeros + 1] = Mark(251)
  /\ \A k \in Gap.zeros + 2 .. Gap.zeros + 1 + DataBytes : f[k] = data[k - (Gap.zeros + 1)]
  /\ \A k \in Gap.zeros + 2 + DataBytes .. Gap.zeros + 1 + DataBytes + 2 : f[k] = 85

LEMMA CrcIs == Ints(Crc, 2) /\ \A k \in 1 .. 2 : Crc[k] = 85
<1>1. Crc[1] = 85 /\ Crc[2] = 85
  BY DEF Crc
<1>2. \A k \in 1 .. 2 : k = 1 \/ k = 2
  OBVIOUS
<1> QED BY <1>1, <1>2, MarkInts

LEMMA RepeatIs ==
  ASSUME NEW n \in Nat, NEW b \in Int
  PROVE  Ints(Repeat(n, b), n) /\ \A k \in 1 .. n : Repeat(n, b)[k] = b
<1>1. \A k \in 1 .. n : Repeat(n, b)[k] = b
  BY DEF Repeat
<1> QED BY <1>1, RepeatInts

LEMMA DataFieldLaid ==
  ASSUME NEW data, Ints(data, DataBytes)
  PROVE  DataLaid(DataField(data), data)
<1> DEFINE z == Gap.zeros
           D == DataBytes
           zeros == Repeat(z, 0)
           mark == <<Mark(251)>>
           u == zeros \o mark
           v == u \o data
           w == v \o Crc
<1>1. z \in Nat /\ D \in Nat /\ 1 \in Nat /\ 2 \in Nat
  BY Sizes
<1>2. Ints(zeros, z) /\ \A k \in 1 .. z : zeros[k] = 0
  BY <1>1, RepeatIs
<1>3. Ints(mark, 1) /\ mark[1] = Mark(251)
  BY MarkInts
<1>4. w = DataField(data)
  BY DEF DataField
<1> HIDE DEF z, D, zeros, mark
<1>5. Joins(u, zeros, mark, z, 1)
  BY <1>1, <1>2, <1>3, Joining
<1> HIDE DEF u
<1>6. Joins(v, u, data, z + 1, D)
  <2>1. z + 1 \in Nat /\ Ints(data, D)
    BY <1>1 DEF D
  <2>2. Ints(u, z + 1)
    BY <1>5 DEF Joins
  <2> QED BY <1>1, <2>1, <2>2, Joining
<1> HIDE DEF v
<1>7. Joins(w, v, Crc, z + 1 + D, 2)
  <2>1. z + 1 + D \in Nat
    BY <1>1
  <2>2. Ints(v, z + 1 + D)
    BY <1>6 DEF Joins
  <2> QED BY <1>1, <2>1, <2>2, CrcIs, Joining
<1> HIDE DEF w
<1>8. \A k \in 1 .. z : w[k] = 0
  <2>1. ASSUME NEW k \in 1 .. z PROVE w[k] = 0
    <3>1. k \in 1 .. z + 1 /\ k \in 1 .. z + 1 + D
      BY <1>1
    <3> QED BY <1>2, <1>5, <1>6, <1>7, <3>1 DEF Joins
  <2> QED BY <2>1
<1>9. w[z + 1] = Mark(251)
  <2>1. z + 1 \in 1 .. z + 1 + D /\ z + 1 \in 1 .. z + 1 /\ z + 1 \in z + 1 .. z + 1
        /\ (z + 1) - z = 1
    BY <1>1
  <2>2. u[z + 1] = mark[1]
    BY <1>5, <2>1 DEF Joins
  <2> QED BY <1>3, <1>6, <1>7, <2>1, <2>2 DEF Joins
<1>10. \A k \in z + 2 .. z + 1 + D : w[k] = data[k - (z + 1)]
  <2>1. ASSUME NEW k \in z + 2 .. z + 1 + D PROVE w[k] = data[k - (z + 1)]
    <3>1. k \in 1 .. z + 1 + D /\ k \in (z + 1) + 1 .. (z + 1) + D
      BY <1>1
    <3> QED BY <1>6, <1>7, <3>1 DEF Joins
  <2> QED BY <2>1
<1>11. \A k \in z + 2 + D .. z + 1 + D + 2 : w[k] = 85
  <2>1. ASSUME NEW k \in z + 2 + D .. z + 1 + D + 2 PROVE w[k] = 85
    <3>1. k \in (z + 1 + D) + 1 .. (z + 1 + D) + 2 /\ k - (z + 1 + D) \in 1 .. 2
      BY <1>1
    <3>2. w[k] = Crc[k - (z + 1 + D)]
      BY <1>7, <3>1 DEF Joins
    <3> QED BY <3>1, <3>2, CrcIs
  <2> QED BY <2>1
<1>12. Ints(w, z + 1 + D + 2)
  BY <1>7 DEF Joins
<1>13. DataLaid(w, data)
  BY <1>8, <1>9, <1>10, <1>11, <1>12 DEF DataLaid, z, D
<1> QED BY <1>4, <1>13 DEF w, v, u

(* What the marks are not. *)
LEMMA NoMark ==
  /\ \A b \in 0 .. 255 : b # IdMark /\ b \notin DataMarks
  /\ IndexMark # IdMark /\ IndexMark \notin DataMarks
  /\ IdMark \notin DataMarks /\ Mark(251) \in DataMarks /\ Mark(251) # IdMark
BY DEF IdMark, IndexMark, DataMarks, Mark

(* The field of a sector: the ID mark, the address, the data mark, the     *)
(* data; every other byte is without the clocks of a mark.                 *)
IdPlace == Gap.zeros + 1
DataPlace == 2 * Gap.zeros + Gap.id + 8
Quiet(b) == b \in 0 .. 255
Marked(field, s, data) ==
  /\ Ints(field, FieldLength)
  /\ field[IdPlace] = IdMark
  /\ field[IdPlace + 1] = 0 /\ field[IdPlace + 2] = 0
  /\ field[IdPlace + 3] = s /\ field[IdPlace + 4] = 0
  /\ field[DataPlace] = Mark(251)
  /\ \A k \in DataPlace + 1 .. DataPlace + DataBytes : field[k] = data[k - DataPlace]
  /\ \A k \in 1 .. FieldLength : k # IdPlace /\ k # DataPlace => Quiet(field[k])

LEMMA Lengths ==
  /\ IdPlace \in Nat \ {0} /\ DataPlace \in Nat /\ DataPlace >= IdPlace + 7 + Gap.id + Gap.zeros
  /\ DataPlace = IdPlace + 7 + Gap.id + Gap.zeros
  /\ FieldLength = DataPlace + DataBytes + 2 + Gap.data
  /\ Gap.data \in Nat \ {0} /\ Gap.zeros \in Nat \ {0} /\ Gap.id \in Nat \ {0}
  /\ DataBytes \in Nat \ {0} /\ FieldLength \in Nat
<1>1. /\ Gap.zeros \in Nat \ {0} /\ Gap.id \in Nat \ {0} /\ Gap.data \in Nat \ {0}
      /\ DataBytes \in Nat \ {0}
  BY Sizes
<1> QED BY <1>1 DEF IdPlace, DataPlace, FieldLength

LEMMA FieldMarked ==
  ASSUME NEW s \in 0 .. 255, NEW data, Ints(data, DataBytes),
         \A k \in 1 .. DataBytes : Quiet(data[k])
  PROVE  Marked(SectorField(Number, s, data), s, data)
<1> DEFINE z == Gap.zeros
           g == Gap.id
           e == Gap.data
           D == DataBytes
           zeros == Repeat(z, 0)
           id == <<IdMark, 0, 0, s, 0>>
           gap == Repeat(g, 255)
           field == DataField(data)
           end == Repeat(e, 255)
           t == zeros \o id
           u == t \o Crc
           v == u \o gap
           w == v \o field
           x == w \o end
<1>1. /\ z \in Nat /\ g \in Nat /\ e \in Nat /\ D \in Nat /\ 5 \in Nat /\ 2 \in Nat
      /\ z + 5 \in Nat /\ z + 7 \in Nat /\ z + 7 + g \in Nat /\ z + 1 + D + 2 \in Nat
      /\ z + 7 + g + (z + 1 + D + 2) \in Nat
  <2>1. z \in Nat /\ g \in Nat /\ e \in Nat /\ D \in Nat
    BY Sizes
  <2> HIDE DEF z, g, e, D
  <2> QED BY <2>1
<1>2. x = SectorField(Number, s, data)
  BY DEF SectorField, Number
<1>3. /\ Ints(zeros, z) /\ \A k \in 1 .. z : zeros[k] = 0
  BY <1>1, RepeatIs
<1>4. /\ Ints(gap, g) /\ \A k \in 1 .. g : gap[k] = 255
  BY <1>1, RepeatIs
<1>5. /\ Ints(end, e) /\ \A k \in 1 .. e : end[k] = 255
  BY <1>1, RepeatIs
<1>6. /\ Ints(id, 5)
      /\ id[1] = IdMark /\ id[2] = 0 /\ id[3] = 0 /\ id[4] = s /\ id[5] = 0
  <2>1. s \in Int /\ IdMark \in Int
    BY MarkInts
  <2> QED BY <2>1 DEF Ints
<1>7. DataLaid(field, data) /\ Ints(field, z + 1 + D + 2)
  BY DataFieldLaid DEF DataLaid
<1> HIDE DEF z, g, e, D, zeros, id, gap, field, end
<1>8. Joins(t, zeros, id, z, 5)
  BY <1>1, <1>3, <1>6, Joining
<1> HIDE DEF t
<1>9. Joins(u, t, Crc, z + 5, 2)
  <2>1. Ints(t, z + 5)
    BY <1>8 DEF Joins
  <2> QED BY <1>1, CrcIs, <2>1, Joining
<1> HIDE DEF u
<1>10. Joins(v, u, gap, z + 7, g)
  <2>1. Ints(u, z + 7)
    <3>1. z + 5 + 2 = z + 7
      BY <1>1
    <3> QED BY <1>9, <3>1 DEF Joins
  <2> QED BY <1>1, <1>4, <2>1, Joining
<1> HIDE DEF v
<1>11. Joins(w, v, field, z + 7 + g, z + 1 + D + 2)
  <2>1. Ints(v, z + 7 + g)
    BY <1>10 DEF Joins
  <2> QED BY <1>1, <1>7, <2>1, Joining
<1> HIDE DEF w
<1>12. Joins(x, w, end, z + 7 + g + (z + 1 + D + 2), e)
  <2>1. Ints(w, z + 7 + g + (z + 1 + D + 2))
    BY <1>11 DEF Joins
  <2> QED BY <1>1, <1>5, <2>1, Joining
<1> HIDE DEF x
<1>13. IdPlace = z + 1 /\ DataPlace = z + 7 + g + (z + 1)
       /\ FieldLength = z + 7 + g + (z + 1 + D + 2) + e
  BY <1>1 DEF IdPlace, DataPlace, FieldLength, z, g, e, D
<1>14. \A k \in 1 .. z : x[k] = 0
  <2>1. ASSUME NEW k \in 1 .. z PROVE x[k] = 0
    <3>1. /\ k \in 1 .. z + 5 /\ k \in 1 .. z + 7 /\ k \in 1 .. z + 7 + g
          /\ k \in 1 .. z + 7 + g + (z + 1 + D + 2)
      BY <1>1
    <3> QED BY <1>3, <1>8, <1>9, <1>10, <1>11, <1>12, <3>1 DEF Joins
  <2> QED BY <2>1
<1>15. \A k \in z + 1 .. z + 5 : x[k] = id[k - z]
  <2>1. ASSUME NEW k \in z + 1 .. z + 5 PROVE x[k] = id[k - z]
    <3>1. /\ k \in 1 .. z + 5 /\ k \in 1 .. z + 7 /\ k \in 1 .. z + 7 + g
          /\ k \in 1 .. z + 7 + g + (z + 1 + D + 2)
      BY <1>1
    <3> QED BY <1>8, <1>9, <1>10, <1>11, <1>12, <3>1 DEF Joins
  <2> QED BY <2>1
<1>16. \A k \in z + 6 .. z + 7 : x[k] = 85
  <2>1. ASSUME NEW k \in z + 6 .. z + 7 PROVE x[k] = 85
    <3>1. /\ k \in (z + 5) + 1 .. (z + 5) + 2 /\ k \in 1 .. z + 7 /\ k \in 1 .. z + 7 + g
          /\ k \in 1 .. z + 7 + g + (z + 1 + D + 2) /\ k - (z + 5) \in 1 .. 2
      BY <1>1
    <3>2. x[k] = u[k]
      BY <1>10, <1>11, <1>12, <3>1 DEF Joins
    <3>3. u[k] = Crc[k - (z + 5)]
      BY <1>9, <3>1 DEF Joins
    <3> QED BY <3>1, <3>2, <3>3, CrcIs
  <2> QED BY <2>1
<1>17. \A k \in z + 8 .. z + 7 + g : x[k] = 255
  <2>1. ASSUME NEW k \in z + 8 .. z + 7 + g PROVE x[k] = 255
    <3>1. /\ k \in (z + 7) + 1 .. (z + 7) + g /\ k \in 1 .. z + 7 + g
          /\ k \in 1 .. z + 7 + g + (z + 1 + D + 2) /\ k - (z + 7) \in 1 .. g
      BY <1>1
    <3>2. x[k] = v[k]
      BY <1>11, <1>12, <3>1 DEF Joins
    <3>3. v[k] = gap[k - (z + 7)]
      BY <1>10, <3>1 DEF Joins
    <3> QED BY <1>4, <3>1, <3>2, <3>3
  <2> QED BY <2>1
<1>18. \A k \in z + 8 + g .. z + 7 + g + (z + 1 + D + 2) : x[k] = field[k - (z + 7 + g)]
  <2>1. ASSUME NEW k \in z + 8 + g .. z + 7 + g + (z + 1 + D + 2) PROVE x[k] = field[k - (z + 7 + g)]
    <3>1. /\ k \in (z + 7 + g) + 1 .. (z + 7 + g) + (z + 1 + D + 2)
          /\ k \in 1 .. z + 7 + g + (z + 1 + D + 2)
      BY <1>1
    <3>2. x[k] = w[k]
      BY <1>12, <3>1 DEF Joins
    <3> QED BY <1>11, <3>1, <3>2 DEF Joins
  <2> QED BY <2>1
<1>19. \A k \in z + 8 + g + (z + 1 + D + 2) .. FieldLength : x[k] = 255
  <2>1. ASSUME NEW k \in z + 8 + g + (z + 1 + D + 2) .. FieldLength PROVE x[k] = 255
    <3> DEFINE m == z + 7 + g + (z + 1 + D + 2)
    <3>1. m \in Nat /\ k \in m + 1 .. m + e /\ k - m \in 1 .. e
      BY <1>1, <1>13
    <3>2. Joins(x, w, end, m, e)
      BY <1>12
    <3> HIDE DEF m
    <3>3. x[k] = end[k - m]
      BY <3>1, <3>2 DEF Joins
    <3> QED BY <1>5, <3>1, <3>3
  <2> QED BY <2>1
<1>20. /\ \A k \in 1 .. z : field[k] = 0
       /\ field[z + 1] = Mark(251)
       /\ \A k \in z + 2 .. z + 1 + D : field[k] = data[k - (z + 1)]
       /\ \A k \in z + 2 + D .. z + 1 + D + 2 : field[k] = 85
  BY <1>7 DEF DataLaid, z, D
<1>21. ASSUME NEW k \in 1 .. FieldLength, k # IdPlace, k # DataPlace PROVE Quiet(x[k])
  <2>1. CASE k \in 1 .. z
    BY <1>14, <2>1 DEF Quiet
  <2>2. CASE k \in z + 1 .. z + 5
    <3>1. k - z \in 2 .. 5
      BY <1>1, <1>13, <1>21, <2>2
    <3>2. x[k] = id[k - z]
      BY <1>15, <2>2
    <3>3. \A j \in 2 .. 5 : j = 2 \/ j = 3 \/ j = 4 \/ j = 5
      OBVIOUS
    <3>4. \A j \in 2 .. 5 : id[j] \in 0 .. 255
      BY <1>6, <3>3
    <3> QED BY <3>1, <3>2, <3>4 DEF Quiet
  <2>3. CASE k \in z + 6 .. z + 7
    BY <1>16, <2>3 DEF Quiet
  <2>4. CASE k \in z + 8 .. z + 7 + g
    BY <1>17, <2>4 DEF Quiet
  <2>5. CASE k \in z + 8 + g .. z + 7 + g + (z + 1 + D + 2)
    <3> DEFINE j == k - (z + 7 + g)
    <3>1. x[k] = field[j]
      BY <1>18, <2>5
    <3>2. j \in 1 .. z + 1 + D + 2 /\ j # z + 1
      BY <1>1, <1>13, <1>21, <2>5
    <3> HIDE DEF j
    <3>3. CASE j \in 1 .. z
      BY <1>20, <3>1, <3>3 DEF Quiet
    <3>4. CASE j \in z + 2 .. z + 1 + D
      <4>1. j - (z + 1) \in 1 .. D
        BY <1>1, <3>4
      <4>2. x[k] = data[j - (z + 1)]
        BY <1>20, <3>1, <3>4
      <4> QED BY <4>1, <4>2 DEF D
    <3>5. CASE j \in z + 2 + D .. z + 1 + D + 2
      BY <1>20, <3>1, <3>5 DEF Quiet
    <3> QED BY <1>1, <3>2, <3>3, <3>4, <3>5
  <2>6. CASE k \in z + 8 + g + (z + 1 + D + 2) .. FieldLength
    BY <1>19, <2>6 DEF Quiet
  <2> QED BY <1>1, <1>13, <2>1, <2>2, <2>3, <2>4, <2>5, <2>6
<1>22. /\ x[IdPlace] = IdMark /\ x[IdPlace + 1] = 0 /\ x[IdPlace + 2] = 0
       /\ x[IdPlace + 3] = s /\ x[IdPlace + 4] = 0
  <2>1. \A j \in 1 .. 5 : x[z + j] = id[j]
    <3>1. ASSUME NEW j \in 1 .. 5 PROVE x[z + j] = id[j]
      <4>1. z + j \in z + 1 .. z + 5 /\ (z + j) - z = j
        BY <1>1
      <4>2. x[z + j] = id[(z + j) - z]
        BY <1>15, <4>1
      <4> QED BY <4>1, <4>2
    <3> QED BY <3>1
  <2>2. /\ IdPlace = z + 1 /\ IdPlace + 1 = z + 2 /\ IdPlace + 2 = z + 3 /\ IdPlace + 3 = z + 4
        /\ IdPlace + 4 = z + 5
    BY <1>1, <1>13
  <2> QED BY <1>6, <2>1, <2>2
<1>23. x[DataPlace] = Mark(251)
  <2>1. /\ DataPlace \in z + 8 + g .. z + 7 + g + (z + 1 + D + 2)
        /\ DataPlace - (z + 7 + g) = z + 1
    BY <1>1, <1>13
  <2>2. x[DataPlace] = field[DataPlace - (z + 7 + g)]
    BY <1>18, <2>1
  <2> QED BY <1>20, <2>1, <2>2
<1>24. \A k \in DataPlace + 1 .. DataPlace + D : x[k] = data[k - DataPlace]
  <2>1. ASSUME NEW k \in DataPlace + 1 .. DataPlace + D PROVE x[k] = data[k - DataPlace]
    <3> DEFINE j == k - (z + 7 + g)
    <3>1. /\ k \in z + 8 + g .. z + 7 + g + (z + 1 + D + 2)
          /\ j \in z + 2 .. z + 1 + D /\ j - (z + 1) = k - DataPlace
      BY <1>1, <1>13
    <3>2. x[k] = field[j]
      BY <1>18, <3>1
    <3> HIDE DEF j
    <3>3. field[j] = data[j - (z + 1)]
      BY <1>20, <3>1
    <3> QED BY <3>1, <3>2, <3>3
  <2> QED BY <2>1
<1>25. Ints(x, FieldLength)
  BY <1>12, <1>13 DEF Joins
<1>26. Marked(x, s, data)
  BY <1>21, <1>22, <1>23, <1>24, <1>25 DEF Marked, D
<1> QED BY <1>2, <1>26 DEF x, w, v, u, t

(* The fields follow each other. *)
FieldStart(p) == HeadLength + p * FieldLength

LEMMA Spread ==
  /\ \A p \in 0 .. Sectors : FieldStart(p) \in Nat
  /\ FieldStart(0) = HeadLength
  /\ \A p \in 0 .. Sectors - 1 : FieldStart(p + 1) = FieldStart(p) + FieldLength
  /\ \A p, q \in 0 .. Sectors : p < q => FieldStart(p) + FieldLength <= FieldStart(q)
  /\ FieldStart(Sectors) + Gap.track = TrackLength
<1>1. Sectors \in Nat /\ HeadLength \in Nat /\ FieldLength \in Nat /\ Gap.track \in Nat
  BY Sizes, LayoutInts
<1>2. ASSUME NEW p \in 0 .. Sectors PROVE FieldStart(p) \in Nat
  BY <1>1 DEF FieldStart
<1>3. FieldStart(0) = HeadLength
  BY <1>1 DEF FieldStart
<1>4. ASSUME NEW p \in 0 .. Sectors - 1 PROVE FieldStart(p + 1) = FieldStart(p) + FieldLength
  BY <1>1 DEF FieldStart
<1>5. ASSUME NEW p \in 0 .. Sectors, NEW q \in 0 .. Sectors, p < q
      PROVE  FieldStart(p) + FieldLength <= FieldStart(q)
  <2>1. PICK d \in Nat : q = p + 1 + d
    <3>1. q - p - 1 \in Nat /\ q = p + 1 + (q - p - 1)
      BY <1>1, <1>5
    <3> QED BY <3>1
  <2>2. d * FieldLength \in Nat /\ p * FieldLength \in Nat
    BY <1>1
  <2>3. q * FieldLength = p * FieldLength + FieldLength + d * FieldLength
    BY <1>1, <2>1
  <2>4. FieldStart(q) = FieldStart(p) + FieldLength + d * FieldLength
    BY <1>1, <2>2, <2>3 DEF FieldStart
  <2> QED BY <1>1, <1>2, <2>2, <2>4
<1>6. FieldStart(Sectors) + Gap.track = TrackLength
  BY DEF FieldStart, TrackLength
<1> QED BY <1>2, <1>3, <1>4, <1>5, <1>6

LEMMA InSomeField ==
  \A i \in HeadLength + 1 .. FieldStart(Sectors) :
    \E p \in 0 .. Sectors - 1 : i \in FieldStart(p) + 1 .. FieldStart(p) + FieldLength
<1> DEFINE In(i, n) == \E p \in 0 .. n - 1 : i \in FieldStart(p) + 1 .. FieldStart(p) + FieldLength
           P == {n \in Nat : n <= Sectors => \A i \in HeadLength + 1 .. FieldStart(n) : In(i, n)}
<1>1. Sectors \in Nat /\ HeadLength \in Nat /\ FieldLength \in Nat
  BY Sizes, LayoutInts
<1>2. 0 \in P
  <2>1. \A i \in HeadLength + 1 .. FieldStart(0) : FALSE
    BY <1>1, Spread
  <2> QED BY <2>1
<1>3. ASSUME NEW n \in Nat, n \in P PROVE n + 1 \in P
  <2>1. SUFFICES ASSUME n + 1 <= Sectors, NEW i \in HeadLength + 1 .. FieldStart(n + 1)
                 PROVE  In(i, n + 1)
    OBVIOUS
  <2>2. n \in 0 .. Sectors - 1 /\ n \in 0 .. Sectors /\ n <= Sectors
    BY <1>1, <2>1
  <2>3. FieldStart(n + 1) = FieldStart(n) + FieldLength /\ FieldStart(n) \in Nat
    BY <2>2, Spread
  <2>4. CASE i <= FieldStart(n)
    <3>1. i \in HeadLength + 1 .. FieldStart(n)
      BY <1>1, <2>3, <2>4
    <3>2. PICK p \in 0 .. n - 1 : i \in FieldStart(p) + 1 .. FieldStart(p) + FieldLength
      BY <1>3, <2>2, <3>1
    <3>3. p \in 0 .. (n + 1) - 1
      OBVIOUS
    <3> QED BY <3>2, <3>3
  <2>5. CASE ~(i <= FieldStart(n))
    <3>1. i \in FieldStart(n) + 1 .. FieldStart(n) + FieldLength
      BY <1>1, <2>3, <2>5
    <3>2. n \in 0 .. (n + 1) - 1
      OBVIOUS
    <3> QED BY <3>1, <3>2
  <2> QED BY <2>4, <2>5
<1>4. \A n \in Nat : n \in P
  <2> HIDE DEF P
  <2> QED BY <1>2, <1>3, Counting
<1> QED BY <1>1, <1>4

(* The bytes of an imported image. *)
Placed(track, image) ==
  /\ Ints(track, TrackLength)
  /\ \A i \in 1 .. HeadLength : track[i] = Begin[i]
  /\ \A p \in 0 .. Sectors - 1 : \A i \in FieldStart(p) + 1 .. FieldStart(p) + FieldLength :
       track[i] = PlaceField(image, p)[i - FieldStart(p)]
  /\ \A i \in FieldStart(Sectors) + 1 .. TrackLength : track[i] = 255

LEMMA ImportPlaced ==
  ASSUME NEW image, Ints(image, ImageSize)
  PROVE  Placed(Import(Number, image), image)
<1>1. PICK upTo : Grows(image, upTo)
  BY ImportGrows
<1> DEFINE In(t, n) ==
             /\ Ints(t, FieldStart(n))
             /\ \A i \in 1 .. HeadLength : t[i] = Begin[i]
             /\ \A p \in 0 .. n - 1 : \A i \in FieldStart(p) + 1 .. FieldStart(p) + FieldLength :
                  t[i] = PlaceField(image, p)[i - FieldStart(p)]
           P == {n \in Nat : n <= Sectors => In(upTo[n], n)}
<1>2. /\ Sectors \in Nat \ {0} /\ HeadLength \in Nat /\ FieldLength \in Nat /\ Gap.track \in Nat
      /\ FieldStart(0) = HeadLength
  BY Sizes, LayoutInts, Spread
<1>3. 0 \in P
  <2>1. upTo[0] = Begin
    BY <1>1 DEF Grows
  <2>2. Ints(Begin, FieldStart(0))
    BY <1>2, LayoutInts
  <2> QED BY <2>1, <2>2
<1>4. ASSUME NEW n \in Nat, n \in P PROVE n + 1 \in P
  <2>1. SUFFICES ASSUME n + 1 <= Sectors PROVE In(upTo[n + 1], n + 1)
    OBVIOUS
  <2>2. /\ n + 1 \in 1 .. Sectors /\ n \in 0 .. Sectors - 1 /\ (n + 1) - 1 = n
        /\ n \in 0 .. Sectors /\ n <= Sectors
    BY <1>2, <2>1
  <2> DEFINE t == upTo[n]
             field == PlaceField(image, n)
             u == upTo[n + 1]
  <2>3. In(t, n)
    BY <1>4, <2>2
  <2>4. u = t \o field
    BY <1>1, <2>2 DEF Grows
  <2>5. Ints(field, FieldLength)
    BY <2>2, PlaceFieldInts
  <2>6. FieldStart(n) \in Nat /\ FieldStart(n + 1) = FieldStart(n) + FieldLength /\ HeadLength <= FieldStart(n)
    <3>1. n = 0 \/ 0 < n
      OBVIOUS
    <3>2. 0 < n => FieldStart(0) + FieldLength <= FieldStart(n)
      BY <1>2, <2>2, Spread
    <3> QED BY <1>2, <2>2, <3>1, <3>2, Spread
  <2>7. Joins(t \o field, t, field, FieldStart(n), FieldLength)
    BY <1>2, <2>3, <2>5, <2>6, Joining
  <2> HIDE DEF t, u, P
  <2>8. Joins(u, t, field, FieldStart(n), FieldLength)
    BY <2>4, <2>7
  <2> HIDE DEF field
  <2>9. Ints(u, FieldStart(n + 1))
    BY <2>6, <2>8 DEF Joins
  <2>10. ASSUME NEW i \in 1 .. HeadLength PROVE u[i] = Begin[i]
    <3>1. i \in 1 .. FieldStart(n)
      BY <1>2, <2>6
    <3> QED BY <2>3, <2>8, <3>1 DEF Joins
  <2>11. ASSUME NEW p \in 0 .. (n + 1) - 1, NEW i \in FieldStart(p) + 1 .. FieldStart(p) + FieldLength
         PROVE  u[i] = PlaceField(image, p)[i - FieldStart(p)]
    <3>1. CASE p = n
      BY <2>8, <3>1 DEF Joins, field
    <3>2. CASE p # n
      <4>1. p \in 0 .. n - 1 /\ p < n /\ p \in 0 .. Sectors
        BY <1>2, <2>1, <3>2
      <4>2. FieldStart(p) + FieldLength <= FieldStart(n) /\ FieldStart(p) \in Nat
        BY <2>2, <4>1, Spread
      <4>3. i \in 1 .. FieldStart(n)
        BY <1>2, <2>6, <4>2
      <4>4. u[i] = t[i]
        BY <2>8, <4>3 DEF Joins
      <4> QED BY <2>3, <4>1, <4>4
    <3> QED BY <3>1, <3>2
  <2> QED BY <2>9, <2>10, <2>11 DEF u
<1>5. \A n \in Nat : n \in P
  <2> HIDE DEF P
  <2> QED BY <1>3, <1>4, Counting
<1> DEFINE t == upTo[Sectors]
           end == Repeat(Gap.track, 255)
           track == Import(Number, image)
<1>6. In(t, Sectors)
  BY <1>2, <1>5
<1>7. track = t \o end
  BY <1>1 DEF Grows
<1>8. Ints(end, Gap.track) /\ \A k \in 1 .. Gap.track : end[k] = 255
  BY <1>2, RepeatIs
<1>9. FieldStart(Sectors) \in Nat /\ FieldStart(Sectors) + Gap.track = TrackLength /\ HeadLength <= FieldStart(Sectors)
  <2>1. Sectors \in 0 .. Sectors /\ 0 \in 0 .. Sectors /\ 0 < Sectors
    BY <1>2
  <2>2. FieldStart(Sectors) \in Nat /\ FieldStart(0) + FieldLength <= FieldStart(Sectors)
    BY <2>1, Spread
  <2> QED BY <1>2, <2>2, Spread
<1> HIDE DEF t, end, P
<1>10. Joins(t \o end, t, end, FieldStart(Sectors), Gap.track)
  BY <1>2, <1>6, <1>8, <1>9, Joining
<1> HIDE DEF track
<1>11. Joins(track, t, end, FieldStart(Sectors), Gap.track)
  BY <1>7, <1>10
<1>12. Ints(track, TrackLength)
  BY <1>9, <1>11 DEF Joins
<1>13. ASSUME NEW i \in 1 .. HeadLength PROVE track[i] = Begin[i]
  <2>1. i \in 1 .. FieldStart(Sectors)
    BY <1>2, <1>9
  <2> QED BY <1>6, <1>11, <2>1 DEF Joins
<1>14. ASSUME NEW p \in 0 .. Sectors - 1, NEW i \in FieldStart(p) + 1 .. FieldStart(p) + FieldLength
       PROVE  track[i] = PlaceField(image, p)[i - FieldStart(p)]
  <2>1. p \in 0 .. Sectors /\ Sectors \in 0 .. Sectors /\ p < Sectors
    BY <1>2
  <2>2. FieldStart(p) + FieldLength <= FieldStart(Sectors) /\ FieldStart(p) \in Nat
    BY <2>1, Spread
  <2>3. i \in 1 .. FieldStart(Sectors)
    BY <1>2, <1>9, <2>2
  <2>4. track[i] = t[i]
    BY <1>11, <2>3 DEF Joins
  <2> QED BY <1>6, <2>4
<1>15. ASSUME NEW i \in FieldStart(Sectors) + 1 .. TrackLength PROVE track[i] = 255
  <2>1. i \in FieldStart(Sectors) + 1 .. FieldStart(Sectors) + Gap.track /\ i - FieldStart(Sectors) \in 1 .. Gap.track
    BY <1>2, <1>9
  <2>2. track[i] = end[i - FieldStart(Sectors)]
    BY <1>11, <2>1 DEF Joins
  <2> QED BY <1>8, <2>1, <2>2
<1> QED BY <1>12, <1>13, <1>14, <1>15 DEF Placed, track

LEMMA BeginIs == \A i \in 1 .. HeadLength : Begin[i] # IdMark
<1> DEFINE b == Gap.before
           z == Gap.zeros
           a == Gap.after
           first == Repeat(b, 255)
           zeros == Repeat(z, 0)
           index == <<IndexMark>>
           rest == Repeat(a, 255)
           u == first \o zeros
           v == u \o index
           w == v \o rest
<1>1. b \in Nat /\ z \in Nat /\ a \in Nat /\ 1 \in Nat /\ HeadLength = b + z + 1 + a
  BY Sizes DEF HeadLength
<1>2. Ints(first, b) /\ \A k \in 1 .. b : first[k] = 255
  BY <1>1, RepeatIs
<1>3. Ints(zeros, z) /\ \A k \in 1 .. z : zeros[k] = 0
  BY <1>1, RepeatIs
<1>4. Ints(rest, a) /\ \A k \in 1 .. a : rest[k] = 255
  BY <1>1, RepeatIs
<1>5. Ints(index, 1) /\ index[1] = IndexMark
  BY MarkInts
<1>6. w = Begin
  BY DEF Begin
<1> HIDE DEF b, z, a, first, zeros, index, rest
<1>7. Joins(u, first, zeros, b, z)
  BY <1>1, <1>2, <1>3, Joining
<1> HIDE DEF u
<1>8. Joins(v, u, index, b + z, 1)
  <2>1. Ints(u, b + z) /\ b + z \in Nat
    BY <1>1, <1>7 DEF Joins
  <2> QED BY <1>1, <1>5, <2>1, Joining
<1> HIDE DEF v
<1>9. Joins(w, v, rest, b + z + 1, a)
  <2>1. Ints(v, b + z + 1) /\ b + z + 1 \in Nat
    BY <1>1, <1>8 DEF Joins
  <2> QED BY <1>1, <1>4, <2>1, Joining
<1> HIDE DEF w
<1>10. ASSUME NEW i \in 1 .. HeadLength PROVE w[i] # IdMark
  <2>1. CASE i \in 1 .. b
    <3>1. i \in 1 .. b + z /\ i \in 1 .. b + z + 1
      BY <1>1, <2>1
    <3>2. w[i] = 255
      BY <1>2, <1>7, <1>8, <1>9, <2>1, <3>1 DEF Joins
    <3> QED BY <3>2, NoMark
  <2>2. CASE i \in b + 1 .. b + z
    <3>1. i \in 1 .. b + z /\ i \in 1 .. b + z + 1 /\ i - b \in 1 .. z
      BY <1>1, <2>2
    <3>2. w[i] = u[i]
      BY <1>8, <1>9, <3>1 DEF Joins
    <3>3. u[i] = zeros[i - b]
      BY <1>7, <2>2 DEF Joins
    <3> QED BY <1>3, <3>1, <3>2, <3>3, NoMark
  <2>3. CASE i = b + z + 1
    <3>1. i \in (b + z) + 1 .. (b + z) + 1 /\ i \in 1 .. b + z + 1 /\ i - (b + z) = 1
      BY <1>1, <2>3
    <3>2. w[i] = v[i]
      BY <1>9, <3>1 DEF Joins
    <3>3. v[i] = index[i - (b + z)]
      BY <1>8, <3>1 DEF Joins
    <3> QED BY <1>5, <3>1, <3>2, <3>3, NoMark
  <2>4. CASE i \in b + z + 2 .. HeadLength
    <3>1. i \in (b + z + 1) + 1 .. (b + z + 1) + a /\ i - (b + z + 1) \in 1 .. a
      BY <1>1, <2>4
    <3>2. w[i] = rest[i - (b + z + 1)]
      BY <1>9, <3>1 DEF Joins
    <3> QED BY <1>4, <3>1, <3>2, NoMark
  <2> QED BY <1>1, <2>1, <2>2, <2>3, <2>4
<1> QED BY <1>6, <1>10

(* The bytes of a sector in an image. *)
LEMMA SectorDataAt ==
  ASSUME NEW image, Ints(image, ImageSize), NEW s \in Sector
  PROVE  /\ (s - 1) * DataBytes \in Nat /\ (s - 1) * DataBytes + DataBytes <= ImageSize
         /\ Ints(SectorData(image, s), DataBytes)
         /\ \A k \in 1 .. DataBytes : SectorData(image, s)[k] = image[(s - 1) * DataBytes + k]
<1>1. /\ Sectors \in Nat \ {0} /\ DataBytes \in Nat \ {0} /\ s \in 1 .. Sectors
      /\ ImageSize = Sectors * DataBytes
  BY Sizes
<1> DEFINE a == (s - 1) * DataBytes
           b == s * DataBytes
<1>2. a \in Nat /\ b \in Nat /\ b = a + DataBytes /\ b <= Sectors * DataBytes
  <2>1. a \in Nat /\ b \in Nat /\ b = a + DataBytes
    BY <1>1
  <2>2. (Sectors - s) * DataBytes \in Nat /\ (Sectors - s) * DataBytes = Sectors * DataBytes - b
    BY <1>1
  <2> QED BY <1>1, <2>1, <2>2
<1>3. SectorData(image, s) = SubSeq(image, a + 1, b)
  BY DEF SectorData
<1>4. Ints(SectorData(image, s), DataBytes)
  BY SectorDataInts
<1> HIDE DEF a, b
<1>5. \A i \in 1 .. b - (a + 1) + 1 : SubSeq(image, a + 1, b)[i] = image[(a + 1) + i - 1]
  <2>1. \A i \in a + 1 .. b : image[i] \in Int
    <3>1. \A i \in a + 1 .. b : i \in 1 .. Len(image)
      BY <1>1, <1>2 DEF Ints
    <3> QED BY <3>1, ElementOfSeq DEF Ints
  <2>2. a + 1 \in Int /\ b \in Int
    BY <1>2
  <2> QED BY <2>1, <2>2, SubSeqProperties
<1>6. ASSUME NEW k \in 1 .. DataBytes PROVE SectorData(image, s)[k] = image[a + k]
  <2>1. k \in 1 .. b - (a + 1) + 1 /\ (a + 1) + k - 1 = a + k
    BY <1>1, <1>2
  <2>2. SubSeq(image, a + 1, b)[k] = image[(a + 1) + k - 1]
    BY <1>5, <2>1
  <2> QED BY <1>3, <2>1, <2>2
<1> QED BY <1>1, <1>2, <1>4, <1>6 DEF a

----------------------------------------------------------------------------
(* The tracks of disks in order: the fields of all sectors in their places *)
(* behind the Index, shifted as a whole if the format began late, and each *)
(* with a data mark that is late by no more than the gaps around it.       *)

IdAt(b, p) == b + FieldStart(p) + IdPlace
DataAt(b, p) == b + FieldStart(p) + DataPlace
Small(l) == l \in Nat /\ l <= Gap.zeros /\ l <= Gap.data

HasId(track, b, p) ==
  /\ track[IdAt(b, p)] = IdMark
  /\ track[IdAt(b, p) + 1] = 0 /\ track[IdAt(b, p) + 2] = 0
  /\ track[IdAt(b, p) + 3] = SectorAt(p) /\ track[IdAt(b, p) + 4] = 0

HasData(track, b, p, l) ==
  /\ Small(l)
  /\ track[DataAt(b, p) + l] \in DataMarks
  /\ \A i \in IdAt(b, p) + 1 .. DataAt(b, p) + l - 1 : track[i] \notin DataMarks

Laid(track, b) ==
  /\ b \in 0 .. Gap.track /\ Ints(track, TrackLength)
  /\ \A p \in 0 .. Sectors - 1 : HasId(track, b, p) /\ \E l : HasData(track, b, p, l)
  /\ \A i \in 1 .. TrackLength : track[i] = IdMark => \E p \in 0 .. Sectors - 1 : i = IdAt(b, p)

(* The data of a sector. *)
Recorded(track, b, s) ==
  Field(track, DataAt(b, MapIndex[s]) + CHOOSE l : HasData(track, b, MapIndex[s], l))

(* The places of a field are its own. *)
LEMMA FieldWithin ==
  ASSUME NEW b \in 0 .. Gap.track, NEW p \in 0 .. Sectors - 1
  PROVE  /\ b + FieldStart(p) \in Nat /\ IdAt(b, p) \in Nat /\ DataAt(b, p) \in Nat
         /\ b + FieldStart(p) < IdAt(b, p)
         /\ DataAt(b, p) = IdAt(b, p) + 7 + Gap.id + Gap.zeros
         /\ DataAt(b, p) + DataBytes + 2 + Gap.data = b + FieldStart(p) + FieldLength
         /\ b + FieldStart(p) + FieldLength <= TrackLength /\ HeadLength <= FieldStart(p)
         /\ TrackLength \in Nat /\ HeadLength \in Nat
<1>1. /\ Sectors \in Nat \ {0} /\ Gap.track \in Nat /\ p \in 0 .. Sectors /\ p < Sectors
      /\ Sectors \in 0 .. Sectors /\ TrackLength \in Nat /\ HeadLength \in Nat
      /\ 0 \in 0 .. Sectors /\ FieldStart(0) = HeadLength /\ p \in Nat
  BY Sizes, LayoutInts, Spread
<1>2. /\ FieldStart(p) \in Nat /\ FieldStart(p) + FieldLength <= FieldStart(Sectors)
      /\ FieldStart(Sectors) \in Nat /\ FieldStart(Sectors) + Gap.track = TrackLength
  BY <1>1, Spread
<1>3. HeadLength <= FieldStart(p)
  <2>1. p = 0 \/ 0 < p
    BY <1>1
  <2>2. 0 < p => FieldStart(0) + FieldLength <= FieldStart(p)
    BY <1>1, Spread
  <2> QED BY <1>1, <1>2, <2>1, <2>2, Lengths
<1>4. b \in Nat /\ b <= Gap.track
  BY <1>1
<1> QED BY <1>1, <1>2, <1>3, <1>4, Lengths DEF IdAt, DataAt

LEMMA Apart ==
  ASSUME NEW b \in 0 .. Gap.track, NEW p \in 0 .. Sectors - 1, NEW q \in 0 .. Sectors - 1, p < q
  PROVE  b + FieldStart(p) + FieldLength <= b + FieldStart(q)
<1>1. p \in 0 .. Sectors /\ q \in 0 .. Sectors /\ Sectors \in Nat /\ Gap.track \in Nat
  BY Sizes
<1>2. FieldStart(p) + FieldLength <= FieldStart(q) /\ FieldStart(p) \in Nat /\ FieldStart(q) \in Nat
  BY <1>1, Spread
<1> QED BY <1>1, <1>2, Lengths

LEMMA OneDataMark ==
  ASSUME NEW track, NEW b \in 0 .. Gap.track, NEW p \in 0 .. Sectors - 1,
         NEW l, HasData(track, b, p, l), NEW m, HasData(track, b, p, m)
  PROVE  l = m
<1>1. l \in Nat /\ m \in Nat
  BY DEF HasData, Small
<1>2. DataAt(b, p) \in Nat /\ IdAt(b, p) \in Nat /\ DataAt(b, p) > IdAt(b, p)
  BY FieldWithin, Lengths
<1>3. ~(l < m)
  <2>1. SUFFICES ASSUME l < m PROVE FALSE
    OBVIOUS
  <2>2. DataAt(b, p) + l \in IdAt(b, p) + 1 .. DataAt(b, p) + m - 1
    BY <1>1, <1>2, <2>1
  <2> QED BY <2>2 DEF HasData
<1>4. ~(m < l)
  <2>1. SUFFICES ASSUME m < l PROVE FALSE
    OBVIOUS
  <2>2. DataAt(b, p) + m \in IdAt(b, p) + 1 .. DataAt(b, p) + l - 1
    BY <1>1, <1>2, <2>1
  <2> QED BY <2>2 DEF HasData
<1> QED BY <1>1, <1>3, <1>4

LEMMA RecordedIs ==
  ASSUME NEW track, NEW b \in 0 .. Gap.track, NEW s \in Sector,
         NEW l, HasData(track, b, MapIndex[s], l)
  PROVE  Recorded(track, b, s) = Field(track, DataAt(b, MapIndex[s]) + l)
<1> DEFINE p == MapIndex[s]
           m == CHOOSE m : HasData(track, b, p, m)
<1>1. p \in 0 .. Sectors - 1
  BY Places
<1> HIDE DEF p
<1>2. HasData(track, b, p, l)
  BY DEF p
<1>3. HasData(track, b, p, m)
  BY <1>2
<1>4. m = l
  <2> HIDE DEF m
  <2> QED BY <1>1, <1>2, <1>3, OneDataMark
<1>5. Recorded(track, b, s) = Field(track, DataAt(b, p) + m)
  BY DEF Recorded, p
<1> QED BY <1>4, <1>5 DEF p

(* An image of bytes, numbered by bytes, makes a disk in order, and so     *)
(* does a format that begins late by no more than the last gap.            *)
ByteImage(image) == Ints(image, ImageSize) /\ \A k \in 1 .. ImageSize : Quiet(image[k])
Shifted(track, b, image) ==
  /\ Ints(track, TrackLength)
  /\ \A i \in 1 .. b : track[i] = 255
  /\ \A i \in b + 1 .. TrackLength : track[i] = Import(Number, image)[i - b]

LEMMA PlaceMarked ==
  ASSUME Sectors <= 255, NEW image, ByteImage(image), NEW p \in 0 .. Sectors - 1
  PROVE  /\ SectorAt(p) \in Sector
         /\ Marked(PlaceField(image, p), SectorAt(p), SectorData(image, SectorAt(p)))
<1> DEFINE s == SectorAt(p)
           data == SectorData(image, s)
<1>1. s \in Sector
  BY SectorPlaces
<1>2. s \in 0 .. 255
  <2> HIDE DEF s
  <2> QED BY <1>1, Sizes
<1> HIDE DEF s
<1>3. /\ Ints(data, DataBytes)
      /\ (s - 1) * DataBytes \in Nat /\ (s - 1) * DataBytes + DataBytes <= ImageSize
      /\ \A k \in 1 .. DataBytes : data[k] = image[(s - 1) * DataBytes + k]
  BY <1>1, SectorDataAt DEF ByteImage
<1>4. ASSUME NEW k \in 1 .. DataBytes PROVE Quiet(data[k])
  <2> DEFINE a == (s - 1) * DataBytes
  <2>1. a \in Nat /\ a + DataBytes <= ImageSize
    BY <1>3
  <2>2. data[k] = image[a + k]
    BY <1>3
  <2> HIDE DEF a
  <2>3. a + k \in 1 .. ImageSize
    BY <2>1, Sizes
  <2> QED BY <2>2, <2>3 DEF ByteImage
<1> HIDE DEF data
<1>5. Marked(SectorField(Number, s, data), s, data)
  BY <1>2, <1>3, <1>4, FieldMarked
<1> QED BY <1>1, <1>5 DEF s, data, PlaceField

LEMMA ShiftedLaid ==
  ASSUME Sectors <= 255, NEW image, ByteImage(image), NEW b \in 0 .. Gap.track,
         NEW track, Shifted(track, b, image)
  PROVE  Laid(track, b) /\ \A s \in Sector : Recorded(track, b, s) = SectorData(image, s)
<1> DEFINE whole == Import(Number, image)
           F(p) == PlaceField(image, p)
<1>1. Placed(whole, image)
  BY ImportPlaced DEF ByteImage
<1>2. /\ Ints(track, TrackLength) /\ \A i \in 1 .. b : track[i] = 255
      /\ \A i \in b + 1 .. TrackLength : track[i] = whole[i - b]
  BY DEF Shifted
<1> HIDE DEF whole
<1>3. /\ Sectors \in Nat \ {0} /\ Gap.track \in Nat /\ HeadLength \in Nat /\ TrackLength \in Nat
      /\ FieldStart(Sectors) + Gap.track = TrackLength /\ FieldStart(Sectors) \in Nat
      /\ HeadLength <= FieldStart(Sectors)
  <2>1. /\ Sectors \in Nat \ {0} /\ Gap.track \in Nat /\ HeadLength \in Nat /\ TrackLength \in Nat
        /\ FieldStart(Sectors) + Gap.track = TrackLength
    BY Sizes, LayoutInts, Spread
  <2>2. Sectors \in 0 .. Sectors /\ 0 \in 0 .. Sectors /\ 0 < Sectors /\ FieldStart(0) = HeadLength
    BY <2>1, Spread
  <2>3. FieldStart(Sectors) \in Nat /\ FieldStart(0) + FieldLength <= FieldStart(Sectors)
    BY <2>2, Spread
  <2> QED BY <2>1, <2>2, <2>3, Lengths
<1>4. ASSUME NEW p \in 0 .. Sectors - 1, NEW k \in 1 .. FieldLength
      PROVE  track[b + FieldStart(p) + k] = F(p)[k]
  <2>1. /\ b + FieldStart(p) \in Nat /\ b + FieldStart(p) + FieldLength <= TrackLength /\ HeadLength <= FieldStart(p)
    BY FieldWithin
  <2>2. FieldStart(p) \in Nat
    BY <1>3, Spread
  <2>3. /\ b + FieldStart(p) + k \in b + 1 .. TrackLength
        /\ (b + FieldStart(p) + k) - b = FieldStart(p) + k
        /\ FieldStart(p) + k \in FieldStart(p) + 1 .. FieldStart(p) + FieldLength
        /\ (FieldStart(p) + k) - FieldStart(p) = k
    BY <1>3, <2>1, <2>2, Lengths
  <2>4. track[b + FieldStart(p) + k] = whole[(b + FieldStart(p) + k) - b]
    BY <1>2, <2>3
  <2>5. whole[FieldStart(p) + k] = F(p)[(FieldStart(p) + k) - FieldStart(p)]
    BY <1>1, <2>3 DEF Placed
  <2> HIDE DEF F
  <2> QED BY <2>3, <2>4, <2>5
<1>5. ASSUME NEW p \in 0 .. Sectors - 1
      PROVE  Marked(F(p), SectorAt(p), SectorData(image, SectorAt(p)))
  BY PlaceMarked
<1> HIDE DEF F
<1>6. ASSUME NEW p \in 0 .. Sectors - 1 PROVE HasId(track, b, p)
  <2>1. \A j \in 0 .. 4 : track[IdAt(b, p) + j] = F(p)[IdPlace + j]
    <3>1. ASSUME NEW j \in 0 .. 4 PROVE track[IdAt(b, p) + j] = F(p)[IdPlace + j]
      <4>1. IdPlace + j \in 1 .. FieldLength
        BY Lengths
      <4>2. track[b + FieldStart(p) + (IdPlace + j)] = F(p)[IdPlace + j]
        BY <1>4, <4>1
      <4>3. IdAt(b, p) + j = b + FieldStart(p) + (IdPlace + j)
        BY FieldWithin, Lengths DEF IdAt
      <4> QED BY <4>2, <4>3
    <3> QED BY <3>1
  <2>2. /\ IdAt(b, p) + 0 = IdAt(b, p) /\ IdPlace + 0 = IdPlace
    BY FieldWithin, Lengths
  <2>3. /\ track[IdAt(b, p) + 0] = F(p)[IdPlace + 0]
        /\ track[IdAt(b, p) + 1] = F(p)[IdPlace + 1] /\ track[IdAt(b, p) + 2] = F(p)[IdPlace + 2]
        /\ track[IdAt(b, p) + 3] = F(p)[IdPlace + 3] /\ track[IdAt(b, p) + 4] = F(p)[IdPlace + 4]
    BY <2>1
  <2> QED BY <1>5, <2>2, <2>3 DEF HasId, Marked
<1>7. ASSUME NEW p \in 0 .. Sectors - 1 PROVE HasData(track, b, p, 0)
  <2>1. DataPlace \in 1 .. FieldLength /\ IdPlace \in Nat /\ DataPlace \in Nat
        /\ b + FieldStart(p) \in Nat /\ DataAt(b, p) + 0 = b + FieldStart(p) + DataPlace
        /\ IdAt(b, p) = b + FieldStart(p) + IdPlace
    BY FieldWithin, Lengths DEF DataAt, IdAt
  <2>2. track[DataAt(b, p) + 0] = Mark(251)
    <3>1. track[b + FieldStart(p) + DataPlace] = F(p)[DataPlace]
      BY <1>4, <2>1
    <3> QED BY <1>5, <2>1, <3>1 DEF Marked
  <2>3. ASSUME NEW i \in IdAt(b, p) + 1 .. DataAt(b, p) + 0 - 1 PROVE track[i] \notin DataMarks
    <3> DEFINE k == i - (b + FieldStart(p))
    <3>1. /\ k \in 1 .. FieldLength /\ k # IdPlace /\ k # DataPlace /\ b + FieldStart(p) + k = i
      <4> DEFINE a == b + FieldStart(p)
      <4>1. /\ a \in Nat /\ IdAt(b, p) = a + IdPlace /\ DataAt(b, p) + 0 = a + DataPlace
            /\ FieldLength \in Nat /\ k = i - a /\ DataPlace <= FieldLength
            /\ IdAt(b, p) \in Nat /\ DataAt(b, p) \in Nat
        BY <2>1, FieldWithin, Lengths
      <4> HIDE DEF a, k
      <4>2. i \in a + IdPlace + 1 .. a + DataPlace - 1
        BY <2>1, <4>1
      <4>3. k \in 1 .. FieldLength /\ k # IdPlace /\ k # DataPlace /\ a + k = i
        BY <2>1, <4>1, <4>2
      <4> QED BY <4>3 DEF a
    <3> HIDE DEF k
    <3>2. track[i] = F(p)[k]
      BY <1>4, <3>1
    <3>3. Quiet(F(p)[k])
      BY <1>5, <3>1 DEF Marked
    <3> QED BY <3>2, <3>3, NoMark DEF Quiet
  <2>4. Small(0)
    BY Lengths DEF Small
  <2> QED BY <2>2, <2>3, <2>4, NoMark DEF HasData
<1>8. ASSUME NEW i \in 1 .. TrackLength, track[i] = IdMark
      PROVE  \E p \in 0 .. Sectors - 1 : i = IdAt(b, p)
  <2>1. CASE i <= b
    <3>1. i \in 1 .. b
      BY <1>3, <2>1
    <3>2. track[i] = 255
      BY <1>2, <3>1
    <3> QED BY <1>8, <3>2, NoMark
  <2>2. CASE ~(i <= b)
    <3> DEFINE j == i - b
    <3>1. i \in b + 1 .. TrackLength /\ j \in 1 .. TrackLength /\ i = b + j
      BY <1>3, <2>2
    <3>2. track[i] = whole[j]
      BY <1>2, <3>1
    <3> HIDE DEF j
    <3>3. CASE j \in 1 .. HeadLength
      BY <1>1, <1>8, <3>2, <3>3, BeginIs DEF Placed
    <3>4. CASE j \in FieldStart(Sectors) + 1 .. TrackLength
      <4>1. whole[j] = 255
        BY <1>1, <3>4 DEF Placed
      <4> QED BY <1>8, <3>2, <4>1, NoMark
    <3>5. CASE j \in HeadLength + 1 .. FieldStart(Sectors)
      <4>1. PICK p \in 0 .. Sectors - 1 : j \in FieldStart(p) + 1 .. FieldStart(p) + FieldLength
        BY <3>5, InSomeField
      <4> DEFINE k == j - FieldStart(p)
      <4>2. FieldStart(p) \in Nat /\ b \in Nat
        BY <1>3, Spread
      <4>3. k \in 1 .. FieldLength /\ b + FieldStart(p) + k = i
        BY <3>1, <4>1, <4>2, Lengths
      <4> HIDE DEF k
      <4>4. F(p)[k] = IdMark
        BY <1>4, <1>8, <4>3
      <4>5. k = IdPlace
        <5>1. k # DataPlace
          BY <1>5, <4>4, NoMark DEF Marked
        <5>2. ~Quiet(F(p)[k])
          BY <4>4, NoMark DEF Quiet
        <5> QED BY <1>5, <4>3, <5>1, <5>2 DEF Marked
      <4>6. i = IdAt(b, p)
        BY <4>3, <4>5 DEF IdAt
      <4> QED BY <4>6
    <3> QED BY <1>3, <3>1, <3>3, <3>4, <3>5
  <2> QED BY <2>1, <2>2
<1>9. Laid(track, b)
  BY <1>2, <1>6, <1>7, <1>8 DEF Laid
<1>10. ASSUME NEW s \in Sector PROVE Recorded(track, b, s) = SectorData(image, s)
  <2> DEFINE p == MapIndex[s]
             data == SectorData(image, s)
  <2>1. p \in 0 .. Sectors - 1 /\ SectorAt(p) = s
    <3>1. p \in 0 .. Sectors - 1
      BY Places
    <3>2. SectorAt(p) \in Sector /\ MapIndex[SectorAt(p)] = p
      BY <3>1, SectorPlaces
    <3> QED BY <3>1, <3>2, SkewAssumption
  <2>2. Recorded(track, b, s) = Field(track, DataAt(b, p) + 0)
    BY <1>7, <2>1, RecordedIs
  <2>3. /\ Ints(data, DataBytes)
        /\ (s - 1) * DataBytes \in Nat /\ (s - 1) * DataBytes + DataBytes <= ImageSize
        /\ \A k \in 1 .. DataBytes : data[k] = image[(s - 1) * DataBytes + k]
    BY SectorDataAt DEF ByteImage
  <2> HIDE DEF p
  <2>4. Marked(F(p), s, data)
    BY <1>5, <2>1
  <2>5. ASSUME NEW k \in 1 .. DataBytes
        PROVE  track[DataAt(b, p) + 0 + k] % 256 = data[k]
    <3>1. /\ DataPlace + k \in 1 .. FieldLength /\ (DataPlace + k) - DataPlace = k
          /\ DataPlace + k \in DataPlace + 1 .. DataPlace + DataBytes
          /\ DataAt(b, p) + 0 + k = b + FieldStart(p) + (DataPlace + k)
      BY <2>1, FieldWithin, Lengths DEF DataAt
    <3>2. track[b + FieldStart(p) + (DataPlace + k)] = F(p)[DataPlace + k]
      BY <1>4, <2>1, <3>1
    <3>3. F(p)[DataPlace + k] = data[k]
      BY <2>4, <3>1 DEF Marked
    <3>4. data[k] \in 0 .. 255
      <4> DEFINE a == (s - 1) * DataBytes
      <4>1. a \in Nat /\ a + DataBytes <= ImageSize /\ data[k] = image[a + k]
        BY <2>3
      <4> HIDE DEF a, data
      <4>2. a + k \in 1 .. ImageSize
        BY <4>1, Sizes
      <4> QED BY <4>1, <4>2 DEF ByteImage, Quiet
    <3>5. \A x \in 0 .. 255 : x % 256 = x
      OBVIOUS
    <3> HIDE DEF data
    <3> QED BY <3>1, <3>2, <3>3, <3>4, <3>5
  <2>6. Field(track, DataAt(b, p) + 0) = [k \in 1 .. DataBytes |-> data[k]]
    <3> HIDE DEF data
    <3> QED BY <2>5 DEF Field
  <2>7. data = [k \in 1 .. DataBytes |-> data[k]]
    <3> HIDE DEF data
    <3>1. data \in [1 .. DataBytes -> Int]
      BY <2>3, LenProperties DEF Ints
    <3> QED BY <3>1
  <2> QED BY <2>2, <2>6, <2>7
<1> QED BY <1>9, <1>10

LEMMA ImportLaid ==
  ASSUME Sectors <= 255, NEW image, ByteImage(image)
  PROVE  /\ Laid(Import(Number, image), 0)
         /\ \A s \in Sector : Recorded(Import(Number, image), 0, s) = SectorData(image, s)
<1> DEFINE track == Import(Number, image)
<1>1. Ints(track, TrackLength)
  BY ImportInts DEF ByteImage
<1>2. TrackLength \in Nat /\ Gap.track \in Nat
  BY LayoutInts, Sizes
<1>3. 0 \in 0 .. Gap.track
  BY <1>2
<1>4. Shifted(track, 0, image)
  <2>1. \A i \in 1 .. 0 : FALSE
    OBVIOUS
  <2>2. \A i \in 0 + 1 .. TrackLength : i - 0 = i
    BY <1>2
  <2> QED BY <1>1, <2>1, <2>2 DEF Shifted
<1> QED BY <1>3, <1>4, ShiftedLaid

----------------------------------------------------------------------------
(* What is found on a disk in order. *)

NextId(b, p) == IF p = Sectors THEN TrackLength + 1 ELSE IdAt(b, p)

LEMMA Ordered ==
  ASSUME NEW b \in 0 .. Gap.track
  PROVE  /\ \A p \in 0 .. Sectors - 1 : \A q \in 0 .. Sectors - 1 :
              p < q => IdAt(b, p) + FieldLength <= IdAt(b, q)
         /\ \A p \in 0 .. Sectors - 1 :
              /\ IdAt(b, p) \in 1 .. TrackLength
              /\ b + FieldStart(p) + FieldLength < NextId(b, p + 1)
              /\ NextId(b, p + 1) <= TrackLength + 1 /\ NextId(b, p) = IdAt(b, p)
<1>1. Sectors \in Nat \ {0} /\ TrackLength \in Nat /\ FieldLength \in Nat
  BY Sizes, LayoutInts
<1>2. ASSUME NEW p \in 0 .. Sectors - 1, NEW q \in 0 .. Sectors - 1, p < q
      PROVE  IdAt(b, p) + FieldLength <= IdAt(b, q)
  <2>1. b + FieldStart(p) + FieldLength <= b + FieldStart(q) /\ b + FieldStart(p) \in Nat /\ b + FieldStart(q) \in Nat
    BY <1>2, Apart, FieldWithin
  <2> QED BY <1>1, <2>1, Lengths DEF IdAt
<1>3. ASSUME NEW p \in 0 .. Sectors - 1
      PROVE  /\ IdAt(b, p) \in 1 .. TrackLength
             /\ b + FieldStart(p) + FieldLength < NextId(b, p + 1)
             /\ NextId(b, p + 1) <= TrackLength + 1 /\ NextId(b, p) = IdAt(b, p)
  <2>1. /\ IdAt(b, p) \in Nat /\ b + FieldStart(p) < IdAt(b, p) /\ b + FieldStart(p) \in Nat
        /\ IdAt(b, p) < DataAt(b, p) /\ DataAt(b, p) \in Nat
        /\ DataAt(b, p) + DataBytes + 2 + Gap.data = b + FieldStart(p) + FieldLength
        /\ b + FieldStart(p) + FieldLength <= TrackLength
    BY FieldWithin, Lengths
  <2>2. IdAt(b, p) \in 1 .. TrackLength
    BY <1>1, <2>1, Lengths
  <2>3. p # Sectors
    BY <1>1
  <2>4. CASE p + 1 = Sectors
    BY <1>1, <2>1, <2>2, <2>3, <2>4 DEF NextId
  <2>5. CASE p + 1 # Sectors
    <3>1. p + 1 \in 0 .. Sectors - 1 /\ p < p + 1
      BY <1>1, <2>5
    <3>2. b + FieldStart(p) + FieldLength <= b + FieldStart(p + 1)
      BY <3>1, Apart
    <3>3. /\ IdAt(b, p + 1) \in Nat /\ b + FieldStart(p + 1) < IdAt(b, p + 1) /\ b + FieldStart(p + 1) \in Nat
          /\ IdAt(b, p + 1) < DataAt(b, p + 1) /\ DataAt(b, p + 1) \in Nat
          /\ DataAt(b, p + 1) + DataBytes + 2 + Gap.data = b + FieldStart(p + 1) + FieldLength
          /\ b + FieldStart(p + 1) + FieldLength <= TrackLength
      BY <3>1, FieldWithin, Lengths
    <3>4. NextId(b, p + 1) = IdAt(b, p + 1) /\ NextId(b, p) = IdAt(b, p)
      BY <2>3, <2>5 DEF NextId
    <3>5. b + FieldStart(p) + FieldLength < IdAt(b, p + 1)
      BY <1>1, <2>1, <3>2, <3>3
    <3>6. IdAt(b, p + 1) <= TrackLength + 1
      BY <1>1, <3>3, Lengths
    <3> QED BY <2>2, <3>4, <3>5, <3>6
  <2> QED BY <2>4, <2>5
<1> QED BY <1>2, <1>3

LEMMA NoIdBetween ==
  ASSUME NEW track, NEW b, Laid(track, b), NEW p \in 0 .. Sectors,
         NEW i \in 1 .. TrackLength, i < NextId(b, p), p > 0 => IdAt(b, p - 1) < i
  PROVE  track[i] # IdMark
<1>1. SUFFICES ASSUME track[i] = IdMark PROVE FALSE
  OBVIOUS
<1>2. b \in 0 .. Gap.track /\ Sectors \in Nat /\ FieldLength \in Nat
  BY Sizes, LayoutInts DEF Laid
<1>3. PICK q \in 0 .. Sectors - 1 : i = IdAt(b, q)
  BY <1>1 DEF Laid
<1>4. q \in Nat /\ p \in Nat /\ i \in Nat
  BY <1>2
<1>5. CASE q < p
  <2>1. p > 0 /\ p - 1 \in 0 .. Sectors - 1
    BY <1>2, <1>4, <1>5
  <2>2. IdAt(b, p - 1) < i /\ IdAt(b, p - 1) \in 1 .. TrackLength
    BY <1>2, <2>1, Ordered
  <2>3. q = p - 1 \/ q < p - 1
    BY <1>4, <1>5
  <2>4. q < p - 1 => IdAt(b, q) + FieldLength <= IdAt(b, p - 1)
    BY <1>2, <2>1, Ordered
  <2>5. i + FieldLength <= IdAt(b, p - 1) => i <= IdAt(b, p - 1)
    BY <1>2, <1>4, <2>2
  <2>6. i <= IdAt(b, p - 1)
    BY <1>3, <1>4, <2>2, <2>3, <2>4, <2>5
  <2> QED BY <1>4, <2>2, <2>6
<1>6. CASE ~(q < p)
  <2>1. p \in 0 .. Sectors - 1 /\ (q = p \/ p < q)
    BY <1>2, <1>4, <1>6
  <2>2. NextId(b, p) = IdAt(b, p) /\ IdAt(b, p) \in 1 .. TrackLength
    BY <1>2, <2>1, Ordered
  <2>3. p < q => IdAt(b, p) + FieldLength <= IdAt(b, q)
    BY <1>2, <2>1, Ordered
  <2>4. IdAt(b, p) + FieldLength <= i => IdAt(b, p) <= i
    BY <1>2, <1>4, <2>2
  <2>5. IdAt(b, p) <= i
    BY <1>3, <1>4, <2>1, <2>2, <2>3, <2>4
  <2> QED BY <1>4, <2>2, <2>5
<1> QED BY <1>5, <1>6

(* The scan passes over what is no mark, and between two fields over data  *)
(* marks too.                                                              *)
LEMMA Passes ==
  ASSUME NEW track, NEW n \in Nat, Ints(track, n), NEW scan, Scans(track, scan),
         NEW i \in Nat, NEW j \in Nat, 1 <= i, i <= j, j <= n + 1, NEW q \in 0 .. Sectors,
         \A k \in i .. j - 1 : track[k] # IdMark /\ (q = 0 \/ track[k] \notin DataMarks)
  PROVE  scan[i][q] = scan[j][q]
<1> DEFINE P == {d \in Nat : i + d <= j => scan[i][q] = scan[i + d][q]}
<1>1. 0 \in P
  <2>1. i + 0 = i
    OBVIOUS
  <2> QED BY <2>1
<1>2. ASSUME NEW d \in Nat, d \in P PROVE d + 1 \in P
  <2>1. SUFFICES ASSUME i + (d + 1) <= j PROVE scan[i][q] = scan[i + (d + 1)][q]
    OBVIOUS
  <2> DEFINE k == i + d
  <2>2. k \in Nat /\ k \in i .. j - 1 /\ ~(k > n) /\ k <= n /\ k + 1 = i + (d + 1) /\ k <= j
    BY <2>1
  <2>3. scan[i][q] = scan[k][q]
    BY <1>2, <2>2
  <2> HIDE DEF k
  <2>4. track[k] # IdMark /\ (q = 0 \/ track[k] \notin DataMarks)
    BY <2>2
  <2>5. scan[k][q] = ScanOf(track, scan, k, q)
    BY <2>2 DEF Scans
  <2>6. ScanOf(track, scan, k, q) = scan[k + 1][q]
    <3>1. Len(track) = n
      BY DEF Ints
    <3> QED BY <2>2, <2>4, <3>1 DEF ScanOf
  <2> QED BY <2>2, <2>3, <2>5, <2>6
<1>3. \A d \in Nat : d \in P
  <2> HIDE DEF P
  <2> QED BY <1>1, <1>2, Counting
<1>4. j - i \in Nat /\ i + (j - i) = j
  OBVIOUS
<1> QED BY <1>3, <1>4

LEMMA AddressIs ==
  ASSUME Sectors <= 255, NEW track, NEW b, NEW p \in 0 .. Sectors - 1, HasId(track, b, p)
  PROVE  Addressed(Number, track, IdAt(b, p)) = SectorAt(p)
<1> DEFINE i == IdAt(b, p)
           id == [k \in 1 .. 4 |-> track[i + k] % 256]
           s == SectorAt(p)
<1>1. s \in Sector
  BY SectorPlaces
<1>2. s % 256 = s
  <2> HIDE DEF s
  <2>1. s \in 0 .. 255
    BY <1>1, Sizes
  <2> QED BY <2>1
<1>3. track[i + 1] = 0 /\ track[i + 2] = 0 /\ track[i + 3] = s /\ track[i + 4] = 0
  BY DEF HasId
<1> HIDE DEF i, s
<1>4. id[1] = 0 /\ id[2] = 0 /\ id[3] = s /\ id[4] = 0
  <2>1. /\ id[1] = track[i + 1] % 256 /\ id[2] = track[i + 2] % 256
        /\ id[3] = track[i + 3] % 256 /\ id[4] = track[i + 4] % 256
    OBVIOUS
  <2>2. 0 % 256 = 0
    OBVIOUS
  <2> QED BY <1>2, <1>3, <2>1, <2>2
<1>5. Addressed(Number, track, i)
        = IF id[1] = Number /\ id[2] = 0 /\ id[3] \in Sector /\ id[4] = 0 THEN id[3] ELSE 0
  BY DEF Addressed
<1>6. Addressed(Number, track, i) = s
  <2> HIDE DEF id
  <2> QED BY <1>1, <1>4, <1>5 DEF Number
<1> QED BY <1>6 DEF i, s

LEMMA PlaceScanned ==
  ASSUME Sectors <= 255, NEW track, NEW b, Laid(track, b), NEW scan, Scans(track, scan),
         NEW p \in 0 .. Sectors - 1, NEW l, HasData(track, b, p, l)
  PROVE  scan[IdAt(b, p)][0]
           = [scan[NextId(b, p + 1)][0] EXCEPT
                ![SectorAt(p)] = IF @ = <<>> THEN Field(track, DataAt(b, p) + l) ELSE @]
<1> DEFINE i == IdAt(b, p)
           j == DataAt(b, p) + l
           n == TrackLength
           s == SectorAt(p)
           next == NextId(b, p + 1)
<1>1. /\ b \in 0 .. Gap.track /\ Ints(track, n) /\ HasId(track, b, p)
      /\ n \in Nat /\ Sectors \in Nat /\ DataBytes \in Nat
  BY Sizes, LayoutInts DEF Laid
<1>2. s \in Sector /\ s \in 0 .. Sectors /\ s # 0
  <2>1. s \in Sector
    BY SectorPlaces
  <2> HIDE DEF s
  <2> QED BY <1>1, <2>1, Sizes
<1>3. /\ i \in Nat /\ 1 <= i /\ j \in Nat /\ i + 7 <= j /\ j + DataBytes + 3 <= next /\ next \in Nat
      /\ next <= n + 1 /\ i + 6 <= n /\ j + DataBytes + 2 <= n
  <2>1. /\ i \in 1 .. n
        /\ DataAt(b, p) \in Nat /\ DataAt(b, p) = i + 7 + Gap.id + Gap.zeros
        /\ DataAt(b, p) + DataBytes + 2 + Gap.data = b + FieldStart(p) + FieldLength
        /\ b + FieldStart(p) + FieldLength <= n /\ b + FieldStart(p) + FieldLength < next /\ next <= n + 1
        /\ l \in Nat /\ l <= Gap.zeros /\ l <= Gap.data
    BY <1>1, FieldWithin, Ordered DEF HasData, Small
  <2>2. next \in Nat
    <3>1. p + 1 = Sectors \/ p + 1 \in 0 .. Sectors - 1
      BY <1>1
    <3>2. p + 1 \in 0 .. Sectors - 1 => IdAt(b, p + 1) \in Nat
      BY <1>1, FieldWithin
    <3> QED BY <1>1, <3>1, <3>2 DEF NextId
  <2> HIDE DEF i, n, next
  <2>3. j \in Nat /\ i + 7 <= j /\ j + DataBytes + 2 <= b + FieldStart(p) + FieldLength
    BY <1>1, <2>1, Lengths
  <2>4. b + FieldStart(p) + FieldLength \in Nat
    BY <1>1, <2>1, Lengths
  <2> QED BY <1>1, <2>1, <2>2, <2>3, <2>4
<1>4. track[i] = IdMark /\ Addressed(Number, track, i) = s /\ Len(track) = n
  BY <1>1, AddressIs DEF HasId, Ints
<1>5. track[j] \in DataMarks /\ \A k \in i + 1 .. j - 1 : track[k] \notin DataMarks
  <2>1. track[DataAt(b, p) + l] \in DataMarks
    BY DEF HasData
  <2>2. \A k \in IdAt(b, p) + 1 .. DataAt(b, p) + l - 1 : track[k] \notin DataMarks
    BY DEF HasData
  <2>3. j - 1 = DataAt(b, p) + l - 1
    <3>1. DataAt(b, p) \in Nat /\ l \in Nat
      BY <1>1, FieldWithin DEF HasData, Small
    <3> QED BY <3>1
  <2> QED BY <2>1, <2>2, <2>3
<1>6. \A k \in i + 1 .. next - 1 : track[k] # IdMark
  <2>1. ASSUME NEW k \in i + 1 .. next - 1 PROVE track[k] # IdMark
    <3>1. p + 1 \in 0 .. Sectors /\ (p + 1) - 1 = p
      BY <1>1
    <3>2. k \in 1 .. TrackLength /\ k < NextId(b, p + 1) /\ IdAt(b, p) < k
      BY <1>1, <1>3
    <3> QED BY <3>1, <3>2, NoIdBetween
  <2> QED BY <2>1
<1>7. \A k \in Nat : \A q \in 0 .. Sectors : scan[k][q] = ScanOf(track, scan, k, q)
  BY DEF Scans
<1> HIDE DEF i, j, n, s, next
<1>8. scan[i][0] = scan[i + 7][s]
  <2>1. scan[i][0] = ScanOf(track, scan, i, 0)
    BY <1>1, <1>3, <1>7
  <2>2. i <= Len(track) /\ ~(i + 6 > Len(track)) /\ ~(i > Len(track))
    BY <1>1, <1>3, <1>4
  <2>3. ~(track[i] \in DataMarks)
    BY <1>4, NoMark
  <2> QED BY <1>4, <2>1, <2>2, <2>3 DEF ScanOf
<1>9. scan[i + 7][s] = scan[j][s]
  <2>1. \A k \in i + 7 .. j - 1 : track[k] # IdMark /\ (s = 0 \/ track[k] \notin DataMarks)
    <3>1. ASSUME NEW k \in i + 7 .. j - 1 PROVE track[k] # IdMark /\ track[k] \notin DataMarks
      <4>1. k \in i + 1 .. j - 1 /\ k \in i + 1 .. next - 1
        BY <1>1, <1>3
      <4> QED BY <1>5, <1>6, <4>1
    <3> QED BY <3>1
  <2>2. i + 7 \in Nat /\ j \in Nat /\ 1 <= i + 7 /\ i + 7 <= j /\ j <= n + 1
    BY <1>1, <1>3
  <2> QED BY <1>1, <1>2, <2>1, <2>2, Passes
<1>10. scan[j][s] = [scan[j + DataBytes + 3][0] EXCEPT
                       ![s] = IF @ = <<>> THEN Field(track, j) ELSE @]
  <2>1. scan[j][s] = ScanOf(track, scan, j, s)
    BY <1>2, <1>3, <1>7
  <2>2. j <= Len(track) /\ ~(j + DataBytes + 2 > Len(track)) /\ ~(j > Len(track))
    BY <1>1, <1>3, <1>4
  <2>3. track[j] # IdMark
    BY <1>5, NoMark
  <2> QED BY <1>2, <1>5, <2>1, <2>2, <2>3, Zenon DEF ScanOf
<1>11. scan[j + DataBytes + 3][0] = scan[next][0]
  <2>1. \A k \in j + DataBytes + 3 .. next - 1 : track[k] # IdMark /\ (0 = 0 \/ track[k] \notin DataMarks)
    <3>1. ASSUME NEW k \in j + DataBytes + 3 .. next - 1 PROVE track[k] # IdMark
      <4>1. k \in i + 1 .. next - 1
        BY <1>1, <1>3
      <4> QED BY <1>6, <4>1
    <3> QED BY <3>1
  <2>2. /\ j + DataBytes + 3 \in Nat /\ next \in Nat /\ 1 <= j + DataBytes + 3
        /\ j + DataBytes + 3 <= next /\ next <= n + 1 /\ 0 \in 0 .. Sectors
    BY <1>1, <1>3
  <2> QED BY <1>1, <2>1, <2>2, Passes
<1>12. scan[i][0] = [scan[next][0] EXCEPT ![s] = IF @ = <<>> THEN Field(track, j) ELSE @]
  BY <1>8, <1>9, <1>10, <1>11
<1> QED BY <1>12 DEF i, j, s, next

LEMMA FoundLaid ==
  ASSUME Sectors <= 255, NEW track, NEW b, Laid(track, b)
  PROVE  Found(Number, track) = [s \in Sector |-> Recorded(track, b, s)]
<1>1. b \in 0 .. Gap.track /\ Ints(track, TrackLength) /\ track \in Seq(Int)
      /\ Sectors \in Nat \ {0} /\ TrackLength \in Nat /\ DataBytes \in Nat \ {0}
  BY Sizes, LayoutInts DEF Laid, Ints
<1>2. PICK scan : Scans(track, scan)
  BY <1>1, FoundScans
<1> DEFINE From(p) == [s \in Sector |-> IF MapIndex[s] >= p THEN Recorded(track, b, s) ELSE <<>>]
           P == {n \in Nat : n <= Sectors => scan[NextId(b, Sectors - n)][0] = From(Sectors - n)}
<1>3. \A s \in Sector : MapIndex[s] \in 0 .. Sectors - 1
  BY Places
<1>4. 0 \in P
  <2>1. NextId(b, Sectors - 0) = TrackLength + 1 /\ Sectors - 0 = Sectors
    BY <1>1 DEF NextId
  <2>2. scan[TrackLength + 1][0] = ScanOf(track, scan, TrackLength + 1, 0)
    <3>1. TrackLength + 1 \in Nat /\ 0 \in 0 .. Sectors
      BY <1>1
    <3> QED BY <1>2, <3>1 DEF Scans
  <2>3. TrackLength + 1 > Len(track) /\ ~(TrackLength + 1 <= Len(track))
    BY <1>1 DEF Ints
  <2>4. ScanOf(track, scan, TrackLength + 1, 0) = [s \in Sector |-> <<>>]
    BY <2>3 DEF ScanOf
  <2>5. From(Sectors) = [s \in Sector |-> <<>>]
    BY <1>1, <1>3
  <2> HIDE DEF From
  <2> QED BY <2>1, <2>2, <2>4, <2>5
<1>5. ASSUME NEW n \in Nat, n \in P PROVE n + 1 \in P
  <2>1. SUFFICES ASSUME n + 1 <= Sectors
                 PROVE  scan[NextId(b, Sectors - (n + 1))][0] = From(Sectors - (n + 1))
    OBVIOUS
  <2> DEFINE p == Sectors - (n + 1)
             t == SectorAt(p)
  <2>2. p \in 0 .. Sectors - 1 /\ p + 1 = Sectors - n /\ n <= Sectors
    BY <1>1, <2>1
  <2>3. scan[NextId(b, p + 1)][0] = From(p + 1)
    <3> HIDE DEF From
    <3> QED BY <1>5, <2>2
  <2> HIDE DEF p, P
  <2>4. PICK l : HasData(track, b, p, l)
    BY <2>2 DEF Laid
  <2>5. t \in Sector /\ MapIndex[t] = p
    BY <2>2, SectorPlaces
  <2>6. Recorded(track, b, t) = Field(track, DataAt(b, p) + l)
    <3> HIDE DEF t
    <3>1. HasData(track, b, MapIndex[t], l)
      BY <2>4, <2>5
    <3>2. Recorded(track, b, t) = Field(track, DataAt(b, MapIndex[t]) + l)
      BY <1>1, <2>5, <3>1, RecordedIs
    <3> QED BY <2>5, <3>2
  <2>7. scan[IdAt(b, p)][0]
          = [From(p + 1) EXCEPT ![t] = IF @ = <<>> THEN Recorded(track, b, t) ELSE @]
    <3>1. scan[IdAt(b, p)][0]
            = [scan[NextId(b, p + 1)][0] EXCEPT
                 ![t] = IF @ = <<>> THEN Field(track, DataAt(b, p) + l) ELSE @]
      BY <1>2, <2>2, <2>4, PlaceScanned
    <3> HIDE DEF From, t
    <3> QED BY <2>3, <2>6, <3>1
  <2>8. From(p + 1)[t] = <<>>
    BY <2>2, <2>5
  <2>9. \A s \in Sector : s # t => (MapIndex[s] >= p <=> MapIndex[s] >= p + 1)
    <3>1. ASSUME NEW s \in Sector, s # t PROVE MapIndex[s] >= p <=> MapIndex[s] >= p + 1
      <4>1. MapIndex[s] # p
        BY <2>5, <3>1, SkewAssumption
      <4> QED BY <1>1, <1>3, <2>2, <4>1
    <3> QED BY <3>1
  <2>10. [From(p + 1) EXCEPT ![t] = IF @ = <<>> THEN Recorded(track, b, t) ELSE @] = From(p)
    <3>1. [From(p + 1) EXCEPT ![t] = IF @ = <<>> THEN Recorded(track, b, t) ELSE @]
            = [From(p + 1) EXCEPT ![t] = Recorded(track, b, t)]
      <4> HIDE DEF From, t
      <4> QED BY <2>8
    <3>2. MapIndex[t] >= p
      BY <2>2, <2>5
    <3> HIDE DEF t
    <3>3. [From(p + 1) EXCEPT ![t] = Recorded(track, b, t)] = From(p)
      BY <2>5, <2>9, <3>2
    <3> QED BY <3>1, <3>3
  <2>11. NextId(b, p) = IdAt(b, p)
    BY <1>1, <2>2, Ordered
  <2>12. scan[NextId(b, p)][0] = From(p)
    <3> HIDE DEF From, t
    <3> QED BY <2>7, <2>10, <2>11
  <2> QED BY <2>12 DEF p
<1>6. \A n \in Nat : n \in P
  <2> HIDE DEF P
  <2> QED BY <1>4, <1>5, Counting
<1>7. scan[NextId(b, 0)][0] = From(0)
  <2>1. Sectors - Sectors = 0 /\ Sectors <= Sectors /\ Sectors \in Nat
    BY <1>1
  <2>2. Sectors \in P
    <3> HIDE DEF P
    <3> QED BY <1>6, <2>1
  <2>3. scan[NextId(b, Sectors - Sectors)][0] = From(Sectors - Sectors)
    <3> HIDE DEF From
    <3> QED BY <2>1, <2>2
  <2> HIDE DEF From
  <2> QED BY <2>1, <2>3
<1>8. scan[1][0] = scan[NextId(b, 0)][0]
  <2>1. 0 \in 0 .. Sectors - 1 /\ 0 \in 0 .. Sectors
    BY <1>1
  <2>2. NextId(b, 0) = IdAt(b, 0) /\ IdAt(b, 0) \in 1 .. TrackLength
    BY <1>1, <2>1, Ordered
  <2>3. \A k \in 1 .. NextId(b, 0) - 1 : track[k] # IdMark /\ (0 = 0 \/ track[k] \notin DataMarks)
    <3>1. ASSUME NEW k \in 1 .. NextId(b, 0) - 1 PROVE track[k] # IdMark
      <4>1. k \in 1 .. TrackLength /\ k < NextId(b, 0) /\ ~(0 > 0)
        BY <1>1, <2>2
      <4> QED BY <2>1, <4>1, NoIdBetween
    <3> QED BY <3>1
  <2>4. 1 \in Nat /\ NextId(b, 0) \in Nat /\ 1 <= 1 /\ 1 <= NextId(b, 0) /\ NextId(b, 0) <= TrackLength + 1
    BY <1>1, <2>2
  <2> QED BY <1>1, <1>2, <2>1, <2>3, <2>4, Passes
<1>9. From(0) = [s \in Sector |-> Recorded(track, b, s)]
  BY <1>3
<1> HIDE DEF From
<1> QED BY <1>2, <1>7, <1>8, <1>9 DEF Scans

----------------------------------------------------------------------------
(* What a disk in order is saved as, and what a program reads from it.     *)

LEMMA Quotient ==
  ASSUME NEW d \in Nat \ {0}, NEW q \in Nat, NEW r \in 0 .. d - 1
  PROVE  (q * d + r) \div d = q /\ (q * d + r) % d = r
<1> DEFINE n == q * d + r
           qq == n \div d
           rr == n % d
<1>1. q * d \in Nat /\ n \in Nat
  OBVIOUS
<1> HIDE DEF n
<1>2. rr \in 0 .. d - 1 /\ qq \in Nat /\ n = d * qq + rr
  BY <1>1, Division
<1>3. n = q * d + r
  BY DEF n
<1> HIDE DEF qq, rr
<1>4. d * (q - qq) = rr - r /\ rr - r < d /\ r - rr < d
  BY <1>2, <1>3
<1>5. q = qq
  <2>1. ~(q > qq)
    <3>1. SUFFICES ASSUME q > qq PROVE FALSE
      OBVIOUS
    <3>2. q - qq - 1 \in Nat
      BY <1>2, <3>1
    <3>3. d * (q - qq - 1) \in Nat /\ d * (q - qq - 1) = d * (q - qq) - d
      BY <1>2, <3>2
    <3> QED BY <1>2, <1>4, <3>3
  <2>2. ~(qq > q)
    <3>1. SUFFICES ASSUME qq > q PROVE FALSE
      OBVIOUS
    <3>2. qq - q - 1 \in Nat
      BY <1>2, <3>1
    <3>3. d * (qq - q - 1) \in Nat /\ d * (qq - q - 1) = -(d * (q - qq)) - d
      BY <1>2, <3>2
    <3> QED BY <1>2, <1>4, <3>3
  <2> QED BY <1>2, <2>1, <2>2
<1>6. r = rr
  BY <1>2, <1>4, <1>5
<1> QED BY <1>5, <1>6 DEF n, qq, rr

LEMMA FieldLaid ==
  ASSUME NEW track, NEW b, Laid(track, b), NEW s \in Sector,
         NEW l, HasData(track, b, MapIndex[s], l)
  PROVE  /\ DataAt(b, MapIndex[s]) + l \in Nat
         /\ DataAt(b, MapIndex[s]) + l + DataBytes + 2 <= TrackLength
         /\ Recorded(track, b, s) = Field(track, DataAt(b, MapIndex[s]) + l)
         /\ Recorded(track, b, s) \in FieldBytes
<1> DEFINE p == MapIndex[s]
           j == DataAt(b, p) + l
<1>1. b \in 0 .. Gap.track /\ track \in Seq(Int) /\ Len(track) = TrackLength
  BY DEF Laid, Ints
<1>2. p \in 0 .. Sectors - 1
  BY Places
<1>3. Recorded(track, b, s) = Field(track, j)
  BY <1>1, RecordedIs
<1>4. l \in Nat /\ l <= Gap.data
  BY DEF HasData, Small
<1> HIDE DEF p
<1>5. j \in Nat /\ j + DataBytes + 2 <= TrackLength
  <2>1. /\ DataAt(b, p) \in Nat /\ b + FieldStart(p) \in Nat /\ TrackLength \in Nat
        /\ DataAt(b, p) + DataBytes + 2 + Gap.data = b + FieldStart(p) + FieldLength
        /\ b + FieldStart(p) + FieldLength <= TrackLength
    BY <1>1, <1>2, FieldWithin
  <2> QED BY <1>4, <2>1, Lengths
<1> HIDE DEF j
<1>6. Field(track, j) \in FieldBytes
  BY <1>1, <1>5, FieldType
<1> QED BY <1>3, <1>5, <1>6 DEF j, p

LEMMA BytesOfField ==
  ASSUME NEW f \in FieldBytes
  PROVE  Ints(f, DataBytes) /\ f # <<>>
<1>1. DataBytes \in Nat \ {0}
  BY Sizes
<1>2. f \in [1 .. DataBytes -> Int]
  <2>1. \A x \in 0 .. 255 : x \in Int
    OBVIOUS
  <2> QED BY <2>1 DEF FieldBytes
<1>3. Ints(f, DataBytes)
  BY <1>1, <1>2 DEF Ints
<1> QED BY <1>1, <1>3, EmptySeq DEF Ints

LEMMA RecordedType ==
  ASSUME NEW track, NEW b, Laid(track, b), NEW s \in Sector
  PROVE  Recorded(track, b, s) \in FieldBytes
<1>1. MapIndex[s] \in 0 .. Sectors - 1
  BY Places
<1>2. PICK l : HasData(track, b, MapIndex[s], l)
  BY <1>1 DEF Laid
<1> QED BY <1>2, FieldLaid

(* A conversion keeps the bytes it has found. *)
LEMMA ExportIs ==
  ASSUME NEW track \in Seq(Int), Export(Number, track) # NoImage
  PROVE  /\ ByteImage(Export(Number, track))
         /\ \A s \in Sector : /\ SectorData(Export(Number, track), s) = Found(Number, track)[s]
                            /\ Found(Number, track)[s] \in FieldBytes
<1> DEFINE found == Found(Number, track)
           byte(k) == found[(k - 1) \div DataBytes + 1][((k - 1) % DataBytes) + 1]
           image == Export(Number, track)
<1>1. /\ DataBytes \in Nat \ {0} /\ Sectors \in Nat \ {0} /\ ImageSize \in Nat \ {0}
      /\ ImageSize = Sectors * DataBytes /\ Sector = 1 .. Sectors /\ track \in Seq(Int)
  BY Sizes
<1>2. \A s \in Sector : found[s] \in FieldBytes
  <2>1. found \in [Sector -> FieldBytes \cup {<<>>}]
    BY FoundType DEF Sectorwise
  <2>2. \A s \in Sector : found[s] # <<>>
    BY DEF Export
  <2> HIDE DEF found
  <2> QED BY <2>1, <2>2
<1>3. image = [k \in 1 .. ImageSize |-> byte(k)]
  BY DEF Export
<1> HIDE DEF found, image
<1>4. ASSUME NEW s \in Sector, NEW k \in 1 .. DataBytes
      PROVE  (s - 1) * DataBytes + k \in 1 .. ImageSize => image[(s - 1) * DataBytes + k] = found[s][k]
  <2> DEFINE q == s - 1
             r == k - 1
             a == q * DataBytes
             i == a + k
  <2>1. q \in Nat /\ r \in 0 .. DataBytes - 1 /\ a \in Nat /\ i - 1 = a + r /\ q + 1 = s /\ r + 1 = k
    BY <1>1
  <2>2. (q * DataBytes + r) \div DataBytes = q /\ (q * DataBytes + r) % DataBytes = r
    <3> HIDE DEF q, r
    <3> QED BY <1>1, <2>1, Quotient
  <2>3. byte(i) = found[q + 1][r + 1]
    <3> HIDE DEF q, r, i
    <3> QED BY <2>1, <2>2
  <2>4. i \in 1 .. ImageSize => image[i] = byte(i)
    <3> HIDE DEF byte, i
    <3> QED BY <1>3
  <2> HIDE DEF byte
  <2> QED BY <2>1, <2>3, <2>4
<1>5. \A k \in 1 .. ImageSize : byte(k) \in Int
  <2>1. ASSUME NEW k \in 1 .. ImageSize PROVE byte(k) \in Int
    <3> DEFINE q == (k - 1) \div DataBytes
               r == (k - 1) % DataBytes
    <3>1. k - 1 \in Nat /\ k - 1 < Sectors * DataBytes
      BY <1>1
    <3>2. q \in Nat /\ r \in 0 .. DataBytes - 1 /\ k - 1 = DataBytes * q + r
      BY <1>1, <3>1, Division
    <3> HIDE DEF q, r
    <3>3. ~(q >= Sectors)
      <4>1. SUFFICES ASSUME q >= Sectors PROVE FALSE
        OBVIOUS
      <4>2. q - Sectors \in Nat
        BY <1>1, <3>2, <4>1
      <4>3. DataBytes * (q - Sectors) \in Nat
        BY <1>1, <4>2
      <4>4. DataBytes * (q - Sectors) = DataBytes * q - Sectors * DataBytes
        BY <1>1, <3>2
      <4> QED BY <1>1, <3>1, <3>2, <4>3, <4>4
    <3>4. q + 1 \in Sector /\ r + 1 \in 1 .. DataBytes
      BY <1>1, <3>2, <3>3
    <3>5. found[q + 1][r + 1] \in 0 .. 255
      BY <1>2, <3>4 DEF FieldBytes
    <3>6. byte(k) = found[q + 1][r + 1]
      BY DEF q, r
    <3> HIDE DEF byte
    <3>7. \A x \in 0 .. 255 : x \in Int
      OBVIOUS
    <3> QED BY <3>5, <3>6, <3>7, Zenon
  <2> QED BY <2>1
<1>6. Ints(image, ImageSize) /\ image # NoImage
  <2> HIDE DEF byte
  <2>1. Ints(image, ImageSize)
    BY <1>1, <1>3, <1>5 DEF Ints
  <2> QED BY <1>1, <2>1, EmptySeq DEF Ints, NoImage
<1>7. ByteImage(image)
  <2>1. \A k \in 1 .. ImageSize : image[k] \in 0 .. 255
    BY <1>1, <1>6, ExportType DEF image
  <2> QED BY <1>6, <2>1 DEF ByteImage, Quiet
<1>8. ASSUME NEW s \in Sector PROVE SectorData(image, s) = found[s]
  <2> DEFINE data == SectorData(image, s)
             a == (s - 1) * DataBytes
  <2>1. /\ a \in Nat /\ a + DataBytes <= ImageSize /\ Ints(data, DataBytes)
        /\ \A k \in 1 .. DataBytes : data[k] = image[a + k]
    BY <1>6, SectorDataAt
  <2>2. ASSUME NEW k \in 1 .. DataBytes PROVE data[k] = found[s][k]
    <3>1. a + k \in 1 .. ImageSize
      <4> HIDE DEF a
      <4> QED BY <1>1, <2>1
    <3>2. image[a + k] = found[s][k]
      BY <1>4, <3>1
    <3>3. data[k] = image[a + k]
      BY <2>1
    <3> HIDE DEF data, a
    <3> QED BY <3>2, <3>3
  <2> HIDE DEF data, a
  <2>3. data \in [1 .. DataBytes -> Int]
    BY <1>1, <2>1, LenProperties DEF Ints
  <2>4. found[s] \in [1 .. DataBytes -> 0 .. 255]
    BY <1>2 DEF FieldBytes
  <2>5. /\ data = [k \in 1 .. DataBytes |-> data[k]]
        /\ found[s] = [k \in 1 .. DataBytes |-> found[s][k]]
    BY <2>3, <2>4
  <2>6. [k \in 1 .. DataBytes |-> data[k]] = [k \in 1 .. DataBytes |-> found[s][k]]
    BY <2>2
  <2>7. data = found[s]
    BY <2>5, <2>6
  <2> QED BY <2>7 DEF data
<1>9. ByteImage(image) /\ \A s \in Sector : SectorData(image, s) = found[s] /\ found[s] \in FieldBytes
  BY <1>2, <1>7, <1>8
<1> HIDE DEF byte
<1> QED BY <1>9 DEF image, found

LEMMA ExportLaid ==
  ASSUME Sectors <= 255, NEW track, NEW b, Laid(track, b)
  PROVE  /\ Export(Number, track) # NoImage /\ ByteImage(Export(Number, track))
         /\ \A s \in Sector : SectorData(Export(Number, track), s) = Recorded(track, b, s)
<1> DEFINE found == Found(Number, track)
           byte(k) == found[(k - 1) \div DataBytes + 1][((k - 1) % DataBytes) + 1]
           image == Export(Number, track)
<1>1. ImageSize \in Nat \ {0} /\ track \in Seq(Int)
  BY Sizes DEF Laid, Ints
<1>2. \A s \in Sector : found[s] = Recorded(track, b, s) /\ found[s] # <<>>
  <2>1. ASSUME NEW s \in Sector
        PROVE  found[s] = Recorded(track, b, s) /\ found[s] # <<>>
    <3>1. found = [t \in Sector |-> Recorded(track, b, t)]
      BY FoundLaid
    <3> HIDE DEF found
    <3>2. found[s] = Recorded(track, b, s)
      BY <3>1
    <3> QED BY <3>2, RecordedType, BytesOfField
  <2> QED BY <2>1
<1>3. image = [k \in 1 .. ImageSize |-> byte(k)]
  BY <1>2 DEF Export
<1>4. image # NoImage
  <2>1. 1 \in DOMAIN image
    <3> HIDE DEF byte, image
    <3> QED BY <1>1, <1>3
  <2>2. DOMAIN NoImage = {}
    BY DEF NoImage
  <2> HIDE DEF image
  <2> QED BY <2>1, <2>2
<1>5. ByteImage(image) /\ \A s \in Sector : SectorData(image, s) = found[s]
  BY <1>1, <1>4, ExportIs
<1> HIDE DEF found, image
<1> QED BY <1>2, <1>4, <1>5 DEF image

(* An image is the data of its sectors. *)
LEMMA SameImage ==
  ASSUME NEW image, Ints(image, ImageSize), NEW other, Ints(other, ImageSize),
         \A s \in Sector : SectorData(image, s) = SectorData(other, s)
  PROVE  image = other
<1>1. /\ DataBytes \in Nat \ {0} /\ Sectors \in Nat \ {0} /\ ImageSize \in Nat
      /\ ImageSize = Sectors * DataBytes /\ Sector = 1 .. Sectors
  BY Sizes
<1>2. ASSUME NEW k \in 1 .. ImageSize PROVE image[k] = other[k]
  <2> DEFINE q == (k - 1) \div DataBytes
             r == (k - 1) % DataBytes
  <2>1. k - 1 \in Nat /\ k - 1 < Sectors * DataBytes
    BY <1>1
  <2>2. q \in Nat /\ r \in 0 .. DataBytes - 1 /\ k - 1 = DataBytes * q + r
    BY <1>1, <2>1, Division
  <2> HIDE DEF q, r
  <2>3. ~(q >= Sectors)
    <3>1. SUFFICES ASSUME q >= Sectors PROVE FALSE
      OBVIOUS
    <3>2. q - Sectors \in Nat
      BY <1>1, <2>2, <3>1
    <3>3. DataBytes * (q - Sectors) \in Nat
      BY <1>1, <3>2
    <3>4. DataBytes * (q - Sectors) = DataBytes * q - Sectors * DataBytes
      BY <1>1, <2>2
    <3> QED BY <1>1, <2>1, <2>2, <3>3, <3>4
  <2> DEFINE s == q + 1
             j == r + 1
  <2>4. s \in Sector /\ j \in 1 .. DataBytes /\ (s - 1) * DataBytes + j = k
    BY <1>1, <2>2, <2>3
  <2> HIDE DEF s, j
  <2>5. /\ SectorData(image, s)[j] = image[(s - 1) * DataBytes + j]
        /\ SectorData(other, s)[j] = other[(s - 1) * DataBytes + j]
    BY <2>4, SectorDataAt
  <2> QED BY <2>4, <2>5
<1>3. image \in [1 .. ImageSize -> Int] /\ other \in [1 .. ImageSize -> Int]
  BY <1>1, LenProperties DEF Ints
<1>4. /\ image = [k \in 1 .. ImageSize |-> image[k]]
      /\ other = [k \in 1 .. ImageSize |-> other[k]]
  BY <1>3
<1>5. [k \in 1 .. ImageSize |-> image[k]] = [k \in 1 .. ImageSize |-> other[k]]
  BY <1>2
<1> QED BY <1>4, <1>5

(* A disk mounted and saved again unwritten leaves its file as it was:     *)
(* Ibm3740SectorImage::export_image takes back exactly what its import has *)
(* laid on the track, for every image of bytes and every number, length    *)
(* and skew of the sectors.                                                *)
THEOREM ImportedIsExported ==
  ASSUME Sectors <= 255, NEW image, ByteImage(image)
  PROVE  Export(Number, Import(Number, image)) = image
<1> DEFINE track == Import(Number, image)
           back == Export(Number, track)
<1>1. Laid(track, 0) /\ \A s \in Sector : Recorded(track, 0, s) = SectorData(image, s)
  BY ImportLaid
<1> HIDE DEF track
<1>2. ByteImage(back) /\ \A s \in Sector : SectorData(back, s) = Recorded(track, 0, s)
  BY <1>1, ExportLaid
<1> HIDE DEF back
<1>3. back = image
  BY <1>1, <1>2, SameImage DEF ByteImage
<1> QED BY <1>3 DEF back, track

LEMMA AroundIs ==
  ASSUME NEW track, NEW n \in Nat, Len(track) = n, NEW i \in 1 .. n
  PROVE  Around(track, i) = track[i]
<1>1. n # 0 /\ i - 1 \in 0 .. n - 1
  OBVIOUS
<1>2. (i - 1) % n = i - 1
  BY <1>1
<1>3. Around(track, i) = track[((i - 1) % n) + 1]
  BY DEF Around
<1>4. (i - 1) + 1 = i
  OBVIOUS
<1> QED BY <1>2, <1>3, <1>4

----------------------------------------------------------------------------
(* A track seen from another place behind the Index. *)
Rotated(track, b) == [i \in 1 .. Len(track) |-> Around(track, i + b)]
Spot(n, i) == ((i - 1) % n) + 1

(* Places that are the same but for whole revolutions. *)
Alike(n, i, j) == \E q \in Int : i = n * q + j

LEMMA Remainder ==
  ASSUME NEW n \in Nat \ {0}, NEW x \in Int
  PROVE  x % n \in 0 .. n - 1 /\ Alike(n, x, x % n)
<1> DEFINE q == x \div n
           r == x % n
<1>1. r \in 0 .. n - 1 /\ q \in Int /\ x - n * q = r
  OBVIOUS
<1> HIDE DEF q, r
<1>2. x = n * q + r
  BY <1>1
<1>3. Alike(n, x, r)
  BY <1>1, <1>2 DEF Alike
<1>4. r \in 0 .. n - 1 /\ Alike(n, x, r)
  BY <1>1, <1>3
<1> QED BY <1>4, Zenon DEF r

LEMMA OneRest ==
  ASSUME NEW n \in Nat \ {0}, NEW x \in Int, NEW r \in 0 .. n - 1, Alike(n, x, r),
         NEW s \in 0 .. n - 1, Alike(n, x, s)
  PROVE  r = s
<1>1. PICK q \in Int : x = n * q + r
  BY DEF Alike
<1>2. PICK p \in Int : x = n * p + s
  BY DEF Alike
<1>3. n * (q - p) = s - r /\ s - r < n /\ r - s < n
  BY <1>1, <1>2
<1>4. ~(q > p)
  <2>1. SUFFICES ASSUME q > p PROVE FALSE
    OBVIOUS
  <2>2. q - p - 1 \in Nat
    BY <2>1
  <2>3. n * (q - p - 1) \in Nat /\ n * (q - p - 1) = n * (q - p) - n
    BY <2>2
  <2> QED BY <1>3, <2>3
<1>5. ~(p > q)
  <2>1. SUFFICES ASSUME p > q PROVE FALSE
    OBVIOUS
  <2>2. p - q - 1 \in Nat
    BY <2>1
  <2>3. n * (p - q - 1) \in Nat /\ n * (p - q - 1) = 0 - n * (q - p) - n
    BY <2>2
  <2> QED BY <1>3, <2>3
<1>6. q = p
  BY <1>4, <1>5
<1> QED BY <1>1, <1>2, <1>6

LEMMA AlikeIs ==
  ASSUME NEW n \in Nat \ {0}, NEW i \in Int, NEW j \in Int, Alike(n, i, j)
  PROVE  /\ \A h \in Int : Alike(n, j, h) => Alike(n, i, h)
         /\ \A k \in Int : Alike(n, i + k, j + k)
         /\ Alike(n, j, i)
<1>1. PICK q \in Int : i = n * q + j
  BY DEF Alike
<1>2. ASSUME NEW h \in Int, Alike(n, j, h) PROVE Alike(n, i, h)
  <2>1. PICK p \in Int : j = n * p + h
    BY <1>2 DEF Alike
  <2>2. q + p \in Int /\ i = n * (q + p) + h
    BY <1>1, <2>1
  <2> QED BY <2>2 DEF Alike
<1>3. ASSUME NEW k \in Int PROVE Alike(n, i + k, j + k)
  <2>1. i + k = n * q + (j + k)
    BY <1>1
  <2> QED BY <2>1 DEF Alike
<1>4. Alike(n, j, i)
  <2>1. 0 - q \in Int /\ j = n * (0 - q) + i
    BY <1>1
  <2> QED BY <2>1 DEF Alike
<1> QED BY <1>2, <1>3, <1>4

LEMMA SpotIs ==
  ASSUME NEW n \in Nat \ {0}, NEW i \in Int
  PROVE  Spot(n, i) \in 1 .. n /\ Alike(n, i, Spot(n, i))
<1> DEFINE x == i - 1
           r == x % n
<1>1. x \in Int /\ x + 1 = i
  OBVIOUS
<1>2. Spot(n, i) = r + 1
  BY DEF Spot
<1> HIDE DEF x
<1>3. r \in 0 .. n - 1 /\ Alike(n, x, r)
  BY <1>1, Remainder
<1> HIDE DEF r
<1>4. r + 1 \in 1 .. n /\ r \in Int
  BY <1>3
<1>5. Alike(n, x + 1, r + 1)
  BY <1>1, <1>3, <1>4, AlikeIs
<1> QED BY <1>1, <1>2, <1>4, <1>5

LEMMA OneSpot ==
  ASSUME NEW n \in Nat \ {0}, NEW i \in Int, NEW j \in 1 .. n, Alike(n, i, j)
  PROVE  Spot(n, i) = j
<1> DEFINE x == i - 1
           r == x % n
           s == j - 1
<1>1. x \in Int /\ s \in 0 .. n - 1 /\ i + (-1) = x /\ j + (-1) = s /\ -1 \in Int
  OBVIOUS
<1>2. Spot(n, i) = r + 1 /\ j = s + 1
  BY DEF Spot
<1>3. Alike(n, i + (-1), j + (-1))
  BY AlikeIs
<1> HIDE DEF x, s
<1>4. r \in 0 .. n - 1 /\ Alike(n, x, r)
  BY <1>1, Remainder
<1> HIDE DEF r
<1>5. Alike(n, x, s)
  BY <1>1, <1>3
<1>6. r = s
  BY <1>1, <1>4, <1>5, OneRest
<1> QED BY <1>2, <1>6

LEMMA AroundSpot ==
  ASSUME NEW track, NEW n \in Nat \ {0}, Len(track) = n, NEW i \in Int
  PROVE  /\ Around(track, i) = track[Spot(n, i)]
         /\ \A j \in Int : Alike(n, i, j) => Around(track, i) = Around(track, j)
<1>1. \A j : Around(track, j) = track[Spot(n, j)]
  BY DEF Around, Spot
<1>2. ASSUME NEW j \in Int, Alike(n, i, j) PROVE Spot(n, i) = Spot(n, j)
  <2>1. Spot(n, j) \in 1 .. n /\ Alike(n, j, Spot(n, j))
    BY SpotIs
  <2>2. Spot(n, j) \in Int
    BY <2>1
  <2>3. Alike(n, i, Spot(n, j))
    BY <1>2, <2>1, <2>2, AlikeIs
  <2> QED BY <2>1, <2>3, OneSpot
<1> QED BY <1>1, <1>2

(* A place on the disk, and where it is on the rotated one.                *)
Rotates(t, track, b, n) == Ints(t, n) /\ \A i \in 1 .. n : t[i] = Around(track, i + b)

LEMMA RotatedIs ==
  ASSUME NEW track, NEW n \in Nat \ {0}, Ints(track, n), NEW b \in Int
  PROVE  Rotates(Rotated(track, b), track, b, n)
<1> DEFINE t == Rotated(track, b)
<1>1. track \in Seq(Int) /\ Len(track) = n
  BY DEF Ints
<1>2. t = [i \in 1 .. n |-> Around(track, i + b)]
  BY <1>1 DEF Rotated
<1>3. ASSUME NEW i \in 1 .. n PROVE Around(track, i + b) \in Int
  <2> DEFINE x == i + b
  <2>1. x \in Int
    OBVIOUS
  <2> HIDE DEF x
  <2>2. Around(track, x) = track[Spot(n, x)] /\ Spot(n, x) \in 1 .. n
    BY <1>1, <2>1, AroundSpot, SpotIs
  <2>3. Around(track, x) \in Int
    BY <1>1, <2>2, ElementOfSeq
  <2> QED BY <2>3 DEF x
<1> HIDE DEF t
<1>4. Ints(t, n)
  <2>1. \A i \in 1 .. n : t[i] \in Int
    BY <1>2, <1>3
  <2>2. t = [i \in 1 .. n |-> t[i]]
    BY <1>2
  <2>3. t \in [1 .. n -> Int]
    BY <2>1, <2>2
  <2> QED BY <2>3 DEF Ints
<1>5. Rotates(t, track, b, n)
  BY <1>2, <1>4 DEF Rotates
<1> QED BY <1>5 DEF t

(* From place i of the disk on, and from place h of the rotated one.       *)
Alongside(track, n, b, i, h) ==
  /\ i \in 1 .. n /\ h \in 1 .. n /\ i = Spot(n, h + b)
  /\ \A k \in Nat : h + k <= n => Rotated(track, b)[h + k] = Around(track, i + k)

LEMMA RotatedTo ==
  ASSUME NEW track, NEW n \in Nat \ {0}, Ints(track, n), NEW b \in Int,
         NEW i \in 1 .. n, NEW h \in 1 .. n, Alike(n, h + b, i)
  PROVE  Alongside(track, n, b, i, h)
<1> DEFINE x == h + b
<1>1. x \in Int /\ i \in Int
  OBVIOUS
<1>2. i = Spot(n, x)
  <2> HIDE DEF x
  <2>1. Alike(n, x, i)
    BY DEF x
  <2> QED BY <1>1, <2>1, OneSpot
<1>3. ASSUME NEW k \in Nat, h + k <= n PROVE Rotated(track, b)[h + k] = Around(track, i + k)
  <2> DEFINE y == x + k
             z == i + k
             g == h + k
  <2>1. y \in Int /\ z \in Int /\ g \in 1 .. n /\ g + b = y
    BY <1>3
  <2>2. Alike(n, y, z)
    <3> HIDE DEF x
    <3>1. Alike(n, x, i) /\ k \in Int
      BY DEF x
    <3> QED BY <1>1, <3>1, AlikeIs
  <2> HIDE DEF y, z, g
  <2>3. Rotated(track, b)[g] = Around(track, g + b)
    BY <2>1, RotatedIs DEF Rotates
  <2>4. Around(track, y) = Around(track, z)
    BY <2>1, <2>2, AroundSpot DEF Ints
  <2>5. Rotated(track, b)[g] = Around(track, z)
    BY <2>1, <2>3, <2>4
  <2> QED BY <2>5 DEF z, g
<1> QED BY <1>2, <1>3 DEF Alongside

LEMMA RotatedFrom ==
  ASSUME NEW track, NEW n \in Nat \ {0}, Ints(track, n), NEW b \in Int, NEW i \in 1 .. n
  PROVE  \E h \in 1 .. n : Alongside(track, n, b, i, h)
<1> DEFINE x == i - b
           h == Spot(n, x)
<1>1. x \in Int /\ b \in Int /\ x + b = i
  OBVIOUS
<1> HIDE DEF x
<1>2. h \in 1 .. n /\ Alike(n, x, h)
  BY <1>1, SpotIs
<1> HIDE DEF h
<1>3. Alike(n, x + b, h + b) /\ h \in Int /\ h + b \in Int
  BY <1>1, <1>2, AlikeIs
<1>4. Alike(n, i, h + b)
  BY <1>1, <1>3
<1> DEFINE y == h + b
<1>5. Alike(n, i, y) /\ y \in Int
  BY <1>3, <1>4
<1> HIDE DEF y
<1>6. Alike(n, y, i)
  BY <1>5, AlikeIs
<1> QED BY <1>2, <1>6, RotatedTo DEF y

----------------------------------------------------------------------------
(* The tracks of disks in order, seen from where the last format began: ID *)
(* marks at the places of the fields only, each with the address of its    *)
(* sector, unless the format has been cut short within it, and then no     *)
(* data mark before its place.                                             *)

Cut(track, p) == track[IdAt(0, p) + 4] = 255
Orderly(track) ==
  /\ Ints(track, TrackLength)
  /\ \A i \in 1 .. TrackLength : track[i] = IdMark => \E p \in 0 .. Sectors - 1 : i = IdAt(0, p)
  /\ \A p \in 0 .. Sectors - 1 :
       /\ track[IdAt(0, p)] = IdMark => HasId(track, 0, p) \/ Cut(track, p)
       /\ HasId(track, 0, p) =>
            \A i \in IdAt(0, p) + 1 .. DataAt(0, p) - 1 : track[i] \notin DataMarks

InOrder(disk) == Ints(disk, TrackLength) /\ \E b \in Int : Orderly(Rotated(disk, b))

(* A sector with its data, v in every byte. *)
HasSector(track, s, v) ==
  /\ HasId(track, 0, MapIndex[s])
  /\ \E l : /\ HasData(track, 0, MapIndex[s], l)
            /\ Field(track, DataAt(0, MapIndex[s]) + l) = Repeat(DataBytes, v)
OnDisk(disk, s, v) ==
  Ints(disk, TrackLength) /\ \E b \in Int : Orderly(Rotated(disk, b)) /\ HasSector(Rotated(disk, b), s, v)

(* The places of the field at place p. *)
Fits(p, i, c, e) ==
  /\ i = IdAt(0, p) /\ c = DataAt(0, p) /\ e = FieldStart(p) + FieldLength
  /\ i \in Nat \ {0} /\ c \in Nat /\ e \in Nat /\ FieldStart(p) < i /\ i + 8 <= c
  /\ c + DataBytes + 2 + Gap.data = e /\ e <= TrackLength
  /\ TrackLength \in Nat \ {0} /\ DataBytes \in Nat \ {0} /\ Gap.data \in Nat

LEMMA FieldFits ==
  ASSUME NEW p \in 0 .. Sectors - 1
  PROVE  Fits(p, IdAt(0, p), DataAt(0, p), FieldStart(p) + FieldLength)
<1> DEFINE i == IdAt(0, p)
           c == DataAt(0, p)
           a == FieldStart(p)
           e == a + FieldLength
<1>1. 0 \in 0 .. Gap.track /\ TrackLength \in Nat \ {0} /\ p \in 0 .. Sectors /\ FieldStart(p) \in Nat
  BY Sizes, LayoutInts, Spread
<1>2. /\ 0 + a \in Nat /\ i \in Nat /\ c \in Nat /\ 0 + a < i /\ c = i + 7 + Gap.id + Gap.zeros
      /\ c + DataBytes + 2 + Gap.data = 0 + a + FieldLength
      /\ 0 + a + FieldLength <= TrackLength
  BY <1>1, FieldWithin
<1>3. /\ Gap.id \in Nat \ {0} /\ Gap.zeros \in Nat \ {0} /\ Gap.data \in Nat
      /\ DataBytes \in Nat \ {0} /\ FieldLength \in Nat
  BY Lengths
<1>4. a \in Nat
  BY <1>1
<1> HIDE DEF i, c, a
<1>5. 0 + a = a
  BY <1>4
<1>6. /\ i \in Nat \ {0} /\ c \in Nat /\ e \in Nat /\ a < i /\ i + 8 <= c
      /\ c + DataBytes + 2 + Gap.data = e /\ e <= TrackLength
  BY <1>2, <1>3, <1>4, <1>5
<1> QED BY <1>1, <1>3, <1>6 DEF Fits, i, c, a, e

LEMMA NoOtherId ==
  ASSUME NEW track, Orderly(track), NEW p \in 0 .. Sectors - 1,
         NEW k \in IdAt(0, p) + 1 .. FieldStart(p) + FieldLength
  PROVE  track[k] # IdMark
<1> SUFFICES ASSUME track[k] = IdMark PROVE FALSE
  OBVIOUS
<1> DEFINE i == IdAt(0, p)
           c == DataAt(0, p)
           a == FieldStart(p)
           e == a + FieldLength
<1>1. Fits(p, i, c, e)
  BY FieldFits
<1> HIDE DEF i, c, a
<1>2. k \in 1 .. TrackLength /\ i < k /\ k <= e
  BY <1>1 DEF Fits, i, a
<1>3. PICK q \in 0 .. Sectors - 1 : k = IdAt(0, q)
  BY <1>2 DEF Orderly
<1> DEFINE y == FieldStart(q)
           f == y + FieldLength
<1>4. Fits(q, k, DataAt(0, q), f)
  BY <1>3, FieldFits
<1>5. q # p
  BY <1>2, <1>3 DEF i
<1>6. p \in 0 .. Sectors /\ q \in 0 .. Sectors /\ (p < q \/ q < p)
  BY <1>5, Sizes
<1>7. (p < q => e <= y) /\ (q < p => f <= a) /\ y \in Nat /\ a \in Nat /\ FieldLength \in Nat
  BY <1>6, Spread, Lengths DEF a
<1> HIDE DEF y
<1>8. y < k /\ k <= f /\ a < i
  <2>1. y < k
    BY <1>4 DEF Fits, y
  <2>2. a < i
    BY <1>1 DEF Fits, a
  <2>3. k <= f
    <3> DEFINE d == DataAt(0, q)
    <3>1. k \in Nat /\ d \in Nat /\ f \in Nat /\ k + 8 <= d /\ d + DataBytes + 2 + Gap.data = f
          /\ DataBytes \in Nat /\ Gap.data \in Nat
      BY <1>4 DEF Fits
    <3> HIDE DEF d, f
    <3> QED BY <3>1
  <2> QED BY <2>1, <2>2, <2>3
<1>9. i \in Nat /\ k \in Nat
  BY <1>1, <1>4 DEF Fits
<1> QED BY <1>2, <1>6, <1>7, <1>8, <1>9

(* The ID field of a sector, if the disk has one. *)
LEMMA SectorOfPlace ==
  ASSUME NEW p \in 0 .. Sectors - 1, NEW s \in Sector, SectorAt(p) = s
  PROVE  p = MapIndex[s]
BY SectorPlaces

LEMMA PlaceOfSector ==
  ASSUME NEW s \in Sector
  PROVE  MapIndex[s] \in 0 .. Sectors - 1 /\ SectorAt(MapIndex[s]) = s
<1>1. MapIndex[s] \in 0 .. Sectors - 1
  BY Places
<1>2. SectorAt(MapIndex[s]) \in Sector /\ MapIndex[SectorAt(MapIndex[s])] = MapIndex[s]
  BY <1>1, SectorPlaces
<1> QED BY <1>1, <1>2, SkewAssumption

LEMMA IdFieldIs ==
  ASSUME NEW disk, NEW s, NEW i
  PROVE  i \in IdFields(disk, s) <=>
           /\ i \in 1 .. Len(disk) /\ disk[i] = IdMark
           /\ Around(disk, i + 1) % 256 = 0 /\ Around(disk, i + 2) % 256 = 0
           /\ Around(disk, i + 3) % 256 = s /\ Around(disk, i + 4) % 256 = 0
<1> DEFINE id == [k \in 1 .. 4 |-> Around(disk, i + k) % 256]
<1>1. i \in IdFields(disk, s) <=>
        i \in 1 .. Len(disk) /\ disk[i] = IdMark /\ <<Number, 0, s, 0>> = id
  BY DEF IdFields
<1>2. /\ id[1] = Around(disk, i + 1) % 256 /\ id[2] = Around(disk, i + 2) % 256
      /\ id[3] = Around(disk, i + 3) % 256 /\ id[4] = Around(disk, i + 4) % 256
  OBVIOUS
<1>3. id = [k \in 1 .. 4 |-> id[k]]
  OBVIOUS
<1> HIDE DEF id
<1>4. <<Number, 0, s, 0>> = id <=> id[1] = 0 /\ id[2] = 0 /\ id[3] = s /\ id[4] = 0
  <2> DEFINE want == <<Number, 0, s, 0>>
  <2>1. want[1] = 0 /\ want[2] = 0 /\ want[3] = s /\ want[4] = 0
    BY DEF Number
  <2>2. want = [k \in 1 .. 4 |-> want[k]]
    OBVIOUS
  <2> HIDE DEF want
  <2>3. ASSUME id[1] = 0 /\ id[2] = 0 /\ id[3] = s /\ id[4] = 0 PROVE want = id
    <3>1. \A k \in 1 .. 4 : k = 1 \/ k = 2 \/ k = 3 \/ k = 4
      OBVIOUS
    <3>2. \A k \in 1 .. 4 : want[k] = id[k]
      BY <2>1, <2>3, <3>1
    <3>3. [k \in 1 .. 4 |-> want[k]] = [k \in 1 .. 4 |-> id[k]]
      BY <3>2
    <3> QED BY <1>3, <2>2, <3>3
  <2>4. want = id => id[1] = 0 /\ id[2] = 0 /\ id[3] = s /\ id[4] = 0
    BY <2>1
  <2>5. want = id <=> id[1] = 0 /\ id[2] = 0 /\ id[3] = s /\ id[4] = 0
    BY <2>3, <2>4
  <2> QED BY <2>5 DEF want
<1> QED BY <1>1, <1>2, <1>4

Starts(disk, b, s, i) ==
  /\ HasId(Rotated(disk, b), 0, MapIndex[s])
  /\ Alongside(disk, TrackLength, b, i, IdAt(0, MapIndex[s]))

LEMMA IdFieldStarts ==
  ASSUME Sectors <= 255, NEW disk, Ints(disk, TrackLength), NEW b \in Int,
         Orderly(Rotated(disk, b)), NEW s \in Sector, NEW i \in IdFields(disk, s)
  PROVE  Starts(disk, b, s, i)
<1> DEFINE n == TrackLength
           t == Rotated(disk, b)
<1>1. n \in Nat \ {0} /\ Len(disk) = n
  BY LayoutInts DEF Ints
<1>2. /\ i \in 1 .. n /\ disk[i] = IdMark
      /\ Around(disk, i + 1) % 256 = 0 /\ Around(disk, i + 2) % 256 = 0
      /\ Around(disk, i + 3) % 256 = s /\ Around(disk, i + 4) % 256 = 0
  BY <1>1, IdFieldIs
<1> HIDE DEF n
<1>3. PICK h \in 1 .. n : Alongside(disk, n, b, i, h)
  <2>1. Ints(disk, n)
    BY DEF n
  <2> QED BY <1>1, <1>2, <2>1, RotatedFrom
<1>4. \A k \in Nat : h + k <= n => t[h + k] = Around(disk, i + k)
  BY <1>3 DEF Alongside
<1> HIDE DEF t
<1>5. t[h] = IdMark
  <2>1. 0 \in Nat /\ h + 0 = h /\ i + 0 = i /\ h <= n
    BY <1>1, <1>2
  <2>2. t[h + 0] = Around(disk, i + 0)
    BY <1>4, <2>1
  <2>3. Around(disk, i) = disk[i]
    BY <1>1, <1>2, AroundIs
  <2> QED BY <1>2, <2>1, <2>2, <2>3
<1>6. PICK p \in 0 .. Sectors - 1 : h = IdAt(0, p)
  BY <1>5 DEF Orderly, t, n
<1>7. h + 4 <= n
  <2> DEFINE c == DataAt(0, p)
             e == FieldStart(p) + FieldLength
  <2>1. Fits(p, h, c, e)
    BY <1>6, FieldFits
  <2> HIDE DEF c, e
  <2> QED BY <2>1 DEF Fits, n
<1>8. /\ t[h + 1] = Around(disk, i + 1) /\ t[h + 2] = Around(disk, i + 2)
      /\ t[h + 3] = Around(disk, i + 3) /\ t[h + 4] = Around(disk, i + 4)
  BY <1>1, <1>4, <1>7
<1>9. HasId(t, 0, p)
  <2>1. HasId(t, 0, p) \/ t[h + 4] = 255
    BY <1>5, <1>6 DEF Orderly, Cut, t
  <2>2. 255 % 256 # 0
    OBVIOUS
  <2> QED BY <1>2, <1>8, <2>1, <2>2
<1>10. SectorAt(p) = s
  <2> DEFINE u == SectorAt(p)
  <2>1. t[h + 3] = u /\ u \in Sector
    BY <1>6, <1>9, SectorPlaces DEF HasId
  <2> HIDE DEF u
  <2>2. u \in 0 .. 255
    BY <2>1, Sizes
  <2>3. u % 256 = u
    BY <2>2
  <2>4. u = s
    BY <1>2, <1>8, <2>1, <2>3
  <2> QED BY <2>4 DEF u
<1>11. p = MapIndex[s]
  BY <1>10, SectorOfPlace
<1> QED BY <1>3, <1>6, <1>9, <1>11 DEF Starts, t, n

LEMMA StartsIdField ==
  ASSUME Sectors <= 255, NEW disk, Ints(disk, TrackLength), NEW b \in Int,
         Orderly(Rotated(disk, b)), NEW s \in Sector, HasId(Rotated(disk, b), 0, MapIndex[s])
  PROVE  \E i \in IdFields(disk, s) : Starts(disk, b, s, i)
<1> DEFINE n == TrackLength
           t == Rotated(disk, b)
           p == MapIndex[s]
           h == IdAt(0, p)
           x == h + b
           i == Spot(n, x)
<1>1. n \in Nat \ {0} /\ Len(disk) = n /\ Ints(disk, n)
  BY LayoutInts DEF Ints
<1>2. p \in 0 .. Sectors - 1 /\ SectorAt(p) = s
  BY PlaceOfSector
<1> HIDE DEF n, p
<1>3. h \in 1 .. n /\ h + 4 <= n /\ x \in Int
  <2> DEFINE c == DataAt(0, p)
             e == FieldStart(p) + FieldLength
  <2>1. Fits(p, h, c, e)
    BY <1>2, FieldFits
  <2> HIDE DEF c, e, h
  <2> QED BY <2>1 DEF Fits, n
<1>4. /\ t[h] = IdMark /\ t[h + 1] = 0 /\ t[h + 2] = 0 /\ t[h + 3] = s /\ t[h + 4] = 0
  BY <1>2 DEF HasId, p
<1> HIDE DEF t, h
<1>5. i \in 1 .. n /\ Alike(n, x, i)
  <2> HIDE DEF x
  <2> QED BY <1>1, <1>3, SpotIs
<1> HIDE DEF i
<1>6. Alongside(disk, n, b, i, h)
  BY <1>1, <1>3, <1>5, RotatedTo
<1>7. \A k \in Nat : h + k <= n => t[h + k] = Around(disk, i + k)
  BY <1>6 DEF Alongside, t
<1>8. disk[i] = IdMark
  <2>1. 0 \in Nat /\ h + 0 = h /\ i + 0 = i /\ h <= n
    BY <1>1, <1>3, <1>5
  <2>2. t[h + 0] = Around(disk, i + 0)
    BY <1>7, <2>1
  <2>3. Around(disk, i) = disk[i]
    BY <1>1, <1>5, AroundIs
  <2> QED BY <1>4, <2>1, <2>2, <2>3
<1>9. /\ t[h + 1] = Around(disk, i + 1) /\ t[h + 2] = Around(disk, i + 2)
      /\ t[h + 3] = Around(disk, i + 3) /\ t[h + 4] = Around(disk, i + 4)
  BY <1>1, <1>3, <1>7
<1>10. s % 256 = s /\ 0 % 256 = 0
  <2>1. s \in 0 .. 255
    BY Sizes
  <2> QED BY <2>1
<1>11. i \in IdFields(disk, s)
  <2>1. /\ Around(disk, i + 1) % 256 = 0 /\ Around(disk, i + 2) % 256 = 0
        /\ Around(disk, i + 3) % 256 = s /\ Around(disk, i + 4) % 256 = 0
    BY <1>4, <1>9, <1>10, Zenon
  <2>2. i \in 1 .. Len(disk)
    BY <1>1, <1>5
  <2> QED BY <1>8, <2>1, <2>2, IdFieldIs
<1>12. Starts(disk, b, s, i)
  <2>1. HasId(Rotated(disk, b), 0, MapIndex[s])
    OBVIOUS
  <2> QED BY <1>6, <2>1 DEF Starts, n, h, p
<1> QED BY <1>11, <1>12

(* Two places from which the same place follows are one. *)
LEMMA OneStart ==
  ASSUME NEW disk, NEW b, NEW s, NEW i, Starts(disk, b, s, i), NEW j, Starts(disk, b, s, j)
  PROVE  i = j
BY DEF Starts, Alongside

(* The first of what there is. *)
LEMMA LeastOf ==
  ASSUME NEW S \in SUBSET Int, NEW m \in S, \A k \in S : m <= k
  PROVE  Min(S) = m
<1> DEFINE x == CHOOSE x \in S : \A y \in S : x <= y
<1>1. x \in S /\ \A y \in S : x <= y
  OBVIOUS
<1>2. Min(S) = x
  BY DEF Min
<1> HIDE DEF x
<1>3. x \in Int /\ m \in Int /\ x <= m /\ m <= x
  BY <1>1
<1> QED BY <1>2, <1>3

(* What the program reads of a sector with one ID field, at i, and the     *)
(* first mark behind it, of data, at j.                                    *)
FirstMark(disk, i, j) ==
  /\ j \in i + 1 .. i + Len(disk) /\ Around(disk, j) \in DataMarks
  /\ \A k \in i + 1 .. j - 1 : Around(disk, k) \notin DataMarks /\ Around(disk, k) # IdMark

DataBehind(disk, j) == [k \in 1 .. DataBytes |-> Around(disk, j + k) % 256]

LEMMA ReadsAt ==
  ASSUME NEW disk, Len(disk) \in Nat, NEW s, NEW i \in Int, IdFields(disk, s) = {i},
         NEW j \in Int, FirstMark(disk, i, j)
  PROVE  Reads(disk, s) = {DataBehind(disk, j)}
<1> DEFINE marks == {k \in i + 1 .. i + Len(disk) : SectorMarkAt(disk, k)}
           field(x) == IF Around(disk, x) = IdMark THEN <<>>
                       ELSE [k \in 1 .. DataBytes |-> Around(disk, x + k) % 256]
<1>1. marks \in SUBSET Int /\ j \in marks /\ \A k \in marks : j <= k
  <2>1. j \in marks
    BY DEF FirstMark, SectorMarkAt
  <2>2. ASSUME NEW k \in marks PROVE j <= k
    <3>1. SUFFICES ASSUME k < j PROVE FALSE
      OBVIOUS
    <3>2. k \in i + 1 .. j - 1 /\ SectorMarkAt(disk, k)
      BY <3>1
    <3> QED BY <3>2 DEF FirstMark, SectorMarkAt
  <2> QED BY <2>1, <2>2
<1>2. Min(marks) = j
  <2> HIDE DEF marks
  <2> QED BY <1>1, LeastOf
<1>3. Reads(disk, s) = {field(Min(marks))}
  <2>1. Reads(disk, s) =
          {LET x == Min({k \in h + 1 .. h + Len(disk) : SectorMarkAt(disk, k)})
           IN IF Around(disk, x) = IdMark THEN <<>>
              ELSE [k \in 1 .. DataBytes |-> Around(disk, x + k) % 256] : h \in {i}}
    BY DEF Reads
  <2> QED BY <2>1
<1>4. Around(disk, j) # IdMark
  BY NoMark DEF FirstMark
<1>5. field(j) = DataBehind(disk, j)
  BY <1>4 DEF DataBehind
<1> HIDE DEF field, marks
<1> QED BY <1>2, <1>3, <1>5

LEMMA OnlyStart ==
  ASSUME Sectors <= 255, NEW disk, Ints(disk, TrackLength), NEW b \in Int,
         Orderly(Rotated(disk, b)), NEW s \in Sector, NEW i \in IdFields(disk, s)
  PROVE  IdFields(disk, s) = {i} /\ Starts(disk, b, s, i)
<1>1. \A j \in IdFields(disk, s) : Starts(disk, b, s, j)
  BY IdFieldStarts
<1> QED BY <1>1, OneStart

(* A sector with its data is read as such. *)
LEMMA SectorRead ==
  ASSUME Sectors <= 255, NEW disk, NEW s \in Sector, NEW v, OnDisk(disk, s, v)
  PROVE  Reads(disk, s) = {Repeat(DataBytes, v)}
<1> DEFINE n == TrackLength
           p == MapIndex[s]
           h == IdAt(0, p)
           c == DataAt(0, p)
           e == FieldStart(p) + FieldLength
<1>1. PICK b \in Int : Orderly(Rotated(disk, b)) /\ HasSector(Rotated(disk, b), s, v)
  BY DEF OnDisk
<1> DEFINE t == Rotated(disk, b)
<1>2. PICK l : HasData(t, 0, p, l) /\ Field(t, c + l) = Repeat(DataBytes, v)
  BY <1>1 DEF HasSector
<1>3. Ints(disk, n) /\ Len(disk) = n /\ n \in Nat \ {0}
  BY LayoutInts DEF OnDisk, Ints
<1>4. \E i \in IdFields(disk, s) : Starts(disk, b, s, i)
  <2>1. HasId(t, 0, MapIndex[s])
    BY <1>1 DEF HasSector
  <2> QED BY <1>1, <1>3, <2>1, StartsIdField
<1>5. PICK i \in IdFields(disk, s) : Starts(disk, b, s, i)
  BY <1>4
<1>6. IdFields(disk, s) = {i}
  BY <1>1, <1>3, OnlyStart
<1>7. p \in 0 .. Sectors - 1
  BY PlaceOfSector
<1>8. Fits(p, h, c, e)
  <2> HIDE DEF p
  <2> QED BY <1>7, FieldFits
<1>9. /\ l \in Nat /\ l <= Gap.data /\ t[c + l] \in DataMarks
      /\ \A k \in h + 1 .. c + l - 1 : t[k] \notin DataMarks
  BY <1>2 DEF HasData, Small
<1>10. \A k \in h + 1 .. e : t[k] # IdMark
  <2> HIDE DEF p, t
  <2> QED BY <1>1, <1>7, NoOtherId DEF t
<1>11. i \in 1 .. n /\ \A k \in Nat : h + k <= n => t[h + k] = Around(disk, i + k)
  BY <1>5 DEF Starts, Alongside
<1> DEFINE d == c + l - h
           j == i + d
<1> HIDE DEF p, h, c, e, t, n
<1>12. /\ h \in Nat /\ c \in Nat /\ e \in Nat /\ e <= n /\ h + 8 <= c /\ c + l + DataBytes + 2 <= e
       /\ DataBytes \in Nat
  BY <1>8, <1>9 DEF Fits, n
<1>13. d \in Nat \ {0} /\ h + d = c + l /\ c + l + DataBytes <= n /\ d <= n
  BY <1>3, <1>9, <1>12
<1> HIDE DEF d
<1>14. FirstMark(disk, i, j)
  <2>1. j \in i + 1 .. i + Len(disk)
    BY <1>3, <1>11, <1>13
  <2>2. Around(disk, j) \in DataMarks
    <3>1. d \in Nat /\ h + d <= n
      BY <1>3, <1>9, <1>12, <1>13
    <3>2. t[h + d] = Around(disk, i + d)
      BY <1>11, <3>1
    <3> QED BY <1>9, <1>13, <3>2
  <2>3. ASSUME NEW k \in i + 1 .. j - 1 PROVE Around(disk, k) \notin DataMarks /\ Around(disk, k) # IdMark
    <3> DEFINE x == k - i
    <3>1. x \in Nat /\ i + x = k /\ 1 <= x /\ x < d
      BY <1>11, <1>13
    <3> HIDE DEF x
    <3>2. h + x <= n /\ h + x \in h + 1 .. c + l - 1 /\ h + x \in h + 1 .. e
      BY <1>3, <1>9, <1>12, <1>13, <3>1
    <3>3. t[h + x] = Around(disk, i + x)
      BY <1>11, <3>1, <3>2
    <3> QED BY <1>9, <1>10, <3>1, <3>2, <3>3
  <2> QED BY <2>1, <2>2, <2>3 DEF FirstMark
<1>15. \A k \in 1 .. DataBytes : Around(disk, j + k) = t[c + l + k]
  <2>1. ASSUME NEW k \in 1 .. DataBytes PROVE Around(disk, j + k) = t[c + l + k]
    <3> DEFINE x == d + k
    <3>1. x \in Nat /\ h + x <= n /\ i + x = j + k /\ h + x = c + l + k
      BY <1>3, <1>9, <1>11, <1>12, <1>13
    <3> HIDE DEF x, j
    <3>2. t[h + x] = Around(disk, i + x)
      BY <1>11, <3>1
    <3> QED BY <3>1, <3>2
  <2> QED BY <2>1
<1>16. j \in Int /\ i \in Int
  BY <1>11, <1>13
<1> HIDE DEF j
<1>17. DataBehind(disk, j) = Field(t, c + l)
  BY <1>15 DEF Field, DataBehind
<1>18. Reads(disk, s) = {DataBehind(disk, j)}
  <2>1. Len(disk) \in Nat
    BY <1>3
  <2> QED BY <1>6, <1>14, <1>16, <2>1, ReadsAt, Zenon
<1>19. Field(t, c + l) = Repeat(DataBytes, v)
  BY <1>2 DEF c, p, t
<1> QED BY <1>17, <1>18, <1>19

----------------------------------------------------------------------------
(* Where a conversion has found a sector: behind an ID field with its      *)
(* address, at the next mark.                                              *)
Awaited(track, i, f) ==
  \E j \in i .. Len(track) :
    /\ track[j] \in DataMarks /\ j + DataBytes + 2 <= Len(track) /\ f = Field(track, j)
    /\ \A k \in i .. j - 1 : track[k] \notin DataMarks /\ track[k] # IdMark
Fetched(track, s, f) ==
  \E i \in 1 .. Len(track) :
    /\ track[i] = IdMark /\ i + 6 <= Len(track) /\ Addressed(Number, track, i) = s
    /\ Awaited(track, i + 7, f)
FoundBehind(track, i, q, s, f) ==
  f # <<>> => Fetched(track, s, f) \/ (q = s /\ Awaited(track, i, f))
FoundAll(track, i, q, found) ==
  found \in Sectorwise /\ \A s \in Sector : FoundBehind(track, i, q, s, found[s])

LEMMA AwaitedBefore ==
  ASSUME NEW track, NEW i \in Nat, NEW f, Len(track) \in Nat,
         track[i] # IdMark, track[i] \notin DataMarks, Awaited(track, i + 1, f)
  PROVE  Awaited(track, i, f)
<1>1. PICK j \in i + 1 .. Len(track) :
             /\ track[j] \in DataMarks /\ j + DataBytes + 2 <= Len(track) /\ f = Field(track, j)
             /\ \A k \in i + 1 .. j - 1 : track[k] \notin DataMarks /\ track[k] # IdMark
  BY DEF Awaited
<1>2. ASSUME NEW k \in i .. j - 1 PROVE track[k] \notin DataMarks /\ track[k] # IdMark
  <2>1. k = i \/ k \in i + 1 .. j - 1
    OBVIOUS
  <2> QED BY <1>1, <2>1
<1>3. j \in i .. Len(track)
  OBVIOUS
<1> QED BY <1>1, <1>2, <1>3 DEF Awaited

LEMMA ScanFetches ==
  ASSUME NEW track \in Seq(Int), NEW i \in Nat \ {0}, NEW pending \in 0 .. Sectors, NEW g,
         \A j \in Nat : \A q \in 0 .. Sectors :
           j > i /\ i <= Len(track) => FoundAll(track, j, q, g[j][q])
  PROVE  FoundAll(track, i, pending, ScanOf(track, g, i, pending))
<1> DEFINE n == Len(track)
           found == ScanOf(track, g, i, pending)
<1>1. DataBytes \in Nat /\ Sectors \in Nat /\ n \in Nat /\ Sector = 1 .. Sectors
  BY Sizes, LenProperties
<1>2. /\ i + 1 \in Nat /\ i + 1 > i /\ i + 7 \in Nat /\ i + 7 > i
      /\ i + DataBytes + 3 \in Nat /\ i + DataBytes + 3 > i /\ 0 \in 0 .. Sectors
  BY <1>1
<1>3. Addressed(Number, track, i) \in 0 .. Sectors
  BY AddressedType
<1>4. ASSUME i <= n
      PROVE  /\ FoundAll(track, i + 1, 0, g[i + 1][0])
             /\ FoundAll(track, i + 1, pending, g[i + 1][pending])
             /\ FoundAll(track, i + DataBytes + 3, 0, g[i + DataBytes + 3][0])
             /\ FoundAll(track, i + 7, Addressed(Number, track, i),
                         g[i + 7][Addressed(Number, track, i)])
  BY <1>2, <1>3, <1>4, Zenon
<1>5. found \in Sectorwise
  <2>1. \A j \in Nat : \A q \in 0 .. Sectors : j > i /\ i <= Len(track) => g[j][q] \in Sectorwise
    BY DEF FoundAll
  <2> QED BY <2>1, ScanType
<1>6. ASSUME NEW s \in Sector PROVE FoundBehind(track, i, pending, s, found[s])
  <2>0. ~(s = 0)
    BY <1>1
  <2>1. CASE i > n
    <3>1. ~(i <= n)
      BY <1>1, <2>1
    <3>2. found = [t \in Sector |-> <<>>]
      BY <2>1, <3>1 DEF ScanOf
    <3> HIDE DEF found
    <3>3. found[s] = <<>>
      BY <3>2
    <3> QED BY <3>3 DEF FoundBehind
  <2>2. CASE i <= n /\ track[i] = IdMark
    <3>1. ~(i > n)
      BY <1>1, <2>2
    <3>2. track[i] \notin DataMarks
      BY <2>2, NoMark
    <3>3. found = IF i + 6 > n THEN g[i + 1][0] ELSE g[i + 7][Addressed(Number, track, i)]
      BY <2>2, <3>1, <3>2 DEF ScanOf
    <3> HIDE DEF found
    <3>4. CASE i + 6 > n
      <4>1. FoundBehind(track, i + 1, 0, s, found[s])
        BY <1>4, <2>2, <3>3, <3>4 DEF FoundAll
      <4> QED BY <2>0, <4>1 DEF FoundBehind
    <3>5. CASE ~(i + 6 > n)
      <4> DEFINE t == Addressed(Number, track, i)
      <4>1. FoundBehind(track, i + 7, t, s, found[s])
        BY <1>4, <2>2, <3>3, <3>5 DEF FoundAll
      <4>2. ASSUME t = s, Awaited(track, i + 7, found[s]) PROVE Fetched(track, s, found[s])
        <5>1. i + 6 <= n /\ i \in 1 .. n
          BY <1>1, <2>2, <3>5
        <5> QED BY <2>2, <4>2, <5>1 DEF Fetched
      <4> HIDE DEF t
      <4> QED BY <4>1, <4>2 DEF FoundBehind
    <3> QED BY <3>4, <3>5
  <2>3. CASE i <= n /\ track[i] # IdMark /\ track[i] \in DataMarks /\ pending # 0
    <3>1. ~(i > n)
      BY <1>1, <2>3
    <3>2. found = IF i + DataBytes + 2 > n THEN g[i + 1][0]
                  ELSE [g[i + DataBytes + 3][0] EXCEPT
                          ![pending] = IF @ = <<>> THEN Field(track, i) ELSE @]
      BY <2>3, <3>1 DEF ScanOf
    <3> HIDE DEF found
    <3>3. CASE i + DataBytes + 2 > n
      <4>1. FoundBehind(track, i + 1, 0, s, found[s])
        BY <1>4, <2>3, <3>2, <3>3 DEF FoundAll
      <4> QED BY <2>0, <4>1 DEF FoundBehind
    <3>4. CASE ~(i + DataBytes + 2 > n)
      <4> DEFINE rest == g[i + DataBytes + 3][0]
      <4>1. rest \in Sectorwise /\ FoundBehind(track, i + DataBytes + 3, 0, s, rest[s])
        BY <1>4, <2>3 DEF FoundAll
      <4>2. found = [rest EXCEPT ![pending] = IF @ = <<>> THEN Field(track, i) ELSE @]
        BY <3>2, <3>4
      <4> HIDE DEF rest
      <4>3. found[s] = rest[s] \/ (s = pending /\ found[s] = Field(track, i))
        <5>1. rest \in [Sector -> FieldBytes \cup {<<>>}]
          BY <4>1 DEF Sectorwise
        <5> QED BY <4>2, <5>1
      <4>4. ASSUME s = pending, found[s] = Field(track, i) PROVE Awaited(track, i, found[s])
        <5>1. i \in i .. n /\ \A k \in i .. i - 1 : FALSE
          BY <1>1, <2>3
        <5>2. i + DataBytes + 2 <= n
          BY <1>1, <3>4
        <5> QED BY <2>3, <4>4, <5>1, <5>2 DEF Awaited
      <4>5. CASE found[s] = rest[s]
        BY <2>0, <4>1, <4>5 DEF FoundBehind
      <4> QED BY <4>3, <4>4, <4>5 DEF FoundBehind
    <3> QED BY <3>3, <3>4
  <2>4. CASE i <= n /\ track[i] # IdMark /\ ~(track[i] \in DataMarks /\ pending # 0)
    <3>1. ~(i > n)
      BY <1>1, <2>4
    <3>2. found = g[i + 1][pending]
      BY <2>4, <3>1 DEF ScanOf
    <3> HIDE DEF found
    <3>3. FoundBehind(track, i + 1, pending, s, found[s])
      BY <1>4, <2>4, <3>2 DEF FoundAll
    <3>4. ASSUME pending = s, Awaited(track, i + 1, found[s]) PROVE Awaited(track, i, found[s])
      <4>1. track[i] \notin DataMarks
        BY <2>0, <2>4, <3>4
      <4> QED BY <1>1, <2>4, <3>4, <4>1, AwaitedBefore
    <3> QED BY <3>3, <3>4 DEF FoundBehind
  <2> QED BY <1>1, <2>1, <2>2, <2>3, <2>4
<1> QED BY <1>5, <1>6 DEF FoundAll

LEMMA FoundFetched ==
  ASSUME NEW track \in Seq(Int)
  PROVE  FoundAll(track, 1, 0, Found(Number, track))
<1>1. PICK scan : Scans(track, scan)
  BY FoundScans
<1> DEFINE n == Len(track)
           Q == 0 .. Sectors
           m == [i \in Nat |-> IF i > n THEN 0 ELSE n + 1 - i]
           P == {i \in Nat : i # 0 => \A q \in Q : FoundAll(track, i, q, scan[i][q])}
<1>2. n \in Nat /\ 0 \in Q
  BY Sizes, LenProperties
<1>3. m \in [Nat -> Nat] /\ \A i, j \in Nat : j > i /\ i <= n => m[j] < m[i]
  BY <1>2
<1>4. \A i \in Nat : (\A j \in Nat : m[j] < m[i] => j \in P) => i \in P
  <2>1. SUFFICES ASSUME NEW i \in Nat, i # 0, \A j \in Nat : m[j] < m[i] => j \in P
                 PROVE  \A q \in Q : FoundAll(track, i, q, scan[i][q])
    OBVIOUS
  <2>2. \A j \in Nat : \A q \in Q : j > i /\ i <= Len(track) => FoundAll(track, j, q, scan[j][q])
    <3>1. \A j \in Nat : j > i => j # 0
      OBVIOUS
    <3> HIDE DEF m
    <3> QED BY <1>3, <2>1, <3>1
  <2>3. ASSUME NEW q \in Q PROVE FoundAll(track, i, q, scan[i][q])
    <3>1. i \in Nat \ {0}
      BY <2>1
    <3>2. FoundAll(track, i, q, ScanOf(track, scan, i, q))
      BY <2>2, <3>1, ScanFetches
    <3>3. scan[i][q] = ScanOf(track, scan, i, q)
      BY <1>1 DEF Scans
    <3> QED BY <3>2, <3>3
  <2> QED BY <2>3
<1>5. 1 \in P
  <2>1. \A i \in Nat : i \in P
    <3> HIDE DEF P, m
    <3> QED BY <1>3, <1>4, Descent
  <2> QED BY <2>1
<1>6. FoundAll(track, 1, 0, scan[1][0])
  BY <1>2, <1>5
<1> QED BY <1>1, <1>6 DEF Scans

(* What is saved of a disk in order is what a program reads from it. *)
LEMMA ExportRead ==
  ASSUME Sectors <= 255, NEW disk, InOrder(disk), Export(Number, disk) # NoImage,
         NEW s \in Sector
  PROVE  Reads(disk, s) = {SectorData(Export(Number, disk), s)}
<1> DEFINE n == TrackLength
           p == MapIndex[s]
           h == IdAt(0, p)
           c == DataAt(0, p)
           e == FieldStart(p) + FieldLength
           f == Found(Number, disk)[s]
<1>1. PICK b \in Int : Orderly(Rotated(disk, b))
  BY DEF InOrder
<1> DEFINE t == Rotated(disk, b)
<1>2. Ints(disk, n) /\ Len(disk) = n /\ n \in Nat \ {0} /\ disk \in Seq(Int)
  BY LayoutInts DEF InOrder, Ints
<1>3. SectorData(Export(Number, disk), s) = f /\ f \in FieldBytes /\ f # <<>>
  <2>1. SectorData(Export(Number, disk), s) = f /\ f \in FieldBytes
    BY <1>2, ExportIs
  <2> HIDE DEF f
  <2> QED BY <2>1, BytesOfField
<1>4. Fetched(disk, s, f)
  <2>1. FoundBehind(disk, 1, 0, s, f)
    BY <1>2, FoundFetched DEF FoundAll
  <2>2. 0 # s
    BY Sizes
  <2> HIDE DEF f
  <2> QED BY <1>3, <2>1, <2>2 DEF FoundBehind
<1> HIDE DEF f
<1>5. PICK i \in 1 .. n : /\ disk[i] = IdMark /\ i + 6 <= n /\ Addressed(Number, disk, i) = s
                        /\ Awaited(disk, i + 7, f)
  BY <1>2, <1>4 DEF Fetched
<1>6. i \in IdFields(disk, s)
  <2> DEFINE id == [k \in 1 .. 4 |-> disk[i + k] % 256]
  <2>1. id[1] = 0 /\ id[2] = 0 /\ id[3] = s /\ id[4] = 0
    <3>1. Addressed(Number, disk, i)
            = IF id[1] = Number /\ id[2] = 0 /\ id[3] \in Sector /\ id[4] = 0 THEN id[3] ELSE 0
      BY DEF Addressed
    <3>2. s # 0
      BY Sizes
    <3> HIDE DEF id
    <3> QED BY <1>5, <3>1, <3>2 DEF Number
  <2>2. /\ disk[i + 1] % 256 = 0 /\ disk[i + 2] % 256 = 0
        /\ disk[i + 3] % 256 = s /\ disk[i + 4] % 256 = 0
    BY <2>1
  <2>3. /\ Around(disk, i + 1) = disk[i + 1] /\ Around(disk, i + 2) = disk[i + 2]
        /\ Around(disk, i + 3) = disk[i + 3] /\ Around(disk, i + 4) = disk[i + 4]
    <3>1. i + 1 \in 1 .. n /\ i + 2 \in 1 .. n /\ i + 3 \in 1 .. n /\ i + 4 \in 1 .. n /\ n \in Nat
      BY <1>2, <1>5
    <3> HIDE DEF n
    <3> QED BY <1>2, <3>1, AroundIs
  <2> HIDE DEF n
  <2>4. /\ Around(disk, i + 1) % 256 = 0 /\ Around(disk, i + 2) % 256 = 0
        /\ Around(disk, i + 3) % 256 = s /\ Around(disk, i + 4) % 256 = 0
    BY <2>2, <2>3, Zenon
  <2>5. i \in 1 .. Len(disk)
    BY <1>2
  <2> QED BY <1>5, <2>4, <2>5, IdFieldIs, Zenon
<1>7. IdFields(disk, s) = {i} /\ Starts(disk, b, s, i)
  BY <1>1, <1>2, <1>6, OnlyStart
<1>8. p \in 0 .. Sectors - 1
  BY PlaceOfSector
<1>9. Fits(p, h, c, e)
  <2> HIDE DEF p
  <2> QED BY <1>8, FieldFits
<1>10. \A k \in h + 1 .. e : t[k] # IdMark
  <2> HIDE DEF p, t
  <2> QED BY <1>1, <1>8, NoOtherId DEF t
<1>11. \A k \in h + 1 .. c - 1 : t[k] \notin DataMarks
  <2>1. HasId(t, 0, p)
    BY <1>7 DEF Starts
  <2> HIDE DEF p, t
  <2> QED BY <1>1, <1>8, <2>1 DEF Orderly, t, h, c
<1>12. \A k \in Nat : h + k <= n => t[h + k] = Around(disk, i + k)
  BY <1>7 DEF Starts, Alongside
<1> HIDE DEF p, h, c, e, t, n
<1>13. /\ h \in Nat /\ c \in Nat /\ e \in Nat /\ e <= n /\ h + 8 <= c /\ c <= e
       /\ DataBytes \in Nat
  BY <1>9 DEF Fits, n
<1>14. PICK j \in i + 7 .. n :
              /\ disk[j] \in DataMarks /\ j + DataBytes + 2 <= n /\ f = Field(disk, j)
              /\ \A k \in i + 7 .. j - 1 : disk[k] \notin DataMarks /\ disk[k] # IdMark
  BY <1>2, <1>5 DEF Awaited
<1>15. \A k \in 1 .. n : Around(disk, k) = disk[k]
  BY <1>2, AroundIs
<1>16. FirstMark(disk, i, j)
  <2>1. j \in i + 1 .. i + Len(disk) /\ j \in 1 .. n
    BY <1>2, <1>5, <1>14
  <2>2. Around(disk, j) \in DataMarks
    BY <1>14, <1>15, <2>1
  <2>3. ASSUME NEW k \in i + 1 .. j - 1 PROVE Around(disk, k) \notin DataMarks /\ Around(disk, k) # IdMark
    <3>1. CASE k >= i + 7
      <4>1. k \in i + 7 .. j - 1 /\ k \in 1 .. n
        BY <1>2, <1>5, <1>14, <3>1
      <4> QED BY <1>14, <1>15, <4>1
    <3>2. CASE k < i + 7
      <4> DEFINE x == k - i
      <4>1. x \in Nat /\ i + x = k /\ 1 <= x /\ x <= 6
        BY <1>5, <3>2
      <4> HIDE DEF x
      <4>2. h + x <= n /\ h + x \in h + 1 .. c - 1 /\ h + x \in h + 1 .. e
        BY <1>2, <1>13, <4>1
      <4>3. t[h + x] = Around(disk, i + x)
        BY <1>12, <4>1, <4>2
      <4> QED BY <1>10, <1>11, <4>1, <4>2, <4>3
    <3> QED BY <1>5, <1>14, <3>1, <3>2
  <2> QED BY <2>1, <2>2, <2>3 DEF FirstMark
<1>17. DataBehind(disk, j) = Field(disk, j)
  <2>1. \A k \in 1 .. DataBytes : j + k \in 1 .. n
    BY <1>2, <1>5, <1>13, <1>14
  <2>2. \A k \in 1 .. DataBytes : Around(disk, j + k) = disk[j + k]
    BY <1>15, <2>1
  <2> QED BY <2>2 DEF Field, DataBehind
<1>18. Reads(disk, s) = {DataBehind(disk, j)}
  <2>1. Len(disk) \in Nat /\ i \in Int /\ j \in Int
    BY <1>2
  <2> QED BY <1>7, <1>16, <2>1, ReadsAt, Zenon
<1> QED BY <1>3, <1>14, <1>17, <1>18

(* An empty drive is saved to nothing. *)
LEMMA NoDiskNoImage == Export(Number, NoDisk) = NoImage
<1>1. NoDisk \in Seq(Int) /\ Len(NoDisk) = 0
  BY EmptySeq DEF NoDisk
<1>2. PICK scan : Scans(NoDisk, scan)
  BY <1>1, FoundScans
<1>3. Sectors \in Nat \ {0} /\ Sector = 1 .. Sectors
  BY Sizes
<1>4. scan[1][0] = ScanOf(NoDisk, scan, 1, 0)
  BY <1>2, <1>3 DEF Scans
<1>5. 1 > Len(NoDisk) /\ ~(1 <= Len(NoDisk))
  BY <1>1
<1>6. Found(Number, NoDisk) = [s \in Sector |-> <<>>]
  BY <1>2, <1>4, <1>5 DEF ScanOf, Scans
<1>7. 1 \in Sector
  BY <1>3
<1> QED BY <1>6, <1>7 DEF Export

----------------------------------------------------------------------------
(* What the program in the machine makes of a disk in order.               *)

LEMMA BeforeZero ==
  ASSUME NEW n \in Nat \ {0}, NEW x \in 0 .. n - 1
  PROVE  x % n = x /\ (x # 0 => (x - n) % n = x)
<1>1. x % n = x
  OBVIOUS
<1>2. ASSUME x # 0 PROVE (x - n) % n = x
  <2> DEFINE y == x - n
             q == y \div n
             r == y % n
  <2>1. y \in Int /\ r \in 0 .. n - 1 /\ q \in Int /\ y - n * q = r
    OBVIOUS
  <2>2. y = x - n
    OBVIOUS
  <2> HIDE DEF y, q, r
  <2>3. n * (q + 1) = x - r
    BY <2>1, <2>2
  <2>4. x - r < n /\ r - x < n
    BY <2>1
  <2>5. ~(q + 1 >= 1)
    <3>1. SUFFICES ASSUME q + 1 >= 1 PROVE FALSE
      OBVIOUS
    <3>2. q \in Nat /\ n * q \in Nat /\ n * (q + 1) = n * q + n
      BY <2>1, <3>1
    <3> QED BY <2>3, <2>4, <3>2
  <2>6. ~(q + 1 <= -1)
    <3>1. SUFFICES ASSUME q + 1 <= -1 PROVE FALSE
      OBVIOUS
    <3> DEFINE w == 0 - 2 - q
    <3>2. w \in Nat /\ q + 1 = 0 - 1 - w
      BY <2>1, <3>1
    <3> HIDE DEF w
    <3>3. n * w \in Nat /\ n * (0 - 1 - w) = 0 - n - n * w
      BY <3>2
    <3>4. 0 - n - n * w = x - r
      BY <2>3, <3>2, <3>3
    <3> QED BY <2>1, <2>4, <3>3, <3>4
  <2>7. q + 1 = 0
    BY <2>1, <2>5, <2>6
  <2>8. r = x
    BY <2>1, <2>3, <2>7
  <2> QED BY <2>8 DEF r, y
<1> QED BY <1>1, <1>2

(* Bytes that end before the Index replace those in their places.          *)
Patched(new, track, n, place, f, m) ==
  /\ Ints(new, n)
  /\ \A i \in place .. place + m - 1 : new[i] = f[i - place + 1]
  /\ \A i \in 1 .. n : i < place \/ i >= place + m => new[i] = track[i]

LEMMA Patch ==
  ASSUME NEW track, NEW n \in Nat \ {0}, Ints(track, n), NEW f, NEW m \in Nat, Ints(f, m),
         NEW place \in 1 .. n, place + m - 1 <= n
  PROVE  Patched(Overwritten(track, place, f), track, n, place, f, m)
<1> DEFINE k(i) == (i - place) % n
           byte(i) == IF k(i) < m THEN f[k(i) + 1] ELSE track[i]
           new == Overwritten(track, place, f)
<1>1. track \in Seq(Int) /\ Len(track) = n /\ f \in Seq(Int) /\ Len(f) = m
  BY DEF Ints
<1>2. new = [i \in 1 .. n |-> byte(i)]
  BY <1>1 DEF Overwritten
<1>3. ASSUME NEW i \in 1 .. n
      PROVE  /\ i >= place => k(i) = i - place
             /\ i < place => k(i) \in Int /\ ~(k(i) < m)
  <2>1. ASSUME i >= place PROVE k(i) = i - place
    <3>1. i - place \in 0 .. n - 1
      BY <2>1
    <3> DEFINE x == i - place
    <3> HIDE DEF x
    <3>2. x % n = x
      BY <3>1, BeforeZero DEF x
    <3> QED BY <3>2 DEF x
  <2>2. ASSUME i < place PROVE k(i) \in Int /\ ~(k(i) < m)
    <3> DEFINE x == i - place + n
    <3>1. x \in 0 .. n - 1 /\ x # 0 /\ x - n = i - place /\ x >= m
      BY <2>2
    <3> HIDE DEF x
    <3>2. (x - n) % n = x
      BY <3>1, BeforeZero
    <3>3. k(i) = x
      BY <3>1, <3>2
    <3> HIDE DEF k
    <3> QED BY <3>1, <3>3
  <2> QED BY <2>1, <2>2
<1> HIDE DEF k, new
<1>4. ASSUME NEW i \in place .. place + m - 1 PROVE new[i] = f[i - place + 1]
  <2>1. i \in 1 .. n /\ i >= place /\ i - place < m
    OBVIOUS
  <2>2. k(i) = i - place
    BY <1>3, <2>1
  <2>3. new[i] = byte(i)
    <3> HIDE DEF byte
    <3> QED BY <1>2, <2>1
  <2> QED BY <2>1, <2>2, <2>3
<1>5. ASSUME NEW i \in 1 .. n, i < place \/ i >= place + m PROVE new[i] = track[i]
  <2>1. ~(k(i) < m)
    <3>1. i >= place => k(i) = i - place
      BY <1>3
    <3>2. i < place => ~(k(i) < m)
      BY <1>3
    <3> QED BY <1>5, <3>1, <3>2
  <2>2. new[i] = byte(i)
    <3> HIDE DEF byte
    <3> QED BY <1>2
  <2> QED BY <2>1, <2>2
<1>6. \A i \in 1 .. n : new[i] \in Int
  <2>1. ASSUME NEW i \in 1 .. n PROVE new[i] \in Int
    <3>1. CASE i < place \/ i >= place + m
      BY <1>1, <1>5, <3>1, ElementOfSeq
    <3>2. CASE ~(i < place \/ i >= place + m)
      <4>1. i \in place .. place + m - 1 /\ i - place + 1 \in 1 .. Len(f)
        BY <1>1, <3>2
      <4>2. f[i - place + 1] \in Int
        BY <1>1, <4>1, ElementOfSeq
      <4> QED BY <1>4, <4>1, <4>2
    <3> QED BY <3>1, <3>2
  <2> QED BY <2>1
<1>7. Ints(new, n)
  <2> HIDE DEF byte
  <2>1. new = [i \in 1 .. n |-> new[i]]
    BY <1>2
  <2>2. new \in Seq(Int) /\ Len(new) = n
    BY <1>2, <1>6, <2>1
  <2> QED BY <2>2 DEF Ints
<1>8. Patched(new, track, n, place, f, m)
  BY <1>4, <1>5, <1>7 DEF Patched
<1> QED BY <1>8 DEF new


----------------------------------------------------------------------------
LEMMA BlankIsBytes == ByteImage(Blank)
<1>1. ImageSize \in Nat
  BY Sizes
<1>2. Ints(Blank, ImageSize) /\ \A k \in 1 .. ImageSize : Blank[k] = 229
  BY <1>1, RepeatIs DEF Blank
<1> QED BY <1>2 DEF ByteImage, Quiet

(* The disks that are mounted are in order, and so are those a program     *)
(* formats, however late it begins: what the next revolution cuts off is   *)
(* the end of the format.                                                  *)
LEMMA LaidOrderly ==
  ASSUME NEW track, Laid(track, 0)
  PROVE  Orderly(track)
<1>1. ASSUME NEW p \in 0 .. Sectors - 1
      PROVE  /\ HasId(track, 0, p)
             /\ \A i \in IdAt(0, p) + 1 .. DataAt(0, p) - 1 : track[i] \notin DataMarks
  <2>1. PICK l : HasData(track, 0, p, l)
    BY DEF Laid
  <2>2. l \in Nat /\ \A i \in IdAt(0, p) + 1 .. DataAt(0, p) + l - 1 : track[i] \notin DataMarks
    BY <2>1 DEF HasData, Small
  <2>3. IdAt(0, p) \in Nat /\ DataAt(0, p) \in Nat
    BY FieldFits DEF Fits
  <2> DEFINE i == IdAt(0, p)
             c == DataAt(0, p)
  <2> HIDE DEF i, c
  <2>4. \A k \in i + 1 .. c - 1 : k \in i + 1 .. c + l - 1
    BY <2>2, <2>3 DEF i, c
  <2>5. \A k \in i + 1 .. c - 1 : track[k] \notin DataMarks
    BY <2>2, <2>4 DEF i, c
  <2> QED BY <2>5 DEF Laid, i, c
<1> QED BY <1>1 DEF Laid, Orderly

LEMMA RotatedNone ==
  ASSUME NEW track, NEW n \in Nat \ {0}, Ints(track, n)
  PROVE  Rotated(track, 0) = track
<1>1. Len(track) = n /\ track \in Seq(Int)
  BY DEF Ints
<1>2. \A i \in 1 .. n : i + 0 = i
  OBVIOUS
<1>3. \A i \in 1 .. n : Around(track, i + 0) = track[i]
  BY <1>1, <1>2, AroundIs
<1>4. Rotated(track, 0) = [i \in 1 .. n |-> track[i]]
  BY <1>1, <1>3 DEF Rotated
<1>5. track = [i \in 1 .. n |-> track[i]]
  BY <1>1
<1> QED BY <1>4, <1>5

LEMMA ImportInOrder ==
  ASSUME Sectors <= 255, NEW image, ByteImage(image)
  PROVE  /\ InOrder(Import(Number, image))
         /\ \A s \in Sector : \A v :
              SectorData(image, s) = Repeat(DataBytes, v) => OnDisk(Import(Number, image), s, v)
<1> DEFINE track == Import(Number, image)
<1>1. Laid(track, 0) /\ \A s \in Sector : Recorded(track, 0, s) = SectorData(image, s)
  BY ImportLaid
<1> HIDE DEF track
<1>2. Ints(track, TrackLength) /\ Rotated(track, 0) = track /\ Orderly(track)
  <2>1. Ints(track, TrackLength) /\ TrackLength \in Nat \ {0}
    BY <1>1, LayoutInts DEF Laid
  <2> QED BY <1>1, <2>1, LaidOrderly, RotatedNone
<1>3. InOrder(track)
  BY <1>2 DEF InOrder
<1>4. ASSUME NEW s \in Sector, NEW v, SectorData(image, s) = Repeat(DataBytes, v)
      PROVE  OnDisk(track, s, v)
  <2> DEFINE p == MapIndex[s]
  <2>1. p \in 0 .. Sectors - 1
    BY Places
  <2>2. PICK l : HasData(track, 0, p, l)
    BY <1>1, <2>1 DEF Laid
  <2>3. HasId(track, 0, p)
    BY <1>1, <2>1 DEF Laid
  <2>4. 0 \in 0 .. Gap.track
    BY Sizes
  <2>5. Recorded(track, 0, s) = Field(track, DataAt(0, p) + l)
    BY <2>2, <2>4, RecordedIs
  <2>6. HasSector(track, s, v)
    <3>1. Field(track, DataAt(0, p) + l) = Repeat(DataBytes, v)
      BY <1>1, <1>4, <2>5
    <3> QED BY <2>2, <2>3, <3>1 DEF HasSector
  <2> QED BY <1>2, <2>6 DEF OnDisk
<1> QED BY <1>3, <1>4 DEF track

LEMMA CutOrderly ==
  ASSUME NEW whole, Laid(whole, 0), NEW track, Ints(track, TrackLength), NEW c \in 0 .. TrackLength,
         \A i \in 1 .. c : track[i] = whole[i],
         \A i \in c + 1 .. TrackLength : track[i] = 255
  PROVE  Orderly(track)
<1> DEFINE n == TrackLength
<1>1. n \in Nat /\ 255 # IdMark /\ 255 \notin DataMarks
  BY LayoutInts, NoMark
<1>2. Orderly(whole)
  BY LaidOrderly
<1>3. ASSUME NEW i \in 1 .. TrackLength
      PROVE  (i <= c /\ track[i] = whole[i]) \/ (i > c /\ track[i] = 255)
  <2>1. i \in 1 .. c \/ i \in c + 1 .. TrackLength
    BY <1>1
  <2> QED BY <2>1
<1>4. ASSUME NEW i \in 1 .. TrackLength, track[i] = IdMark PROVE \E p \in 0 .. Sectors - 1 : i = IdAt(0, p)
  BY <1>1, <1>2, <1>3, <1>4 DEF Orderly
<1>5. ASSUME NEW p \in 0 .. Sectors - 1
      PROVE  /\ track[IdAt(0, p)] = IdMark => HasId(track, 0, p) \/ Cut(track, p)
             /\ \A i \in IdAt(0, p) + 1 .. DataAt(0, p) - 1 : track[i] \notin DataMarks
  <2> DEFINE h == IdAt(0, p)
             d == DataAt(0, p)
  <2>1. h \in Nat \ {0} /\ d \in Nat /\ h + 8 <= d /\ d <= n
    <3> DEFINE e == FieldStart(p) + FieldLength
    <3>1. Fits(p, h, d, e)
      BY FieldFits
    <3> HIDE DEF h, d, e
    <3> QED BY <3>1 DEF Fits
  <2>2. HasId(whole, 0, p)
    BY DEF Laid
  <2>3. h \in 1 .. n /\ h + 1 \in 1 .. n /\ h + 2 \in 1 .. n /\ h + 3 \in 1 .. n /\ h + 4 \in 1 .. n
    <3> HIDE DEF h, d
    <3> QED BY <1>1, <2>1
  <2>4. ASSUME track[h] = IdMark PROVE HasId(track, 0, p) \/ Cut(track, p)
    <3>1. CASE h + 4 <= c
      <4>1. h \in 1 .. c /\ h + 1 \in 1 .. c /\ h + 2 \in 1 .. c /\ h + 3 \in 1 .. c /\ h + 4 \in 1 .. c
        <5> HIDE DEF h, d
        <5> QED BY <2>1, <3>1
      <4> QED BY <2>2, <4>1 DEF HasId
    <3>2. CASE ~(h + 4 <= c)
      <4>1. track[h + 4] = 255
        BY <1>3, <2>3, <3>2
      <4> QED BY <4>1 DEF Cut
    <3> QED BY <3>1, <3>2
  <2>5. ASSUME NEW i \in h + 1 .. d - 1 PROVE track[i] \notin DataMarks
    <3>1. i \in 1 .. TrackLength
      <4> HIDE DEF h, d
      <4> QED BY <1>1, <2>1
    <3>2. whole[i] \notin DataMarks
      BY <1>2, <2>2 DEF Orderly
    <3> QED BY <1>1, <1>3, <3>1, <3>2
  <2> QED BY <2>4, <2>5
<1> QED BY <1>4, <1>5 DEF Orderly

LEMMA FormatInOrder ==
  ASSUME Sectors <= 255, NEW track, Ints(track, TrackLength), NEW late \in Nat, NEW new,
         new = Overwritten(track, 1, SubSeq(Repeat(late, 255) \o Import(Number, Blank), 1, TrackLength))
  PROVE  InOrder(new)
<1> DEFINE n == TrackLength
           first == Repeat(late, 255)
           whole == Import(Number, Blank)
           bytes == first \o whole
           f == SubSeq(bytes, 1, n)
<1>1. n \in Nat \ {0}
  BY LayoutInts
<1>2. Ints(first, late) /\ \A k \in 1 .. late : first[k] = 255
  BY <1>1, RepeatIs
<1>3. Ints(whole, n)
  BY BlankInts, ImportInts
<1> HIDE DEF first, whole, n
<1>4. Joins(bytes, first, whole, late, n)
  BY <1>1, <1>2, <1>3, Joining
<1> HIDE DEF bytes
<1>5. /\ Ints(bytes, late + n) /\ (\A k \in 1 .. late : bytes[k] = first[k])
      /\ \A k \in late + 1 .. late + n : bytes[k] = whole[k - late]
  BY <1>4 DEF Joins
<1>6. Ints(f, n) /\ \A k \in 1 .. n : f[k] = bytes[k]
  <2>1. \A k \in 1 .. n : bytes[k] \in Int
    <3>1. \A k \in 1 .. n : k \in 1 .. Len(bytes)
      BY <1>1, <1>5 DEF Ints
    <3> QED BY <1>5, <3>1, ElementOfSeq DEF Ints
  <2>2. /\ f \in Seq(Int) /\ Len(f) = n - 1 + 1
        /\ \A k \in 1 .. n - 1 + 1 : f[k] = bytes[1 + k - 1]
    <3>1. 1 \in Int /\ n \in Int /\ 1 <= n
      BY <1>1
    <3> QED BY <2>1, <3>1, SubSeqProperties
  <2>3. n - 1 + 1 = n /\ \A k \in 1 .. n : 1 + k - 1 = k
    BY <1>1
  <2> HIDE DEF f
  <2> QED BY <2>2, <2>3 DEF Ints
<1> HIDE DEF f
<1>7. Patched(Overwritten(track, 1, f), track, n, 1, f, n)
  <2>1. 1 \in 1 .. n /\ 1 + n - 1 <= n /\ n \in Nat
    BY <1>1
  <2>2. Ints(track, n)
    BY DEF n
  <2> QED BY <1>1, <1>6, <2>1, <2>2, Patch
<1>8. new = Overwritten(track, 1, f)
  BY DEF f, bytes, first, whole, n
<1>9. Ints(new, n) /\ \A i \in 1 .. n : new[i] = bytes[i]
  <2>1. Ints(new, n) /\ \A i \in 1 .. 1 + n - 1 : new[i] = f[i - 1 + 1]
    BY <1>7, <1>8 DEF Patched
  <2>2. 1 + n - 1 = n /\ \A i \in 1 .. n : i - 1 + 1 = i
    BY <1>1
  <2> QED BY <1>6, <2>1, <2>2
<1>10. \A i \in 1 .. n : i <= late => new[i] = 255
  <2>1. ASSUME NEW i \in 1 .. n, i <= late PROVE new[i] = 255
    <3>1. i \in 1 .. late
      BY <2>1
    <3> QED BY <1>2, <1>5, <1>9, <3>1
  <2> QED BY <2>1
<1>11. \A i \in 1 .. n : i > late => new[i] = whole[i - late]
  <2>1. ASSUME NEW i \in 1 .. n, i > late PROVE new[i] = whole[i - late]
    <3>1. i \in late + 1 .. late + n
      BY <1>1, <2>1
    <3> QED BY <1>5, <1>9, <3>1
  <2> QED BY <2>1
<1>12. Laid(whole, 0)
  BY BlankIsBytes, ImportLaid DEF whole
<1>13. CASE late >= n
  <2>1. \A i \in 0 + 1 .. n : new[i] = 255
    BY <1>1, <1>10, <1>13
  <2>2. 0 \in 0 .. n /\ \A i \in 1 .. 0 : FALSE
    BY <1>1
  <2>3. Orderly(new)
    BY <1>9, <1>12, <2>1, <2>2, CutOrderly DEF n
  <2>4. Rotated(new, 0) = new
    BY <1>1, <1>9, RotatedNone
  <2> QED BY <1>9, <2>3, <2>4 DEF InOrder, n
<1>14. CASE late < n
  <2> DEFINE t == Rotated(new, late)
             c == n - late
  <2>1. late \in Int /\ c \in 0 .. n /\ Len(new) = n
    BY <1>1, <1>9, <1>14 DEF Ints
  <2>2. Ints(t, n) /\ \A i \in 1 .. n : t[i] = Around(new, i + late)
    <3>1. Ints(new, n)
      BY <1>9
    <3>2. late \in Int /\ n \in Nat \ {0}
      BY <1>1
    <3> HIDE DEF c
    <3>3. Rotates(t, new, late, n)
      BY <3>1, <3>2, RotatedIs
    <3> HIDE DEF t
    <3> QED BY <3>3 DEF Rotates
  <2>3. ASSUME NEW i \in 1 .. c PROVE t[i] = whole[i]
    <3>1. i \in 1 .. n /\ i + late \in 1 .. n /\ i + late > late /\ i + late - late = i
      BY <1>1, <1>14
    <3>2. Around(new, i + late) = new[i + late]
      BY <1>1, <2>1, <3>1, AroundIs
    <3>3. new[i + late] = whole[i]
      BY <1>11, <3>1
    <3> HIDE DEF t
    <3> QED BY <2>2, <3>1, <3>2, <3>3
  <2>4. ASSUME NEW i \in c + 1 .. n PROVE t[i] = 255
    <3> DEFINE j == i + late - n
    <3>1. i \in 1 .. n /\ i + late \in Int /\ j \in 1 .. n /\ j <= late /\ i + late = n * 1 + j
      BY <1>1, <1>14
    <3> HIDE DEF j
    <3>2. Alike(n, i + late, j)
      BY <3>1 DEF Alike
    <3>3. Around(new, i + late) = Around(new, j)
      <4>1. j \in Int
        BY <3>1
      <4> QED BY <1>1, <2>1, <3>1, <3>2, <4>1, AroundSpot
    <3>4. Around(new, j) = new[j]
      BY <1>1, <2>1, <3>1, AroundIs
    <3> HIDE DEF t
    <3> QED BY <1>10, <2>2, <3>1, <3>3, <3>4
  <2> HIDE DEF t, c
  <2>5. Orderly(t)
    BY <1>12, <2>1, <2>2, <2>3, <2>4, CutOrderly DEF n
  <2> QED BY <1>9, <2>1, <2>5 DEF InOrder, n, t
<1> QED BY <1>1, <1>13, <1>14

(* A sector written within the gaps around its data field stays in order,  *)
(* and so do the others.                                                   *)
LEMMA OtherFields ==
  ASSUME NEW b \in 0 .. Gap.track, NEW p \in 0 .. Sectors - 1, NEW q \in 0 .. Sectors - 1, p # q,
         NEW i \in Int, b + FieldStart(q) < i, i <= b + FieldStart(q) + FieldLength
  PROVE  i <= b + FieldStart(p) \/ i > b + FieldStart(p) + FieldLength
<1>1. p < q \/ q < p
  BY Sizes
<1>2. /\ p < q => b + FieldStart(p) + FieldLength <= b + FieldStart(q)
      /\ q < p => b + FieldStart(q) + FieldLength <= b + FieldStart(p)
  BY Apart
<1>3. b + FieldStart(p) \in Nat /\ b + FieldStart(q) \in Nat /\ FieldLength \in Nat
  BY FieldWithin, Lengths
<1> DEFINE x == b + FieldStart(p)
           y == b + FieldStart(q)
<1>4. /\ x \in Nat /\ y \in Nat /\ FieldLength \in Nat /\ (p < q \/ q < p)
      /\ (p < q => x + FieldLength <= y) /\ (q < p => y + FieldLength <= x)
      /\ y < i /\ i <= y + FieldLength
  BY <1>1, <1>2, <1>3
<1> HIDE DEF x, y
<1>5. i <= x \/ i > x + FieldLength
  BY <1>4
<1> QED BY <1>5 DEF x

(* The places of a field, and of what is written into it.                  *)
LEMMA WrittenWithin ==
  ASSUME NEW b \in 0 .. Gap.track, NEW p \in 0 .. Sectors - 1, NEW late, Small(late)
  PROVE  LET place == IdAt(b, p) + 7 + Gap.id + late
             m == Gap.zeros + 1 + DataBytes + 2
         IN /\ place \in 1 .. TrackLength /\ m \in Nat /\ place + m - 1 <= TrackLength
            /\ b + FieldStart(p) < place /\ IdAt(b, p) + 5 <= place /\ place <= DataAt(b, p)
            /\ place + Gap.zeros = DataAt(b, p) + late
            /\ place + m - 1 <= b + FieldStart(p) + FieldLength
<1> DEFINE a == b + FieldStart(p)
           i == IdAt(b, p)
           c == DataAt(b, p)
           place == i + 7 + Gap.id + late
           m == Gap.zeros + 1 + DataBytes + 2
<1>1. /\ a \in Nat /\ i \in Nat /\ c \in Nat /\ a < i /\ c = i + 7 + Gap.id + Gap.zeros
      /\ c + DataBytes + 2 + Gap.data = a + FieldLength /\ a + FieldLength <= TrackLength
      /\ TrackLength \in Nat
  BY FieldWithin
<1>2. /\ Gap.id \in Nat /\ Gap.zeros \in Nat /\ Gap.data \in Nat /\ DataBytes \in Nat
      /\ FieldLength \in Nat /\ late \in Nat /\ late <= Gap.zeros /\ late <= Gap.data
  BY Lengths DEF Small
<1> HIDE DEF a, i, c
<1>3. place \in Nat /\ m \in Nat /\ i + 5 <= place /\ place <= c /\ place + Gap.zeros = c + late
  BY <1>1, <1>2
<1>4. place + m - 1 = c + late + DataBytes + 2
  BY <1>1, <1>2
<1>5. place + m - 1 <= a + FieldLength
  BY <1>1, <1>2, <1>4
<1>6. a < place /\ 1 <= place /\ place <= TrackLength /\ place + m - 1 <= TrackLength
  <2> HIDE DEF place
  <2> QED BY <1>1, <1>2, <1>3, <1>5
<1> HIDE DEF place, m
<1>7. /\ place \in 1 .. TrackLength /\ m \in Nat /\ place + m - 1 <= TrackLength
      /\ a < place /\ i + 5 <= place /\ place <= c
      /\ place + Gap.zeros = c + late
      /\ place + m - 1 <= a + FieldLength
  BY <1>1, <1>3, <1>5, <1>6
<1> QED BY <1>7 DEF a, i, c, place, m

Rewrites(new, track, i, late, v) ==
  new = Overwritten(track, i + 7 + Gap.id + late, DataField(Repeat(DataBytes, v)))
LEMMA WriteOrderly ==
  ASSUME Sectors <= 255, NEW track, Orderly(track), NEW s \in Sector,
         HasId(track, 0, MapIndex[s]), NEW late, Small(late), NEW v \in 0 .. 255, NEW new,
         Rewrites(new, track, IdAt(0, MapIndex[s]), late, v)
  PROVE  /\ Orderly(new) /\ HasSector(new, s, v)
         /\ \A t \in Sector : \A w : t # s /\ HasSector(track, t, w) => HasSector(new, t, w)
<1> DEFINE n == TrackLength
           b == 0
           p == MapIndex[s]
           place == IdAt(b, p) + 7 + Gap.id + late
           z == Gap.zeros
           D == DataBytes
           m == z + 1 + D + 2
           data == Repeat(D, v)
           f == DataField(data)
           a == b + FieldStart(p)
           end == a + FieldLength
<1>1. /\ b \in 0 .. Gap.track /\ Ints(track, n) /\ n \in Nat /\ Sectors \in Nat
      /\ D \in Nat /\ z \in Nat /\ p \in 0 .. Sectors - 1 /\ late \in Nat
  BY Sizes, LayoutInts, Places DEF Orderly, Small
<1> HIDE DEF b
<1>2. /\ a \in Nat /\ end \in Nat
  <2> HIDE DEF p
  <2>1. b + FieldStart(p) \in Nat /\ FieldLength \in Nat
    BY <1>1, FieldWithin, Lengths
  <2> QED BY <2>1
<1>3. /\ place \in 1 .. n /\ m \in Nat /\ place + m - 1 <= n /\ a < place
      /\ IdAt(b, p) + 5 <= place /\ place <= DataAt(b, p) /\ place + z = DataAt(b, p) + late
      /\ place + m - 1 <= end
  <2> HIDE DEF p
  <2> QED BY <1>1, WrittenWithin
<1>4. Ints(data, D) /\ \A k \in 1 .. D : data[k] = v
  BY <1>1, RepeatIs
<1>5. /\ Ints(f, m)
      /\ \A k \in 1 .. z : f[k] = 0
      /\ f[z + 1] = Mark(251)
      /\ \A k \in z + 2 .. z + 1 + D : f[k] = v
      /\ \A k \in 1 .. m : f[k] # IdMark
  <2>1. DataLaid(f, data)
    BY <1>4, DataFieldLaid
  <2> HIDE DEF f, data
  <2>2. /\ Ints(f, z + 1 + D + 2) /\ (\A k \in 1 .. z : f[k] = 0) /\ f[z + 1] = Mark(251)
        /\ (\A k \in z + 2 .. z + 1 + D : f[k] = data[k - (z + 1)])
        /\ (\A k \in z + 2 + D .. z + 1 + D + 2 : f[k] = 85)
    BY <2>1 DEF DataLaid
  <2> HIDE DEF z, D
  <2>3. \A k \in z + 2 .. z + 1 + D : f[k] = v
    <3>1. ASSUME NEW k \in z + 2 .. z + 1 + D PROVE f[k] = v
      <4>1. k - (z + 1) \in 1 .. D
        BY <1>1
      <4> QED BY <1>4, <2>2, <4>1
    <3> QED BY <3>1
  <2>4. ASSUME NEW k \in 1 .. z + 1 + D + 2 PROVE f[k] # IdMark
    <3>1. k \in 1 .. z \/ k = z + 1 \/ k \in z + 2 .. z + 1 + D \/ k \in z + 2 + D .. z + 1 + D + 2
      BY <1>1
    <3>2. 0 # IdMark /\ 85 # IdMark /\ v # IdMark /\ Mark(251) # IdMark
      BY NoMark
    <3> QED BY <2>2, <2>3, <3>1, <3>2
  <2> QED BY <2>2, <2>3, <2>4
<1> HIDE DEF f
<1>6. Patched(new, track, n, place, f, m)
  <2>1. Patched(Overwritten(track, place, f), track, n, place, f, m)
    <3> HIDE DEF place, m, n
    <3>1. n \in Nat \ {0}
      BY <1>1, <1>3
    <3> QED BY <1>1, <1>3, <1>5, <3>1, Patch
  <2>2. new = Overwritten(track, place, f)
    BY DEF f, Rewrites, b
  <2> QED BY <2>1, <2>2
<1> HIDE DEF data
<1>7. /\ Ints(new, n)
      /\ \A i \in place .. place + m - 1 : new[i] = f[i - place + 1]
      /\ \A i \in 1 .. n : i < place \/ i >= place + m => new[i] = track[i]
  BY <1>6 DEF Patched
<1> HIDE DEF place, m, a, end, p, n, z, D
<1>8. ASSUME NEW i \in 1 .. n, i <= a \/ i > end PROVE new[i] = track[i]
  <2>1. i < place \/ i >= place + m
    BY <1>1, <1>2, <1>3, <1>8
  <2> QED BY <1>7, <2>1
(* The other fields are as they were. *)
<1>9. ASSUME NEW q \in 0 .. Sectors - 1, q # p,
             NEW i \in Int, b + FieldStart(q) < i, i <= b + FieldStart(q) + FieldLength
      PROVE  new[i] = track[i]
  <2>1. i <= a \/ i > end
    BY <1>1, <1>9, OtherFields DEF a, end
  <2>2. i \in 1 .. n
    <3>1. b + FieldStart(q) \in Nat /\ b + FieldStart(q) + FieldLength <= n /\ FieldLength \in Nat
      BY <1>1, FieldWithin, Lengths DEF n
    <3> DEFINE y == b + FieldStart(q)
    <3>2. y \in Nat /\ y + FieldLength <= n /\ y < i /\ i <= y + FieldLength
      BY <1>9, <3>1
    <3> HIDE DEF y
    <3> QED BY <1>1, <3>1, <3>2
  <2> QED BY <1>8, <2>1, <2>2
<1>10. ASSUME NEW q \in 0 .. Sectors - 1
       PROVE  \A j \in 0 .. 4 : new[IdAt(b, q) + j] = track[IdAt(b, q) + j]
  <2>1. SUFFICES ASSUME NEW j \in 0 .. 4 PROVE new[IdAt(b, q) + j] = track[IdAt(b, q) + j]
    OBVIOUS
  <2> DEFINE i == IdAt(b, q)
             y == b + FieldStart(q)
  <2>2. /\ i \in Nat /\ y \in Nat /\ y < i /\ i + 4 <= y + FieldLength /\ y + FieldLength <= n
        /\ FieldLength \in Nat
    <3> DEFINE c == DataAt(b, q)
    <3>1. /\ y \in Nat /\ i \in Nat /\ c \in Nat /\ y < i /\ c = i + 7 + Gap.id + Gap.zeros
          /\ c + DataBytes + 2 + Gap.data = y + FieldLength /\ y + FieldLength <= n
      BY <1>1, FieldWithin DEF n
    <3>2. /\ Gap.id \in Nat /\ Gap.zeros \in Nat /\ Gap.data \in Nat /\ DataBytes \in Nat
          /\ FieldLength \in Nat
      BY Lengths
    <3> HIDE DEF i, y, c
    <3>3. i + 4 <= c /\ c <= y + FieldLength
      BY <3>1, <3>2
    <3> QED BY <3>1, <3>2, <3>3
  <2>3. CASE q # p
    <3>1. i + j \in Int /\ y < i + j /\ i + j <= y + FieldLength
      <4> HIDE DEF i, y
      <4> QED BY <2>2
    <3> QED BY <1>9, <2>3, <3>1
  <2>4. CASE q = p
    <3>1. i + 5 <= place
      BY <1>3, <2>4
    <3> HIDE DEF i, y
    <3>2. i + j \in 1 .. n /\ i + j < place
      BY <1>1, <1>3, <2>2, <3>1
    <3>3. new[i + j] = track[i + j]
      BY <1>7, <3>2
    <3> QED BY <3>3 DEF i
  <2> QED BY <2>3, <2>4
<1>11. ASSUME NEW q \in 0 .. Sectors - 1
       PROVE  /\ HasId(new, b, q) <=> HasId(track, b, q)
              /\ new[IdAt(b, q)] = track[IdAt(b, q)]
              /\ Cut(new, q) <=> Cut(track, q)
  <2>1. IdAt(b, q) \in Nat
    BY <1>1, FieldWithin
  <2>2. IdAt(b, q) + 0 = IdAt(b, q)
    BY <2>1
  <2>3. /\ new[IdAt(b, q) + 0] = track[IdAt(b, q) + 0] /\ new[IdAt(b, q) + 1] = track[IdAt(b, q) + 1]
        /\ new[IdAt(b, q) + 2] = track[IdAt(b, q) + 2] /\ new[IdAt(b, q) + 3] = track[IdAt(b, q) + 3]
        /\ new[IdAt(b, q) + 4] = track[IdAt(b, q) + 4]
    BY <1>10
  <2>4. HasId(new, b, q) <=> HasId(track, b, q)
    BY <2>2, <2>3 DEF HasId
  <2>5. Cut(new, q) <=> Cut(track, q)
    BY <2>3 DEF Cut, b
  <2> QED BY <2>2, <2>3, <2>4, <2>5
<1>12. ASSUME NEW q \in 0 .. Sectors - 1, q # p, NEW l, HasData(track, b, q, l)
       PROVE  /\ HasData(new, b, q, l)
              /\ Field(new, DataAt(b, q) + l) = Field(track, DataAt(b, q) + l)
  <2> DEFINE i == IdAt(b, q)
             y == b + FieldStart(q)
             c == DataAt(b, q)
  <2>1. /\ y \in Nat /\ i \in Nat /\ c \in Nat /\ y < i /\ i < c
        /\ c + DataBytes + 2 + Gap.data = y + FieldLength
    <3>1. /\ y \in Nat /\ i \in Nat /\ c \in Nat /\ y < i /\ c = i + 7 + Gap.id + Gap.zeros
          /\ c + DataBytes + 2 + Gap.data = y + FieldLength
      BY <1>1, FieldWithin
    <3>2. Gap.id \in Nat /\ Gap.zeros \in Nat
      BY Lengths
    <3> HIDE DEF i, y, c
    <3> QED BY <3>1, <3>2
  <2>2. /\ l \in Nat /\ l <= Gap.data /\ Gap.data \in Nat /\ DataBytes \in Nat /\ FieldLength \in Nat
    BY <1>12, Lengths DEF HasData, Small
  <2>3. ASSUME NEW k \in i .. c + l + DataBytes PROVE new[k] = track[k]
    <3>1. k \in Int /\ y < k /\ k <= y + FieldLength
      <4> HIDE DEF i, y, c
      <4> QED BY <2>1, <2>2
    <3> QED BY <1>9, <1>12, <3>1
  <2>4. c + l \in i .. c + l + DataBytes
    <3> HIDE DEF i, c
    <3> QED BY <2>1, <2>2
  <2>5. new[c + l] \in DataMarks
    <3>1. track[c + l] \in DataMarks
      BY <1>12 DEF HasData
    <3> HIDE DEF i, c
    <3> QED BY <2>3, <2>4, <3>1
  <2>6. ASSUME NEW k \in IdAt(b, q) + 1 .. DataAt(b, q) + l - 1 PROVE new[k] \notin DataMarks
    <3>1. track[k] \notin DataMarks
      BY <1>12 DEF HasData
    <3>2. k \in i + 1 .. c + l - 1
      OBVIOUS
    <3>3. k \in i .. c + l + DataBytes
      <4> HIDE DEF i, c
      <4> QED BY <2>1, <2>2, <3>2
    <3> QED BY <2>3, <3>1, <3>3
  <2>7. \A k \in 1 .. DataBytes : new[c + l + k] = track[c + l + k]
    <3> HIDE DEF i, c
    <3>1. \A k \in 1 .. DataBytes : c + l + k \in i .. c + l + DataBytes
      BY <2>1, <2>2
    <3> QED BY <2>3, <3>1
  <2>8. Field(new, c + l) = Field(track, c + l)
    <3> HIDE DEF c
    <3> QED BY <2>7 DEF Field
  <2>9. Small(l)
    BY <1>12 DEF HasData
  <2> QED BY <2>5, <2>6, <2>8, <2>9 DEF HasData
(* The field that is written. *)
<1> DEFINE c == DataAt(b, p)
<1>13. c \in Nat /\ IdAt(b, p) \in Nat /\ IdAt(b, p) < c
  BY <1>1, <1>3, FieldWithin
<1>14. /\ \A i \in 1 .. n : i < place => new[i] = track[i]
       /\ \A i \in place .. c + late - 1 : new[i] = 0
       /\ new[c + late] = Mark(251)
       /\ \A k \in 1 .. D : new[c + late + k] = v
  <2>1. place + z = c + late /\ m = z + 1 + D + 2 /\ place \in Nat
    BY <1>1, <1>3 DEF m
  <2> HIDE DEF c
  <2>2. ASSUME NEW i \in place .. c + late - 1 PROVE new[i] = 0
    <3>1. i \in place .. place + m - 1 /\ i - place + 1 \in 1 .. z
      BY <1>1, <1>13, <2>1
    <3> QED BY <1>5, <1>7, <3>1
  <2>3. new[c + late] = Mark(251)
    <3>1. c + late \in place .. place + m - 1 /\ (c + late) - place + 1 = z + 1
      BY <1>1, <1>13, <2>1
    <3> QED BY <1>5, <1>7, <3>1
  <2>4. ASSUME NEW k \in 1 .. D PROVE new[c + late + k] = v
    <3>1. c + late + k \in place .. place + m - 1 /\ (c + late + k) - place + 1 \in z + 2 .. z + 1 + D
      BY <1>1, <1>13, <2>1
    <3> QED BY <1>5, <1>7, <3>1
  <2> QED BY <1>7, <2>2, <2>3, <2>4
<1>15. HasData(new, b, p, late)
  <2>1. \A k \in IdAt(b, p) + 1 .. DataAt(b, p) - 1 : track[k] \notin DataMarks
    BY <1>1 DEF Orderly, b, p
  <2> DEFINE i == IdAt(b, p)
  <2>4. ASSUME NEW k \in i + 1 .. c + late - 1 PROVE new[k] \notin DataMarks
    <3>0. place <= c /\ i \in Nat /\ c \in Nat
      BY <1>3, <1>13
    <3>1. CASE k < place
      <4>1. k \in i + 1 .. c - 1 /\ k \in 1 .. n
        <5> HIDE DEF i, c
        <5> QED BY <1>1, <1>3, <3>0, <3>1
      <4>2. track[k] \notin DataMarks
        BY <2>1, <4>1
      <4> QED BY <1>14, <3>1, <4>1, <4>2
    <3>2. CASE ~(k < place)
      <4>1. k \in place .. c + late - 1
        <5> HIDE DEF i, c
        <5> QED BY <1>1, <1>3, <3>0, <3>2
      <4>2. new[k] = 0
        BY <1>14, <4>1
      <4> QED BY <4>2, NoMark
    <3> QED BY <3>1, <3>2
  <2>5. new[c + late] \in DataMarks
    BY <1>14, NoMark
  <2> QED BY <2>4, <2>5 DEF HasData
<1>16. ASSUME NEW i \in 1 .. TrackLength, new[i] = IdMark PROVE \E q \in 0 .. Sectors - 1 : i = IdAt(b, q)
  <2>1. i \in 1 .. n
    BY DEF n
  <2>2. i < place \/ i >= place + m
    <3>1. SUFFICES ASSUME ~(i < place \/ i >= place + m) PROVE FALSE
      OBVIOUS
    <3>2. i \in place .. place + m - 1 /\ i - place + 1 \in 1 .. m
      BY <1>1, <1>3, <2>1, <3>1
    <3>3. new[i] = f[i - place + 1]
      BY <1>7, <3>2
    <3> QED BY <1>5, <1>16, <3>2, <3>3
  <2>3. track[i] = IdMark
    BY <1>7, <1>16, <2>1, <2>2
  <2> QED BY <2>3 DEF Orderly, b
<1>17. ASSUME NEW q \in 0 .. Sectors - 1, HasId(new, b, q),
              NEW k \in IdAt(b, q) + 1 .. DataAt(b, q) - 1
       PROVE  new[k] \notin DataMarks
  <2> DEFINE i == IdAt(b, q)
             y == b + FieldStart(q)
             d == DataAt(b, q)
  <2>1. y \in Nat /\ i \in Nat /\ d \in Nat /\ y < i /\ d <= y + FieldLength
    <3>1. /\ y \in Nat /\ i \in Nat /\ d \in Nat /\ y < i
          /\ d + DataBytes + 2 + Gap.data = y + FieldLength
      BY <1>1, FieldWithin
    <3>2. Gap.data \in Nat /\ DataBytes \in Nat
      BY Lengths
    <3> HIDE DEF i, y, d
    <3> QED BY <3>1, <3>2
  <2>2. CASE q = p
    <3>1. \A j \in i + 1 .. d + late - 1 : new[j] \notin DataMarks
      BY <1>15, <2>2 DEF HasData
    <3>2. k \in i + 1 .. d + late - 1
      <4>1. k \in i + 1 .. d - 1
        OBVIOUS
      <4> HIDE DEF i, d
      <4> QED BY <1>1, <2>1, <4>1
    <3> QED BY <3>1, <3>2
  <2>3. CASE q # p
    <3>1. k \in Int /\ y < k /\ k <= y + FieldLength
      <4>1. k \in i + 1 .. d - 1 /\ FieldLength \in Nat
        BY Lengths
      <4> HIDE DEF i, y, d
      <4> QED BY <2>1, <4>1
    <3>2. new[k] = track[k]
      BY <1>9, <2>3, <3>1
    <3>3. HasId(track, 0, q) /\ k \in IdAt(0, q) + 1 .. DataAt(0, q) - 1
      BY <1>11, <1>17 DEF b
    <3>4. track[k] \notin DataMarks
      BY <3>3 DEF Orderly
    <3> QED BY <3>2, <3>4
  <2> QED BY <2>2, <2>3
<1>18. Orderly(new)
  <2>1. ASSUME NEW q \in 0 .. Sectors - 1, new[IdAt(0, q)] = IdMark
        PROVE  HasId(new, 0, q) \/ Cut(new, q)
    <3>1. track[IdAt(0, q)] = IdMark
      BY <1>11, <2>1 DEF b
    <3>2. HasId(track, 0, q) \/ Cut(track, q)
      BY <3>1 DEF Orderly
    <3> QED BY <1>11, <3>2 DEF b
  <2>2. ASSUME NEW q \in 0 .. Sectors - 1, HasId(new, 0, q),
               NEW k \in IdAt(0, q) + 1 .. DataAt(0, q) - 1
        PROVE  new[k] \notin DataMarks
    BY <1>17, <2>2 DEF b
  <2>3. \A i \in 1 .. TrackLength : new[i] = IdMark => \E q \in 0 .. Sectors - 1 : i = IdAt(0, q)
    BY <1>16 DEF b
  <2> QED BY <1>7, <2>1, <2>2, <2>3 DEF Orderly, n
<1>19. HasSector(new, s, v)
  <2>1. HasId(new, 0, MapIndex[s]) /\ HasData(new, 0, MapIndex[s], late)
    BY <1>1, <1>11, <1>15 DEF b, p
  <2>2. v % 256 = v
    OBVIOUS
  <2>3. Field(new, DataAt(0, MapIndex[s]) + late) = Repeat(DataBytes, v)
    <3>1. \A k \in 1 .. D : new[c + late + k] = v
      BY <1>14
    <3> HIDE DEF c
    <3>2. Field(new, c + late) = [k \in 1 .. DataBytes |-> v]
      BY <2>2, <3>1 DEF Field, D
    <3> QED BY <3>2 DEF Repeat, c, b, p
  <2> QED BY <2>1, <2>3 DEF HasSector
<1>20. ASSUME NEW t \in Sector, NEW w, t # s, HasSector(track, t, w) PROVE HasSector(new, t, w)
  <2> DEFINE q == MapIndex[t]
  <2>1. q \in 0 .. Sectors - 1
    BY Places
  <2>2. q # p
    BY <1>20, SkewAssumption DEF p
  <2>3. PICK l : HasData(track, 0, q, l) /\ Field(track, DataAt(0, q) + l) = Repeat(DataBytes, w)
    BY <1>20 DEF HasSector
  <2>4. HasId(track, 0, q)
    BY <1>20 DEF HasSector
  <2> HIDE DEF q
  <2>5. HasId(new, 0, q)
    BY <1>11, <2>1, <2>4 DEF b
  <2>6. HasData(new, 0, q, l) /\ Field(new, DataAt(0, q) + l) = Field(track, DataAt(0, q) + l)
    BY <1>12, <2>1, <2>2, <2>3 DEF b
  <2> QED BY <2>3, <2>5, <2>6 DEF HasSector, q
<1> QED BY <1>18, <1>19, <1>20

(* What is written at a place is written at its place on the rotated track. *)
LEMMA OverwrittenType ==
  ASSUME NEW track \in Seq(Int), NEW place \in Int, NEW bytes \in Seq(Int)
  PROVE  /\ Overwritten(track, place, bytes) \in Seq(Int)
         /\ Len(Overwritten(track, place, bytes)) = Len(track)
<1> DEFINE n == Len(track)
           now(i) == LET k == (i - place) % n IN IF k < Len(bytes) THEN bytes[k + 1] ELSE track[i]
<1>1. n \in Nat /\ Len(bytes) \in Nat /\ track \in [1 .. n -> Int] /\ bytes \in [1 .. Len(bytes) -> Int]
  BY LenProperties
<1>2. ASSUME NEW i \in 1 .. n PROVE now(i) \in Int
  <2> DEFINE k == (i - place) % n
  <2>1. k \in Nat
    BY <1>1
  <2> HIDE DEF k
  <2>2. CASE k < Len(bytes)
    <3>1. k + 1 \in 1 .. Len(bytes)
      BY <1>1, <2>1, <2>2
    <3> QED BY <1>1, <2>2, <3>1 DEF k
  <2>3. CASE ~(k < Len(bytes))
    BY <1>1, <2>3 DEF k
  <2> QED BY <2>2, <2>3
<1>3. Overwritten(track, place, bytes) = [i \in 1 .. n |-> now(i)]
  BY DEF Overwritten
<1> HIDE DEF now, n
<1>4. [i \in 1 .. n |-> now(i)] \in Seq(Int) /\ Len([i \in 1 .. n |-> now(i)]) = n
  BY <1>1, <1>2
<1> QED BY <1>3, <1>4 DEF n

LEMMA OverwrittenAt ==
  ASSUME NEW track, NEW place, NEW bytes, NEW i \in 1 .. Len(track)
  PROVE  LET k == (i - place) % Len(track)
         IN Overwritten(track, place, bytes)[i] = IF k < Len(bytes) THEN bytes[k + 1] ELSE track[i]
BY DEF Overwritten

LEMMA RotatedOverwritten ==
  ASSUME NEW disk, NEW n \in Nat \ {0}, Ints(disk, n), NEW f \in Seq(Int), NEW b \in Int,
         NEW x \in Int, NEW place \in Int, Alike(n, x + b, place)
  PROVE  /\ Ints(Overwritten(disk, place, f), n)
         /\ Rotated(Overwritten(disk, place, f), b) = Overwritten(Rotated(disk, b), x, f)
<1> DEFINE new == Overwritten(disk, place, f)
           t == Rotated(disk, b)
<1>1. Ints(new, n) /\ Len(disk) = n /\ Len(new) = n
  BY OverwrittenType DEF Ints
<1>2. Ints(t, n) /\ Len(t) = n
  BY RotatedIs DEF Ints, Rotates
<1>3. ASSUME NEW j \in 1 .. n
      PROVE  Around(new, j + b)
               = IF (j - x) % n < Len(f) THEN f[((j - x) % n) + 1] ELSE t[j]
  <2> DEFINE y == Spot(n, j + b)
             k == (y - place) % n
             r == (j - x) % n
  <2>1. j + b \in Int /\ j - x \in Int
    OBVIOUS
  <2>2. y \in 1 .. n /\ Alike(n, j + b, y) /\ y \in Int
    <3> HIDE DEF y
    <3>1. y \in 1 .. n /\ Alike(n, j + b, y)
      BY <2>1, SpotIs DEF y
    <3> QED BY <3>1
  <2>3. Around(new, j + b) = new[y] /\ Around(disk, j + b) = disk[y]
    BY <1>1, <2>1, AroundSpot
  <2>4. t[j] = Around(disk, j + b)
    BY RotatedIs DEF Rotates
  <2>5. new[y] = IF k < Len(f) THEN f[k + 1] ELSE disk[y]
    <3> HIDE DEF y
    <3>1. y \in 1 .. Len(disk)
      BY <1>1, <2>2
    <3> QED BY <1>1, <3>1, OverwrittenAt
  <2>6. k = r
    <3> HIDE DEF y
    <3>1. \E a \in Int : y - place = n * a + (j - x)
      <4>1. PICK c \in Int : j + b = n * c + y
        BY <2>2 DEF Alike
      <4>2. PICK e \in Int : x + b = n * e + place
        BY DEF Alike
      <4>3. y - place = (n * e - n * c) + (j - x)
        <5> DEFINE u == n * c
                   w == n * e
        <5>1. u \in Int /\ w \in Int /\ j + b = u + y /\ x + b = w + place
          BY <4>1, <4>2
        <5> HIDE DEF u, w
        <5>2. y - place = (w - u) + (j - x)
          BY <2>2, <5>1
        <5> QED BY <5>2 DEF u, w
      <4>4. e - c \in Int /\ n * (e - c) = n * e - n * c
        OBVIOUS
      <4> QED BY <4>3, <4>4
    <3>2. Alike(n, y - place, j - x) /\ y - place \in Int
      BY <2>2, <3>1 DEF Alike
    <3>3. k \in 0 .. n - 1 /\ Alike(n, y - place, k)
      BY <3>2, Remainder
    <3>4. r \in 0 .. n - 1 /\ Alike(n, j - x, r)
      BY <2>1, Remainder
    <3> HIDE DEF k, r
    <3>5. Alike(n, y - place, r)
      <4>1. r \in Int
        BY <3>4
      <4> QED BY <2>1, <3>2, <3>4, <4>1, AlikeIs
    <3> QED BY <3>2, <3>3, <3>4, <3>5, OneRest
  <2> HIDE DEF y, k, t, new
  <2>7. Around(new, j + b) = IF r < Len(f) THEN f[r + 1] ELSE t[j]
    BY <2>3, <2>4, <2>5, <2>6
  <2> QED BY <2>7
<1> HIDE DEF new, t
<1>4. Rotated(new, b) = [j \in 1 .. n |-> Around(new, j + b)]
  BY <1>1 DEF Rotated
<1>5. Overwritten(t, x, f)
        = [j \in 1 .. n |-> IF (j - x) % n < Len(f) THEN f[((j - x) % n) + 1] ELSE t[j]]
  BY <1>2 DEF Overwritten
<1>6. Rotated(new, b) = Overwritten(t, x, f)
  BY <1>3, <1>4, <1>5
<1> QED BY <1>1, <1>6 DEF new, t

(* The sector that is written has the new data, the others what they had.  *)
LEMMA SectorWritten ==
  ASSUME Sectors <= 255, NEW disk, InOrder(disk), NEW s \in Sector, NEW late, Small(late),
         NEW v \in 0 .. 255, NEW i \in IdFields(disk, s), NEW new,
         Rewrites(new, disk, i, late, v)
  PROVE  /\ InOrder(new) /\ OnDisk(new, s, v)
         /\ \A t \in Sector : \A w : t # s /\ OnDisk(disk, t, w) => OnDisk(new, t, w)
<1> DEFINE n == TrackLength
           h == IdAt(0, MapIndex[s])
           f == DataField(Repeat(DataBytes, v))
           place == i + 7 + Gap.id + late
           x == h + 7 + Gap.id + late
<1>1. /\ n \in Nat \ {0} /\ Ints(disk, n) /\ Gap.id \in Nat /\ late \in Nat
      /\ i \in 1 .. n /\ i \in Int
  <2>1. Ints(disk, n) /\ n \in Nat \ {0} /\ Gap.id \in Nat /\ late \in Nat
    BY LayoutInts, Lengths DEF InOrder, Small
  <2>2. i \in 1 .. Len(disk) /\ Len(disk) = n
    BY <2>1, IdFieldIs DEF Ints
  <2> QED BY <2>1, <2>2
<1>2. f \in Seq(Int)
  <2>1. Ints(Repeat(DataBytes, v), DataBytes)
    BY Sizes, RepeatInts
  <2> QED BY <2>1, DataFieldInts DEF Ints
<1>3. ASSUME NEW b \in Int, Orderly(Rotated(disk, b))
      PROVE  /\ Ints(new, n) /\ Orderly(Rotated(new, b)) /\ HasSector(Rotated(new, b), s, v)
             /\ \A t \in Sector : \A w :
                  t # s /\ HasSector(Rotated(disk, b), t, w) => HasSector(Rotated(new, b), t, w)
  <2>1. Starts(disk, b, s, i)
    BY <1>1, <1>3, IdFieldStarts
  <2>2. HasId(Rotated(disk, b), 0, MapIndex[s]) /\ h \in 1 .. n /\ i = Spot(n, h + b)
    BY <2>1 DEF Starts, Alongside
  <2> HIDE DEF h
  <2>3. x \in Int /\ place \in Int /\ h + b \in Int /\ 7 + Gap.id + late \in Int
    BY <1>1, <2>2
  <2>4. Alike(n, x + b, place)
    <3>1. Alike(n, h + b, i)
      BY <1>1, <2>2, <2>3, SpotIs
    <3> DEFINE k == 7 + Gap.id + late
    <3>2. (h + b) + k = x + b /\ i + k = place
      BY <1>1, <2>2
    <3>3. Alike(n, (h + b) + k, i + k)
      <4> HIDE DEF k
      <4> QED BY <1>1, <2>3, <3>1, AlikeIs DEF k
    <3> HIDE DEF k, x, place
    <3> QED BY <3>2, <3>3
  <2>5. new = Overwritten(disk, place, f)
    BY DEF Rewrites
  <2> HIDE DEF n, f, x, place
  <2>6. Ints(new, n) /\ Rotated(new, b) = Overwritten(Rotated(disk, b), x, f)
    BY <1>1, <1>2, <2>3, <2>4, <2>5, RotatedOverwritten
  <2>7. Rewrites(Rotated(new, b), Rotated(disk, b), h, late, v)
    BY <2>6 DEF Rewrites, x, f
  <2>8. /\ Orderly(Rotated(new, b)) /\ HasSector(Rotated(new, b), s, v)
        /\ \A t \in Sector : \A w :
             t # s /\ HasSector(Rotated(disk, b), t, w) => HasSector(Rotated(new, b), t, w)
    BY <1>3, <2>2, <2>7, WriteOrderly DEF h
  <2> QED BY <2>6, <2>8
<1>4. InOrder(new) /\ OnDisk(new, s, v)
  <2>1. PICK b \in Int : Orderly(Rotated(disk, b))
    BY DEF InOrder
  <2> QED BY <1>3, <2>1 DEF InOrder, OnDisk
<1>5. ASSUME NEW t \in Sector, NEW w, t # s, OnDisk(disk, t, w) PROVE OnDisk(new, t, w)
  <2>1. PICK b \in Int : Orderly(Rotated(disk, b)) /\ HasSector(Rotated(disk, b), t, w)
    BY <1>5 DEF OnDisk
  <2>2. Ints(new, n) /\ Orderly(Rotated(new, b)) /\ HasSector(Rotated(new, b), t, w)
    BY <1>3, <1>5, <2>1
  <2> QED BY <2>2 DEF OnDisk
<1> QED BY <1>4, <1>5

LEMMA LeastLength ==
  ASSUME NEW m \in Nat, NEW n \in Nat, n <= m
  PROVE  Min({m, n}) = n
<1>1. {m, n} \in SUBSET Int /\ n \in {m, n} /\ \A k \in {m, n} : n <= k
  OBVIOUS
<1> QED BY <1>1, LeastOf


----------------------------------------------------------------------------
(* The files, the disks in the drives and what is mounted. *)

DiskOK(files, disk, mount) ==
  /\ disk # NoDisk => Len(disk) = TrackLength
  /\ disk # NoDisk <=> mount.path # NoPath
  /\ mount.path # NoPath => Exists(files[mount.path])

(* No file the menus would refuse, and none twice if a drive may write.    *)
WellMounted(mounted) ==
  \A d \in Drive :
    /\ mounted[d].path \notin Protected
    /\ mounted[d].path # NoPath /\ mounted[Other(d)].path = mounted[d].path
         => mounted[d].access = "ro"

(* The command line is not checked as the menus are (main.cpp:480-502):    *)
(* it may ask for the ROM, or for one file in both drives.                 *)
ProperCommandLines == \A commandLine \in CommandLines : WellMounted(commandLine)

HostOK(h) ==
  /\ h \in Host
  /\ \A p \in Protected : Exists(h.files[p])
  /\ \A d \in Drive : DiskOK(h.files, h.media[d], h.mounted[d])
  /\ ProperCommandLines => WellMounted(h.mounted)

LEMMA Drives == \A d \in Drive : /\ Other(d) \in Drive /\ Other(d) # d
                                 /\ \A o \in Drive : o = d \/ o = Other(d)
BY DEF Drive, Other

(* What an update of the host leaves of it. *)
LEMMA ClosedFields ==
  ASSUME NEW h \in Host, NEW d \in Drive
  PROVE  /\ Closed(h, d) \in Host /\ Closed(h, d).files = h.files
         /\ Closed(h, d).media[d] = NoDisk /\ Closed(h, d).mounted[d].path = NoPath
         /\ \A o \in Drive : o # d => /\ Closed(h, d).media[o] = h.media[o]
                                      /\ Closed(h, d).mounted[o] = h.mounted[o]
<1>1. NoDisk \in Seq(Int)
  BY EmptySeq DEF NoDisk
<1>2. [h.mounted[d] EXCEPT !.path = NoPath] \in Mount
  BY DEF Host, Mount
<1>3. /\ Closed(h, d).files = h.files
      /\ Closed(h, d).media = [h.media EXCEPT ![d] = NoDisk]
      /\ Closed(h, d).mounted = [h.mounted EXCEPT ![d] = [h.mounted[d] EXCEPT !.path = NoPath]]
  BY DEF Closed, Host
<1>4. /\ h.files \in [Path -> Seq(Int)] /\ h.media \in [Drive -> Seq(Int)]
      /\ h.mounted \in [Drive -> Mount]
  BY DEF Host
<1>5. [h.mounted[d] EXCEPT !.path = NoPath].path = NoPath
  BY <1>4 DEF Mount
<1>6. /\ Closed(h, d).files \in [Path -> Seq(Int)] /\ Closed(h, d).media \in [Drive -> Seq(Int)]
      /\ Closed(h, d).mounted \in [Drive -> Mount]
  BY <1>1, <1>2, <1>3, <1>4
<1>7. Closed(h, d) \in Host
  BY <1>6 DEF Closed, Host
<1> QED BY <1>3, <1>4, <1>5, <1>7

LEMMA OpenedFields ==
  ASSUME NEW h \in Host, NEW d \in Drive, NEW p \in Path, NEW access \in Accesses,
         NEW image, Ints(image, ImageSize)
  PROVE  /\ Opened(h, d, p, access, image) \in Host
         /\ Opened(h, d, p, access, image).files = h.files
         /\ Opened(h, d, p, access, image).mounted[d] = [path |-> p, access |-> access]
         /\ Opened(h, d, p, access, image).media[d] # NoDisk
         /\ Len(Opened(h, d, p, access, image).media[d]) = TrackLength
         /\ \A o \in Drive : o # d =>
              /\ Opened(h, d, p, access, image).media[o] = h.media[o]
              /\ Opened(h, d, p, access, image).mounted[o] = h.mounted[o]
<1> DEFINE disk == Import(Number, image)
           mount == [path |-> p, access |-> access]
<1>1. disk \in Seq(Int) /\ Len(disk) = TrackLength /\ disk # NoDisk
  BY ImportInts, EmptySeq DEF Ints, NoDisk
<1>2. mount \in Mount
  BY DEF Mount
<1>3. /\ h.files \in [Path -> Seq(Int)] /\ h.media \in [Drive -> Seq(Int)]
      /\ h.mounted \in [Drive -> Mount]
  BY DEF Host
<1> DEFINE g == Opened(h, d, p, access, image)
<1>4. /\ g.files = h.files /\ g.media = [h.media EXCEPT ![d] = disk]
      /\ g.mounted = [h.mounted EXCEPT ![d] = mount]
  BY DEF Opened, Host
<1>5. g.files \in [Path -> Seq(Int)] /\ g.media \in [Drive -> Seq(Int)] /\ g.mounted \in [Drive -> Mount]
  <2> HIDE DEF disk, mount, g
  <2> QED BY <1>1, <1>2, <1>3, <1>4
<1>6. g \in Host
  BY <1>5 DEF Opened, Host
<1> HIDE DEF disk, g
<1>7. g.mounted[d] = mount /\ g.media[d] = disk
      /\ \A o \in Drive : o # d => g.media[o] = h.media[o] /\ g.mounted[o] = h.mounted[o]
  BY <1>3, <1>4
<1> QED BY <1>1, <1>4, <1>6, <1>7 DEF g

WithFile(h, p, file) == [h EXCEPT !.files[p] = file]

LEMMA FileFields ==
  ASSUME NEW h \in Host, NEW p \in Path, NEW file \in Seq(Int)
  PROVE  /\ WithFile(h, p, file) \in Host
         /\ WithFile(h, p, file).media = h.media /\ WithFile(h, p, file).mounted = h.mounted
         /\ WithFile(h, p, file).files[p] = file
         /\ \A q \in Path : q # p => WithFile(h, p, file).files[q] = h.files[q]
BY DEF Host, WithFile

(* Sound mounts stay sound. *)
LEMMA ClosedKeeps ==
  ASSUME NEW h, HostOK(h), NEW d \in Drive
  PROVE  HostOK(Closed(h, d))
<1>1. /\ h \in Host /\ \A o \in Drive : DiskOK(h.files, h.media[o], h.mounted[o])
      /\ ProperCommandLines => WellMounted(h.mounted)
  BY DEF HostOK
<1> DEFINE g == Closed(h, d)
<1>2. /\ g \in Host /\ g.files = h.files /\ g.media[d] = NoDisk /\ g.mounted[d].path = NoPath
      /\ \A o \in Drive : o # d => g.media[o] = h.media[o] /\ g.mounted[o] = h.mounted[o]
  BY <1>1, ClosedFields
<1> HIDE DEF g
<1>3. NoPath \notin Protected
  BY FilesAssumption
<1>4. ProperCommandLines => WellMounted(g.mounted)
  BY <1>1, <1>2, <1>3, Drives DEF WellMounted
<1>5. \A o \in Drive : DiskOK(g.files, g.media[o], g.mounted[o])
  BY <1>1, <1>2 DEF DiskOK
<1>6. \A p \in Protected : Exists(g.files[p])
  BY <1>2 DEF HostOK
<1> QED BY <1>2, <1>4, <1>5, <1>6 DEF HostOK, g

Mountable(h, d, p, access) ==
  /\ p \in Path /\ p \notin Protected
  /\ h.mounted[Other(d)].path = p => access = "ro" /\ h.mounted[Other(d)].access = "ro"

LEMMA OpenedKeeps ==
  ASSUME NEW h, HostOK(h), NEW d \in Drive, NEW p, NEW access \in Accesses,
         Mountable(h, d, p, access), Exists(h.files[p]), NEW image, Ints(image, ImageSize)
  PROVE  HostOK(Opened(h, d, p, access, image))
<1>1. /\ h \in Host /\ \A o \in Drive : DiskOK(h.files, h.media[o], h.mounted[o])
      /\ ProperCommandLines => WellMounted(h.mounted)
  BY DEF HostOK
<1>2. /\ p \in Path /\ p \notin Protected /\ p # NoPath
      /\ h.mounted[Other(d)].path = p => access = "ro" /\ h.mounted[Other(d)].access = "ro"
  BY FilesAssumption DEF Mountable
<1> DEFINE g == Opened(h, d, p, access, image)
<1>3. /\ g \in Host /\ g.files = h.files
      /\ g.mounted[d] = [path |-> p, access |-> access]
      /\ g.media[d] # NoDisk /\ Len(g.media[d]) = TrackLength
      /\ \A o \in Drive : o # d => g.media[o] = h.media[o] /\ g.mounted[o] = h.mounted[o]
  BY <1>1, <1>2, OpenedFields
<1> HIDE DEF g
<1>4. ProperCommandLines => WellMounted(g.mounted)
  BY <1>1, <1>2, <1>3, Drives DEF WellMounted
<1>5. DiskOK(g.files, g.media[d], g.mounted[d])
  BY <1>2, <1>3 DEF DiskOK
<1>6. \A o \in Drive : DiskOK(g.files, g.media[o], g.mounted[o])
  BY <1>1, <1>3, <1>5
<1>7. \A q \in Protected : Exists(g.files[q])
  BY <1>3 DEF HostOK
<1> QED BY <1>3, <1>4, <1>6, <1>7 DEF HostOK, g

LEMMA FileKeeps ==
  ASSUME NEW h, HostOK(h), NEW p \in Path, NEW file \in Seq(Int), Exists(file)
  PROVE  HostOK(WithFile(h, p, file))
<1>1. /\ h \in Host /\ \A o \in Drive : DiskOK(h.files, h.media[o], h.mounted[o])
      /\ ProperCommandLines => WellMounted(h.mounted)
  BY DEF HostOK
<1> DEFINE g == WithFile(h, p, file)
<1>2. /\ g \in Host /\ g.media = h.media /\ g.mounted = h.mounted
      /\ g.files[p] = file /\ \A q \in Path : q # p => g.files[q] = h.files[q]
  BY <1>1, FileFields
<1> HIDE DEF g
<1>3. \A q \in Path : Exists(h.files[q]) => Exists(g.files[q])
  BY <1>2
<1>4. ASSUME NEW o \in Drive PROVE DiskOK(g.files, g.media[o], g.mounted[o])
  <2>1. h.mounted[o].path \in Path \cup {NoPath}
    BY <1>1 DEF Host, Mount
  <2> QED BY <1>1, <1>2, <1>3, <2>1 DEF DiskOK
<1>5. \A q \in Protected : Exists(g.files[q])
  BY <1>3, FilesAssumption DEF HostOK
<1> QED BY <1>1, <1>2, <1>4, <1>5 DEF HostOK, g

----------------------------------------------------------------------------
(* What is saved. *)

LEMMA BlankExists == Blank \in Seq(Int) /\ Exists(Blank)
<1>1. Ints(Blank, ImageSize) /\ ImageSize \in Nat \ {0}
  BY BlankInts, Sizes
<1>2. Blank[1] = 229
  BY <1>1 DEF Blank, Repeat
<1>3. Absent[1] = -1
  BY DEF Absent
<1>4. Blank # Absent
  BY <1>2, <1>3
<1> QED BY <1>1, <1>4 DEF Ints, Exists

LEMMA ImageExists ==
  ASSUME NEW track \in Seq(Int), Export(Number, track) # NoImage
  PROVE  /\ Ints(Export(Number, track), ImageSize) /\ Exists(Export(Number, track))
         /\ Export(Number, track)[1] # -1
<1> DEFINE image == Export(Number, track)
<1>1. Ints(image, ImageSize) /\ \A k \in 1 .. ImageSize : image[k] \in 0 .. 255
  BY ExportType
<1> HIDE DEF image
<1>2. image[1] \in 0 .. 255
  <2>1. ImageSize \in Nat \ {0}
    BY Sizes
  <2>2. 1 \in 1 .. ImageSize
    BY <2>1
  <2> QED BY <1>1, <2>2
<1>3. Absent[1] = -1
  BY DEF Absent
<1>4. image[1] # -1
  <2>1. \A x \in 0 .. 255 : x # -1
    OBVIOUS
  <2> QED BY <1>2, <2>1, Zenon
<1>5. image # Absent
  BY <1>3, <1>4
<1> QED BY <1>1, <1>4, <1>5 DEF Exists, image

(* A file torn by a write that failed is still there. *)
LEMMA TornExists ==
  ASSUME NEW old \in Seq(Int), Exists(old), NEW new, Ints(new, ImageSize),
         new[1] # -1
  PROVE  Torn(old, new) \in Seq(Int) /\ Exists(Torn(old, new))
<1> DEFINE half == ImageSize \div 2
           first == SubSeq(new, 1, half)
           second == SubSeq(old, half + 1, Len(old))
<1>1. ImageSize \in Nat \ {0} /\ half \in Nat /\ half <= ImageSize
  BY Sizes
<1>2. new \in Seq(Int) /\ Len(new) = ImageSize
  BY DEF Ints
<1>3. Torn(old, new) = first \o second
  BY DEF Torn
<1>4. CASE half = 0
  <2>1. first = <<>>
    BY <1>2, <1>4, SubSeqEmpty
  <2>2. second = old
    <3>1. second = SubSeq(old, 1, Len(old))
      BY <1>4
    <3> QED BY <3>1, SubSeqFull
  <2>3. Torn(old, new) = old
    <3> HIDE DEF first, second
    <3> QED BY <1>3, <2>1, <2>2, ConcatEmptySeq
  <2> QED BY <2>3
<1>5. CASE half # 0
  <2>1. half \in 0 .. Len(new) /\ 1 <= half /\ 1 \in 1 .. Len(new) + 1
    BY <1>1, <1>2, <1>5
  <2>2. first \in Seq(Int) /\ Len(first) = half - 1 + 1 /\ first[1] = new[1]
    <3> HIDE DEF half
    <3>1. /\ first \in Seq(Int) /\ Len(first) = half - 1 + 1
          /\ \A i \in 1 .. half - 1 + 1 : first[i] = new[1 + i - 1]
      BY <1>1, <1>2, <2>1, SubSeqProperties
    <3>2. 1 \in 1 .. half - 1 + 1 /\ 1 + 1 - 1 = 1
      BY <1>1, <2>1
    <3> QED BY <3>1, <3>2
  <2>3. second \in Seq(Int)
    <3>1. Len(old) \in Nat
      BY LenProperties
    <3>2. CASE half + 1 <= Len(old)
      <4>1. half + 1 \in 1 .. Len(old) + 1 /\ Len(old) \in 0 .. Len(old)
        BY <1>1, <3>1, <3>2
      <4> QED BY <3>2, <4>1, SubSeqProperties
    <3>3. CASE ~(half + 1 <= Len(old))
      <4>1. half + 1 > Len(old) /\ half + 1 \in Int
        BY <1>1, <3>1, <3>3
      <4>2. second = <<>>
        BY <3>1, <4>1, SubSeqEmpty
      <4> QED BY <4>2, EmptySeq
    <3> QED BY <3>2, <3>3
  <2> HIDE DEF first, second, half
  <2>4. /\ first \o second \in Seq(Int)
        /\ \A i \in 1 .. Len(first) : (first \o second)[i] = first[i]
    <3>1. /\ first \o second \in Seq(Int) /\ Len(first \o second) = Len(first) + Len(second)
          /\ \A i \in 1 .. Len(first) + Len(second) :
               (first \o second)[i] = IF i <= Len(first) THEN first[i] ELSE second[i - Len(first)]
      BY <2>2, <2>3, ConcatProperties
    <3>2. Len(first) \in Nat /\ Len(second) \in Nat
      BY <2>2, <2>3, LenProperties
    <3> QED BY <3>1, <3>2
  <2>5. (first \o second)[1] # -1
    <3>1. 1 \in 1 .. Len(first)
      BY <1>1, <2>1, <2>2
    <3> QED BY <2>2, <2>4, <3>1
  <2>6. Absent[1] = -1
    BY DEF Absent
  <2> QED BY <1>3, <2>4, <2>5, <2>6 DEF Exists
<1> QED BY <1>4, <1>5

----------------------------------------------------------------------------
(* What the operations of the menus come to: sound mounts, and no file     *)
(* that has changed but by a disk of the drive being saved.                *)

SavedFrom(h, d, p, file) ==
  LET image == Export(Number, h.media[d])
  IN /\ h.mounted[d] = [path |-> p, access |-> "rw"]
     /\ image # NoImage
     /\ file \in {image, Torn(h.files[p], image)}

OthersStay(h, d, g) ==
  \A o \in Drive : o # d => g.media[o] = h.media[o] /\ g.mounted[o] = h.mounted[o]
FilesStay(h, g) == \A p \in Path : Exists(h.files[p]) => Exists(g.files[p])
OnlySaved(h, d, g) ==
  \A p \in Path : g.files[p] # h.files[p] => SavedFrom(h, d, p, g.files[p])
Outcome(h, d, g) == HostOK(g) /\ OthersStay(h, d, g) /\ FilesStay(h, g) /\ OnlySaved(h, d, g)

LEMMA SameOutcome ==
  ASSUME NEW h, HostOK(h), NEW d \in Drive
  PROVE  Outcome(h, d, h)
BY DEF Outcome, OthersStay, FilesStay, OnlySaved

LEMMA ClosedOutcome ==
  ASSUME NEW h, NEW d \in Drive, NEW g, Outcome(h, d, g)
  PROVE  Outcome(h, d, Closed(g, d)) /\ Closed(g, d).mounted[d].path = NoPath
<1>1. HostOK(g) /\ g \in Host
  BY DEF Outcome, HostOK
<1>2. HostOK(Closed(g, d))
  BY <1>1, ClosedKeeps
<1>3. /\ Closed(g, d).files = g.files /\ Closed(g, d).mounted[d].path = NoPath
      /\ \A o \in Drive : o # d => /\ Closed(g, d).media[o] = g.media[o]
                                   /\ Closed(g, d).mounted[o] = g.mounted[o]
  BY <1>1, ClosedFields
<1> QED BY <1>2, <1>3 DEF Outcome, OthersStay, FilesStay, OnlySaved

LEMMA SaveOutcome ==
  ASSUME NEW h, HostOK(h), NEW d \in Drive, NEW e \in Save(h, d),
         h.mounted[d].path # NoPath, h.mounted[d].access = "rw"
  PROVE  Outcome(h, d, e.host) /\ (e.ok => e.host.mounted[d].path = NoPath)
<1> DEFINE p == h.mounted[d].path
           image == Export(Number, h.media[d])
           saved == [h EXCEPT !.files[p] = image]
           torn == [h EXCEPT !.files[p] = Torn(@, image)]
<1>1. h \in Host /\ p \in Path /\ h.mounted[d] = [path |-> p, access |-> "rw"]
  BY DEF HostOK, Host, Mount
<1>2. h.media[d] \in Seq(Int) /\ h.files[p] \in Seq(Int) /\ \A q \in Path : h.files[q] \in Seq(Int)
  BY <1>1 DEF Host
<1>3. \/ e = Fails(h)
      \/ /\ image # NoImage /\ Exists(h.files[p])
         /\ e \in {Succeeds(Closed(saved, d)), Fails(torn)}
  BY DEF Save, Restored
<1>4. CASE e = Fails(h)
  <2>1. e.host = h /\ e.ok = FALSE
    BY <1>4 DEF Fails
  <2> QED BY <2>1, SameOutcome
<1>5. CASE image # NoImage /\ Exists(h.files[p]) /\ e \in {Succeeds(Closed(saved, d)), Fails(torn)}
  <2>1. Ints(image, ImageSize) /\ Exists(image) /\ image[1] # -1
    BY <1>2, <1>5, ImageExists
  <2>2. Torn(h.files[p], image) \in Seq(Int) /\ Exists(Torn(h.files[p], image))
    BY <1>2, <1>5, <2>1, TornExists
  <2>3. image \in Seq(Int)
    BY <2>1 DEF Ints
  <2>4. ASSUME NEW file \in {image, Torn(h.files[p], image)}
        PROVE  Outcome(h, d, WithFile(h, p, file))
    <3> DEFINE g == WithFile(h, p, file)
    <3>1. file \in Seq(Int) /\ Exists(file)
      BY <2>1, <2>2, <2>3
    <3> HIDE DEF p, image, saved, torn
    <3>2. HostOK(g)
      BY <1>1, <3>1, FileKeeps
    <3>3. /\ g.media = h.media /\ g.mounted = h.mounted
          /\ g.files[p] = file /\ \A q \in Path : q # p => g.files[q] = h.files[q]
      BY <1>1, <3>1, FileFields
    <3> HIDE DEF g
    <3>4. SavedFrom(h, d, p, file)
      BY <1>1, <1>5 DEF SavedFrom, image
    <3> QED BY <3>1, <3>2, <3>3, <3>4 DEF Outcome, OthersStay, FilesStay, OnlySaved, g
  <2>5. Outcome(h, d, saved)
    BY <2>4 DEF WithFile
  <2>6. Outcome(h, d, torn)
    BY <2>4 DEF WithFile
  <2> HIDE DEF saved, torn
  <2>7. CASE e = Succeeds(Closed(saved, d))
    <3>1. e.host = Closed(saved, d)
      BY <2>7 DEF Succeeds
    <3> QED BY <2>5, <3>1, ClosedOutcome
  <2>8. CASE e = Fails(torn)
    <3>1. e.host = torn /\ e.ok = FALSE
      BY <2>8 DEF Fails
    <3> QED BY <2>6, <3>1
  <2> QED BY <1>5, <2>7, <2>8
<1> QED BY <1>3, <1>4, <1>5

LEMMA EjectOutcome ==
  ASSUME NEW h, HostOK(h), NEW d \in Drive, NEW e \in Eject(h, d)
  PROVE  Outcome(h, d, e.host) /\ (e.ok => e.host.mounted[d].path = NoPath)
<1>1. CASE h.media[d] # NoDisk /\ h.mounted[d].path # NoPath /\ h.mounted[d].access = "rw"
  <2>1. e \in Save(h, d)
    BY <1>1 DEF Eject
  <2> QED BY <1>1, <2>1, SaveOutcome
<1>2. CASE ~(h.media[d] # NoDisk /\ h.mounted[d].path # NoPath /\ h.mounted[d].access = "rw")
  <2>1. e = Succeeds(Closed(h, d))
    BY <1>2 DEF Eject
  <2>2. e.host = Closed(h, d)
    BY <2>1 DEF Succeeds
  <2> QED BY <2>2, SameOutcome, ClosedOutcome
<1> QED BY <1>1, <1>2

LEMMA OpenedOutcome ==
  ASSUME NEW h, NEW d \in Drive, NEW g, Outcome(h, d, g), NEW p, NEW access \in Accesses,
         Mountable(h, d, p, access), Exists(g.files[p]), NEW image, Ints(image, ImageSize)
  PROVE  Outcome(h, d, Opened(g, d, p, access, image))
<1>1. HostOK(g) /\ g \in Host /\ p \in Path
  BY DEF Outcome, HostOK, Mountable
<1>2. Mountable(g, d, p, access)
  BY Drives DEF Mountable, Outcome, OthersStay
<1>3. HostOK(Opened(g, d, p, access, image))
  BY <1>1, <1>2, OpenedKeeps
<1> DEFINE k == Opened(g, d, p, access, image)
<1>4. /\ k \in Host /\ k.files = g.files
      /\ k.mounted[d] = [path |-> p, access |-> access]
      /\ k.media[d] # NoDisk /\ Len(k.media[d]) = TrackLength
      /\ \A o \in Drive : o # d => k.media[o] = g.media[o] /\ k.mounted[o] = g.mounted[o]
  BY <1>1, OpenedFields
<1> HIDE DEF k
<1> QED BY <1>3, <1>4 DEF Outcome, OthersStay, FilesStay, OnlySaved, k

LEMMA ReadableImage ==
  ASSUME NEW h \in Host, NEW p \in Path, Readable(h, p)
  PROVE  Ints(h.files[p], ImageSize) /\ Exists(h.files[p])
BY DEF Readable, Ints, Host

LEMMA ReplaceOutcome ==
  ASSUME NEW h, HostOK(h), NEW d \in Drive, NEW p, NEW access \in Accesses,
         Mountable(h, d, p, access), NEW e \in Replace(h, d, p, access)
  PROVE  Outcome(h, d, e.host)
<1>1. h \in Host /\ p \in Path
  BY DEF HostOK, Mountable
<1>2. CASE e = Fails(h)
  <2>1. e.host = h
    BY <1>2 DEF Fails
  <2> QED BY <2>1, SameOutcome
<1>3. CASE e # Fails(h) /\ SameExistingFile(h, h.mounted[d].path, p)
  <2>1. e \in Reopen(h, d, p, access)
    BY <1>3 DEF Replace
  <2>2. PICK a \in Eject(h, d) :
          \/ ~a.ok /\ e = a
          \/ e = Fails(a.host)
          \/ Readable(a.host, p) /\ e = Succeeds(Opened(a.host, d, p, access, a.host.files[p]))
    BY <2>1 DEF Reopen
  <2>3. Outcome(h, d, a.host)
    BY EjectOutcome
  <2>4. CASE Readable(a.host, p) /\ e = Succeeds(Opened(a.host, d, p, access, a.host.files[p]))
    <3>1. a.host \in Host
      BY <2>3 DEF Outcome, HostOK
    <3>2. Ints(a.host.files[p], ImageSize) /\ Exists(a.host.files[p])
      BY <1>1, <2>4, <3>1, ReadableImage
    <3>3. e.host = Opened(a.host, d, p, access, a.host.files[p])
      BY <2>4 DEF Succeeds
    <3> QED BY <2>3, <3>2, <3>3, OpenedOutcome
  <2>5. CASE e = Fails(a.host)
    BY <2>3, <2>5 DEF Fails
  <2> QED BY <2>2, <2>3, <2>4, <2>5
<1>4. CASE e # Fails(h) /\ ~SameExistingFile(h, h.mounted[d].path, p)
  <2>1. e \in ReplaceOther(h, d, p, access)
    BY <1>4 DEF Replace
  <2>2. /\ Readable(h, p)
        /\ \E a \in IF h.mounted[d].path = NoPath THEN {Succeeds(h)} ELSE Eject(h, d) :
             e = IF a.ok THEN Succeeds(Opened(a.host, d, p, access, h.files[p])) ELSE a
    BY <1>4, <2>1 DEF ReplaceOther
  <2>3. PICK a \in IF h.mounted[d].path = NoPath THEN {Succeeds(h)} ELSE Eject(h, d) :
          e = IF a.ok THEN Succeeds(Opened(a.host, d, p, access, h.files[p])) ELSE a
    BY <2>2
  <2>4. Outcome(h, d, a.host)
    <3>1. CASE h.mounted[d].path = NoPath
      <4>1. a.host = h
        BY <3>1 DEF Succeeds
      <4> QED BY <4>1, SameOutcome
    <3>2. CASE h.mounted[d].path # NoPath
      BY <3>2, EjectOutcome
    <3> QED BY <3>1, <3>2
  <2>5. Ints(h.files[p], ImageSize) /\ Exists(h.files[p])
    BY <1>1, <2>2, ReadableImage
  <2>6. CASE a.ok
    <3>1. Exists(a.host.files[p])
      BY <1>1, <2>4, <2>5 DEF Outcome, FilesStay
    <3>2. e.host = Opened(a.host, d, p, access, h.files[p])
      BY <2>3, <2>6 DEF Succeeds
    <3> QED BY <2>4, <2>5, <3>1, <3>2, OpenedOutcome
  <2>7. CASE ~a.ok
    BY <2>3, <2>4, <2>7
  <2> QED BY <2>6, <2>7
<1> QED BY <1>2, <1>3, <1>4

(* A file is created blank only where there was none. *)
CreatedOrSaved(h, g) ==
  \A p \in Path : g.files[p] # h.files[p] =>
    \/ ~Exists(h.files[p]) /\ g.files[p] = Blank
    \/ \E d \in Drive : SavedFrom(h, d, p, g.files[p])

Answer == [request : Request, path : Path \cup {NoPath}]

(* What the menus do not refuse can be mounted. *)
LEMMA NotRefused ==
  ASSUME NEW h, HostOK(h), NEW r \in Answer, ~Refused(h, r)
  PROVE  Mountable(h, r.request.drive, r.path, r.request.access) /\ r.path # NoPath
<1> DEFINE d == r.request.drive
           p == r.path
           access == r.request.access
<1>1. h \in Host /\ d \in Drive /\ access \in Accesses /\ p \in Path \cup {NoPath}
  BY DEF HostOK, Answer, Request
<1>2. p # NoPath /\ ~SharedWritable(h, r) /\ \A q \in Protected : ~SameExistingFile(h, p, q)
  BY DEF Refused
<1>3. p \notin Protected
  BY <1>2 DEF HostOK, SameExistingFile
<1>4. ASSUME h.mounted[Other(d)].path = p
      PROVE  access = "ro" /\ h.mounted[Other(d)].access = "ro"
  <2>1. Exists(h.files[p])
    BY <1>1, <1>2, <1>4, Drives DEF HostOK, DiskOK
  <2>2. ~("rw" \in {access, h.mounted[Other(d)].access})
    BY <1>2, <1>4, <2>1 DEF SharedWritable, SameExistingFile
  <2>3. h.mounted[Other(d)].access \in Accesses
    BY <1>1, Drives DEF Host, Mount
  <2> QED BY <1>1, <2>2, <2>3 DEF Accesses
<1> QED BY <1>1, <1>2, <1>3, <1>4 DEF Mountable

LEMMA SelectedOutcome ==
  ASSUME NEW h, HostOK(h), NEW r \in Answer, NEW e \in Selected(h, r)
  PROVE  HostOK(e.host) /\ CreatedOrSaved(h, e.host)
<1> DEFINE d == r.request.drive
           p == r.path
           access == r.request.access
           mount(g) == Replace(g, d, p, access)
<1>1. h \in Host /\ d \in Drive /\ access \in Accesses /\ p \in Path \cup {NoPath}
  BY DEF HostOK, Answer, Request
<1>2. \A g : Outcome(h, d, g) => HostOK(g) /\ CreatedOrSaved(h, g)
  BY <1>1 DEF Outcome, OnlySaved, CreatedOrSaved
<1>3. CASE Refused(h, r)
  <2>1. e = Fails(h)
    BY <1>3 DEF Selected
  <2>2. e.host = h
    BY <2>1 DEF Fails
  <2> QED BY <2>2 DEF CreatedOrSaved
<1>4. CASE ~Refused(h, r)
  <2>1. Mountable(h, d, p, access) /\ p # NoPath
    BY <1>4, NotRefused
  <2>2. CASE ~r.request.blank
    <3>1. e \in Replace(h, d, p, access)
      BY <1>4, <2>2 DEF Selected
    <3>2. Outcome(h, d, e.host)
      <4> HIDE DEF d, p, access
      <4> QED BY <1>1, <2>1, <3>1, ReplaceOutcome
    <3> QED BY <1>2, <3>2
  <2>3. CASE r.request.blank
    <3>1. PICK c \in CreateBlank(h, p) : IF c.ok THEN e \in mount(c.host) ELSE e = c
      BY <1>4, <2>3 DEF Selected
    <3>2. CASE c = Fails(h)
      <4>1. c.host = h /\ c.ok = FALSE
        BY <3>2 DEF Fails
      <4>2. e.host = h
        BY <3>1, <4>1
      <4> QED BY <4>2 DEF CreatedOrSaved
    <3>3. CASE c # Fails(h)
      <4> DEFINE g == WithFile(h, p, Blank)
      <4>1. ~Exists(h.files[p]) /\ c = Succeeds(g)
        BY <3>3 DEF CreateBlank, WithFile
      <4>2. c.host = g /\ c.ok = TRUE
        BY <4>1 DEF Succeeds
      <4>3. e \in Replace(g, d, p, access) /\ p \in Path
        BY <1>1, <2>1, <3>1, <4>2
      <4> HIDE DEF d, p, access
      <4>4. HostOK(g)
        BY <4>3, BlankExists, FileKeeps
      <4>5. /\ g.media = h.media /\ g.mounted = h.mounted
            /\ g.files[p] = Blank /\ \A q \in Path : q # p => g.files[q] = h.files[q]
        BY <1>1, <4>3, BlankExists, FileFields
      <4> HIDE DEF g
      <4>6. Mountable(g, d, p, access)
        BY <2>1, <4>5 DEF Mountable
      <4>7. Outcome(g, d, e.host)
        BY <1>1, <4>3, <4>4, <4>6, ReplaceOutcome
      <4>8. h.mounted[d].path # p
        BY <1>1, <2>1, <4>1 DEF HostOK, DiskOK
      <4>9. e.host.files[p] = Blank
        <5>1. SUFFICES ASSUME e.host.files[p] # g.files[p] PROVE FALSE
          BY <4>5
        <5>2. SavedFrom(g, d, p, e.host.files[p])
          BY <4>3, <4>7, <5>1 DEF Outcome, OnlySaved
        <5>3. g.mounted[d].path = p
          BY <5>2 DEF SavedFrom
        <5> QED BY <4>5, <4>8, <5>3
      <4>10. ASSUME NEW q \in Path, q # p, e.host.files[q] # h.files[q]
             PROVE  SavedFrom(h, d, q, e.host.files[q])
        <5>1. SavedFrom(g, d, q, e.host.files[q])
          BY <4>5, <4>7, <4>10 DEF Outcome, OnlySaved
        <5>2. g.files[q] = h.files[q]
          BY <4>5, <4>10
        <5> QED BY <4>5, <5>1, <5>2 DEF SavedFrom
      <4>11. CreatedOrSaved(h, e.host)
        BY <1>1, <4>1, <4>9, <4>10 DEF CreatedOrSaved
      <4> QED BY <4>7, <4>11 DEF Outcome
    <3> QED BY <3>2, <3>3
  <2> QED BY <2>2, <2>3
<1> QED BY <1>3, <1>4

LEMMA ExitOutcome ==
  ASSUME NEW h, HostOK(h), NEW d \in Drive, NEW e \in EjectAtExit(h, d)
  PROVE  Outcome(h, d, e.host)
<1>1. CASE h.mounted[d].path = NoPath
  <2>1. e.host = h
    BY <1>1 DEF EjectAtExit, Succeeds
  <2> QED BY <2>1, SameOutcome
<1>2. CASE h.mounted[d].path # NoPath
  BY <1>2, EjectOutcome DEF EjectAtExit
<1> QED BY <1>1, <1>2

(* The disk of the second drive is saved over its own file, not over what  *)
(* the first has just saved.                                               *)
LEMMA QuitOutcome ==
  ASSUME NEW h, HostOK(h), NEW a \in EjectAtExit(h, "A"), NEW b \in EjectAtExit(a.host, "B")
  PROVE  LET g == Closed(Closed(b.host, "A"), "B")
         IN HostOK(g) /\ (ProperCommandLines => CreatedOrSaved(h, g))
<1>1. "A" \in Drive /\ "B" \in Drive /\ "A" # "B" /\ Other("A") = "B"
  BY DEF Drive, Other
<1>2. Outcome(h, "A", a.host) /\ HostOK(a.host)
  BY <1>1, ExitOutcome DEF Outcome
<1>3. Outcome(a.host, "B", b.host) /\ HostOK(b.host)
  BY <1>1, <1>2, ExitOutcome DEF Outcome
<1> DEFINE k == Closed(b.host, "A")
           g == Closed(k, "B")
<1>4. HostOK(k) /\ k.files = b.host.files
  BY <1>1, <1>3, ClosedKeeps, ClosedFields DEF HostOK
<1>5. HostOK(g) /\ g.files = b.host.files
  <2> HIDE DEF k
  <2> QED BY <1>1, <1>4, ClosedKeeps, ClosedFields DEF HostOK
<1> HIDE DEF k, g
<1>6. ASSUME ProperCommandLines, NEW p \in Path, g.files[p] # h.files[p]
      PROVE  \E d \in Drive : SavedFrom(h, d, p, g.files[p])
  <2>1. CASE b.host.files[p] # a.host.files[p]
    <3>1. SavedFrom(a.host, "B", p, b.host.files[p])
      BY <1>3, <2>1 DEF Outcome, OnlySaved
    <3>2. a.host.media["B"] = h.media["B"] /\ a.host.mounted["B"] = h.mounted["B"]
      BY <1>1, <1>2 DEF Outcome, OthersStay
    <3>3. h.mounted["B"] = [path |-> p, access |-> "rw"]
      BY <3>1, <3>2 DEF SavedFrom
    <3>4. a.host.files[p] = h.files[p]
      <4>1. SUFFICES ASSUME a.host.files[p] # h.files[p] PROVE FALSE
        OBVIOUS
      <4>2. h.mounted["A"] = [path |-> p, access |-> "rw"]
        BY <1>2, <4>1 DEF Outcome, OnlySaved, SavedFrom
      <4>3. p # NoPath
        BY FilesAssumption
      <4> QED BY <1>1, <1>6, <3>3, <4>2, <4>3 DEF HostOK, WellMounted
    <3>5. SavedFrom(h, "B", p, b.host.files[p])
      BY <3>1, <3>2, <3>4 DEF SavedFrom
    <3> QED BY <1>1, <1>5, <3>5
  <2>2. CASE b.host.files[p] = a.host.files[p]
    <3>1. a.host.files[p] # h.files[p]
      BY <1>5, <1>6, <2>2
    <3>2. SavedFrom(h, "A", p, a.host.files[p])
      BY <1>2, <3>1 DEF Outcome, OnlySaved
    <3> QED BY <1>1, <1>5, <2>2, <3>2
  <2> QED BY <2>1, <2>2
<1> QED BY <1>5, <1>6 DEF CreatedOrSaved, g, k

----------------------------------------------------------------------------
(* The program in the machine writes and formats the disks. *)

LEMMA DiskRewritten ==
  ASSUME NEW h, HostOK(h), NEW d \in Drive, h.media[d] # NoDisk,
         NEW place \in Int, NEW bytes \in Seq(Int)
  PROVE  HostOK([h EXCEPT !.media[d] = Overwritten(@, place, bytes)])
<1>1. /\ h \in Host /\ \A o \in Drive : DiskOK(h.files, h.media[o], h.mounted[o])
      /\ ProperCommandLines => WellMounted(h.mounted)
  BY DEF HostOK
<1> DEFINE disk == Overwritten(h.media[d], place, bytes)
           g == [h EXCEPT !.media[d] = disk]
<1>2. h.media[d] \in Seq(Int) /\ h.media \in [Drive -> Seq(Int)]
  BY <1>1 DEF Host
<1>3. disk \in Seq(Int) /\ Len(disk) = Len(h.media[d])
  BY <1>2, OverwrittenType
<1>4. disk # NoDisk
  BY <1>2, <1>3, EmptySeq, LenProperties DEF NoDisk
<1> HIDE DEF disk
<1>5. g \in Host /\ g.files = h.files /\ g.mounted = h.mounted /\ g.media = [h.media EXCEPT ![d] = disk]
  BY <1>1, <1>3 DEF Host
<1> HIDE DEF g
<1>6. g.media[d] = disk /\ \A o \in Drive : o # d => g.media[o] = h.media[o]
  BY <1>2, <1>5
<1>7. \A o \in Drive : DiskOK(g.files, g.media[o], g.mounted[o])
  BY <1>1, <1>3, <1>4, <1>5, <1>6 DEF DiskOK
<1>8. \A q \in Protected : Exists(g.files[q])
  BY <1>5 DEF HostOK
<1> QED BY <1>1, <1>5, <1>7, <1>8 DEF HostOK, g, disk

LEMMA FieldWritten ==
  ASSUME NEW n \in Int
  PROVE  DataField(Repeat(DataBytes, n)) \in Seq(Int)
<1>1. Ints(Repeat(DataBytes, n), DataBytes)
  BY Sizes, RepeatInts
<1> QED BY <1>1, DataFieldInts DEF Ints

LEMMA FormatWritten ==
  ASSUME NEW late \in Nat, NEW length \in Nat, length <= TrackLength
  PROVE  SubSeq(Repeat(late, 255) \o Import(Number, Blank), 1, length) \in Seq(Int)
<1> DEFINE bytes == Repeat(late, 255) \o Import(Number, Blank)
<1>1. Ints(Repeat(late, 255), late)
  BY RepeatInts
<1>2. Ints(Import(Number, Blank), TrackLength) /\ TrackLength \in Nat
  BY BlankInts, ImportInts
<1>3. Ints(bytes, late + TrackLength)
  BY <1>1, <1>2, JoinInts
<1> HIDE DEF bytes
<1>4. ASSUME NEW i \in 1 .. length PROVE bytes[i] \in Int
  <2>1. i \in 1 .. Len(bytes) /\ bytes \in Seq(Int)
    BY <1>2, <1>3 DEF Ints
  <2> QED BY <2>1, ElementOfSeq
<1>5. SubSeq(bytes, 1, length) \in Seq(Int)
  <2>1. 1 \in Int /\ length \in Int
    OBVIOUS
  <2> QED BY <1>4, <2>1, SubSeqProperties
<1> QED BY <1>5 DEF bytes

LEMMA LesserOfTwo ==
  ASSUME NEW a \in Nat, NEW b \in Nat
  PROVE  Min({a, b}) \in Nat /\ Min({a, b}) <= b
<1>1. \E x \in {a, b} : \A y \in {a, b} : x <= y
  OBVIOUS
<1>2. Min({a, b}) \in {a, b} /\ \A y \in {a, b} : Min({a, b}) <= y
  BY <1>1, Zenon DEF Min
<1> QED BY <1>2

----------------------------------------------------------------------------
(* The inductive invariant. *)

DialogInv ==
  /\ ui \in Ui /\ dialog \in Seq(Request) /\ results \in Seq(Answer)
  /\ Len(dialog) + Len(results) <= 1
  /\ ~ui.open => Len(dialog) + Len(results) = 0

PauseInv == ui.paused /\ (~ui.open \/ ~ui.wasRunning) => asked

HistoryInv ==
  last \in 0 .. MaxWrites /\ newest \in [Path -> [Sector -> Value \cup {Unknown}]]

FilesInv ==
  /\ stage \in {"exited", "running"} /\ asked \in BOOLEAN
  /\ HostOK(host) /\ DialogInv /\ PauseInv /\ HistoryInv

LEMMA InitialFilesInv == FilesInit => FilesInv
<1> SUFFICES ASSUME FilesInit PROVE FilesInv
  OBVIOUS
<1>1. /\ host \in Host /\ host.files = InitialFiles
      /\ \A d \in Drive : host.media[d] = NoDisk /\ host.mounted[d] = NoMount
  <2>1. <<>> \in Seq(Int)
    BY EmptySeq
  <2> QED BY <2>1, FilesAssumption DEF FilesInit, Host, NoDisk, NoMount, Mount, Accesses
<1>2. NoPath \notin Protected
  BY FilesAssumption
<1>3. HostOK(host)
  BY <1>1, <1>2, FilesAssumption DEF HostOK, DiskOK, WellMounted, NoMount
<1>4. DialogInv
  <2>1. <<>> \in Seq(Request) /\ <<>> \in Seq(Answer) /\ Len(<<>>) = 0
    BY EmptySeq
  <2> QED BY <2>1 DEF FilesInit, DialogInv, Ui, NoUi
<1>5. PauseInv
  BY DEF FilesInit, PauseInv, NoUi
<1>6. HistoryInv
  BY FilesAssumption DEF FilesInit, HistoryInv, NothingKnown
<1> QED BY <1>3, <1>4, <1>5, <1>6 DEF FilesInv, FilesInit

(* The mounts, and what becomes of the files in each step.                 *)
LEMMA StartKeepsHost ==
  ASSUME HostOK(host), NEW commandLine \in CommandLines, Start(commandLine)
  PROVE  HostOK(host') /\ host'.files = host.files
<1> DEFINE disk(d) == IF commandLine[d].path = NoPath THEN NoDisk
                      ELSE Import(Number, host.files[commandLine[d].path])
<1>1. host \in Host /\ commandLine \in [Drive -> Mount]
  BY CommandLineAssumption DEF HostOK
<1>2. host' = [host EXCEPT !.media = [d \in Drive |-> disk(d)], !.mounted = commandLine]
  BY DEF Start
<1>3. ASSUME NEW d \in Drive
      PROVE  /\ disk(d) \in Seq(Int)
             /\ disk(d) # NoDisk => Len(disk(d)) = TrackLength
             /\ disk(d) # NoDisk <=> commandLine[d].path # NoPath
             /\ commandLine[d].path # NoPath => Exists(host.files[commandLine[d].path])
  <2>1. CASE commandLine[d].path = NoPath
    BY <2>1, EmptySeq DEF NoDisk
  <2>2. CASE commandLine[d].path # NoPath
    <3>1. Readable(host, commandLine[d].path) /\ commandLine[d].path \in Path
      BY <1>1, <2>2 DEF Start, Mount
    <3>2. /\ Ints(host.files[commandLine[d].path], ImageSize)
          /\ Exists(host.files[commandLine[d].path])
      BY <1>1, <3>1, ReadableImage
    <3>3. Ints(disk(d), TrackLength) /\ TrackLength \in Nat \ {0}
      BY <2>2, <3>2, ImportInts
    <3> HIDE DEF disk
    <3> QED BY <2>2, <3>2, <3>3, EmptySeq DEF Ints, NoDisk
  <2> QED BY <2>1, <2>2
<1> HIDE DEF disk
<1>4. [d \in Drive |-> disk(d)] \in [Drive -> Seq(Int)]
  BY <1>3
<1>5. /\ host' \in Host /\ host'.files = host.files /\ host'.mounted = commandLine
      /\ host'.media = [d \in Drive |-> disk(d)]
  BY <1>1, <1>2, <1>4 DEF Host
<1>6. \A d \in Drive : DiskOK(host'.files, host'.media[d], host'.mounted[d])
  BY <1>3, <1>5 DEF DiskOK
<1>7. ProperCommandLines => WellMounted(host'.mounted)
  BY <1>5 DEF ProperCommandLines
<1> QED BY <1>5, <1>6, <1>7 DEF HostOK

(* A file that has changed was created, saved or damaged. *)
Accounted ==
  \A p \in Path : host'.files[p] # host.files[p] =>
    \/ HostDamages(p)
    \/ ~Exists(host.files[p]) /\ host'.files[p] = Blank
    \/ \E d \in Drive : SavedFrom(host, d, p, host'.files[p])

LEMMA HostStep ==
  ASSUME FilesInv, [FilesNext]_fvars
  PROVE  HostOK(host') /\ (ProperCommandLines => Accounted)
<1>1. HostOK(host) /\ host \in Host /\ results \in Seq(Answer)
  BY DEF FilesInv, DialogInv, HostOK
<1>2. CASE UNCHANGED host
  BY <1>1, <1>2 DEF Accounted
<1>3. ASSUME NEW commandLine \in CommandLines, Start(commandLine)
      PROVE  HostOK(host') /\ Accounted
  BY <1>1, <1>3, StartKeepsHost DEF Accounted
<1>4. CASE ProcessFileDialogResults
  <2>1. PICK e \in Selected(host, Head(results)) : host' = e.host
    BY <1>4 DEF ProcessFileDialogResults
  <2>2. Head(results) \in Answer
    BY <1>1, <1>4, HeadTailProperties DEF ProcessFileDialogResults
  <2>3. HostOK(e.host) /\ CreatedOrSaved(host, e.host)
    BY <1>1, <2>2, SelectedOutcome
  <2> QED BY <2>1, <2>3 DEF CreatedOrSaved, Accounted
<1>5. ASSUME NEW d \in Drive, EjectDisk(d) PROVE HostOK(host') /\ Accounted
  <2>1. PICK e \in Eject(host, d) : host' = e.host
    BY <1>5 DEF EjectDisk
  <2>2. Outcome(host, d, e.host)
    BY <1>1, EjectOutcome
  <2> QED BY <2>1, <2>2 DEF Outcome, OnlySaved, Accounted
<1>6. ASSUME NEW d \in Drive, NEW s \in Written, NEW late \in Lateness, ProgramWrites(d, s, late)
      PROVE  HostOK(host') /\ host'.files = host.files
  <2>1. PICK i \in IdFields(host.media[d], s) :
          host' = [host EXCEPT !.media[d] =
                     Overwritten(@, i + 7 + Gap.id + late, DataField(Repeat(DataBytes, last')))]
    BY <1>6 DEF ProgramWrites
  <2>2. i \in Int /\ late \in Int /\ Gap.id \in Int /\ last' \in Int
    <3>1. i \in Int
      BY DEF IdFields
    <3>2. late \in Int
      BY FilesAssumption
    <3>3. last' \in Int
      BY <1>6 DEF ProgramWrites, FilesInv, HistoryInv
    <3> QED BY <3>1, <3>2, <3>3, Sizes
  <2>3. i + 7 + Gap.id + late \in Int
    BY <2>2
  <2>4. DataField(Repeat(DataBytes, last')) \in Seq(Int)
    BY <2>2, FieldWritten
  <2>5. host.media[d] # NoDisk
    BY <1>6 DEF ProgramWrites, ProgramUses
  <2>6. HostOK(host')
    BY <1>1, <2>1, <2>3, <2>4, <2>5, DiskRewritten
  <2>7. host'.files = host.files
    BY <1>1, <2>1 DEF Host
  <2> QED BY <2>6, <2>7
<1>7. ASSUME NEW d \in Drive, NEW format \in Formats, ProgramFormats(d, format)
      PROVE  HostOK(host') /\ host'.files = host.files
  <2> DEFINE length == Min({format.length, Len(host.media[d])})
             bytes == SubSeq(Repeat(format.late, 255) \o Import(Number, Blank), 1, length)
  <2>1. host' = [host EXCEPT !.media[d] = Overwritten(@, 1, bytes)] /\ host.media[d] # NoDisk
    BY <1>7 DEF ProgramFormats, ProgramUses
  <2>2. format.late \in Nat /\ format.length \in Nat
    BY FilesAssumption
  <2>3. Len(host.media[d]) = TrackLength /\ Len(host.media[d]) \in Nat
    <3>1. host.media[d] \in Seq(Int)
      BY <1>1 DEF Host
    <3> QED BY <1>1, <2>1, <3>1, LenProperties DEF HostOK, DiskOK
  <2>4. length \in Nat /\ length <= TrackLength
    BY <2>2, <2>3, LesserOfTwo
  <2> HIDE DEF length
  <2>5. bytes \in Seq(Int)
    BY <2>2, <2>4, FormatWritten
  <2> HIDE DEF bytes
  <2>6. 1 \in Int
    OBVIOUS
  <2>7. HostOK(host')
    BY <1>1, <2>1, <2>5, <2>6, DiskRewritten
  <2>8. host'.files = host.files
    BY <1>1, <2>1 DEF Host
  <2> QED BY <2>7, <2>8
<1>8. ASSUME NEW p \in Path \ Protected, HostDamages(p) PROVE HostOK(host') /\ Accounted
  <2>1. host' = WithFile(host, p, Damaged)
    BY <1>8 DEF HostDamages, WithFile
  <2>2. Damaged \in Seq(Int) /\ Exists(Damaged)
    BY EmptySeq DEF Damaged, NoImage, Exists, Absent
  <2>3. HostOK(host')
    BY <1>1, <2>1, <2>2, FileKeeps
  <2>4. \A q \in Path : q # p => host'.files[q] = host.files[q]
    BY <1>1, <2>1, <2>2, FileFields
  <2> QED BY <1>8, <2>3, <2>4 DEF Accounted
<1>9. CASE Quit
  <2>1. PICK a \in EjectAtExit(host, "A") :
          \E b \in EjectAtExit(a.host, "B") : host' = Closed(Closed(b.host, "A"), "B")
    BY <1>9 DEF Quit
  <2>2. HostOK(host') /\ (ProperCommandLines => CreatedOrSaved(host, host'))
    BY <1>1, <2>1, QuitOutcome
  <2> QED BY <2>2 DEF CreatedOrSaved, Accounted
<1>10. CASE host'.files = host.files /\ HostOK(host')
  BY <1>10 DEF Accounted
<1>11. CASE FilesNext
  <2>1. CASE \E request \in Request : ShowDiskDialog(request)
    BY <1>2, <2>1 DEF ShowDiskDialog
  <2>2. CASE \E path \in Path \cup {NoPath} : FileDialogCallback(path)
    BY <1>2, <2>2 DEF FileDialogCallback
  <2>3. CASE ResetMachine \/ TogglePause
    BY <1>2, <2>3 DEF ResetMachine, TogglePause
  <2> QED BY <1>3, <1>4, <1>5, <1>6, <1>7, <1>8, <1>9, <1>10, <1>11, <2>1, <2>2, <2>3 DEF FilesNext
<1> QED BY <1>2, <1>11 DEF fvars

LEMMA DialogStep ==
  ASSUME FilesInv, [FilesNext]_fvars
  PROVE  DialogInv'
<1>1. DialogInv
  BY DEF FilesInv
<1>2. CASE UNCHANGED <<dialog, results, ui>>
  BY <1>1, <1>2 DEF DialogInv
<1>3. ASSUME NEW request \in Request, ShowDiskDialog(request) PROVE DialogInv'
  <2>1. /\ dialog' = <<request>> /\ results' = results /\ ~ui.open
        /\ ui' = [open |-> TRUE, wasRunning |-> ~ui.paused, paused |-> TRUE]
    BY <1>3 DEF ShowDiskDialog
  <2>2. ui' \in Ui /\ ui'.open
    BY <1>1, <2>1 DEF DialogInv, Ui
  <2>3. dialog' \in Seq(Request) /\ Len(dialog') = 1
    BY <2>1
  <2>4. Len(results) = 0
    BY <1>1, <2>1, LenProperties DEF DialogInv
  <2> QED BY <1>1, <2>1, <2>2, <2>3, <2>4 DEF DialogInv
<1>4. ASSUME NEW path \in Path \cup {NoPath}, FileDialogCallback(path) PROVE DialogInv'
  <2> DEFINE r == [request |-> dialog[1], path |-> path]
  <2>1. dialog # <<>> /\ dialog' = <<>> /\ results' = Append(results, r) /\ ui' = ui
    BY <1>4 DEF FileDialogCallback
  <2>2. dialog \in Seq(Request) /\ results \in Seq(Answer) /\ Len(dialog) + Len(results) <= 1
    BY <1>1 DEF DialogInv
  <2>3. Len(dialog) \in Nat /\ Len(results) \in Nat /\ Len(dialog) # 0
    BY <2>1, <2>2, LenProperties, EmptySeq
  <2>4. dialog[1] \in Request /\ Len(results) = 0 /\ Len(dialog) = 1
    <3>1. \A m, n \in Nat : n + m <= 1 /\ n # 0 => n = 1 /\ m = 0
      OBVIOUS
    <3>2. Len(results) = 0 /\ Len(dialog) = 1
      BY <2>2, <2>3, <3>1, Zenon
    <3>3. 1 \in 1 .. Len(dialog)
      BY <3>2
    <3> QED BY <2>2, <3>2, <3>3, ElementOfSeq
  <2>5. r \in Answer
    BY <2>4 DEF Answer
  <2> HIDE DEF r
  <2>6. Append(results, r) \in Seq(Answer) /\ Len(Append(results, r)) = Len(results) + 1
    BY <2>2, <2>5, AppendProperties
  <2>7. <<>> \in Seq(Request) /\ Len(<<>>) = 0
    BY EmptySeq
  <2>8. ui.open
    BY <1>1, <2>4 DEF DialogInv
  <2> QED BY <1>1, <2>1, <2>4, <2>6, <2>7, <2>8 DEF DialogInv
<1>5. CASE ProcessFileDialogResults
  <2>1. PICK e : ui' = FinishDiskDialog(e.ok) /\ results # <<>> /\ results' = Tail(results) /\ dialog' = dialog
    BY <1>5 DEF ProcessFileDialogResults
  <2>2. ui' \in Ui /\ ~ui'.open
    BY <1>1, <2>1 DEF FinishDiskDialog, DialogInv, Ui
  <2>3. dialog \in Seq(Request) /\ results \in Seq(Answer) /\ Len(dialog) + Len(results) <= 1
    BY <1>1 DEF DialogInv
  <2>4. Len(dialog) \in Nat /\ Len(results) \in Nat /\ Len(results) # 0
    BY <2>1, <2>3, LenProperties, EmptySeq
  <2>5. Len(results) = 1 /\ Len(dialog) = 0
    <3>1. \A m, n \in Nat : m + n <= 1 /\ n # 0 => n = 1 /\ m = 0
      OBVIOUS
    <3> QED BY <2>3, <2>4, <3>1, Zenon
  <2>6. Tail(results) \in Seq(Answer) /\ Len(Tail(results)) = Len(results) - 1
    BY <2>1, <2>3, HeadTailProperties
  <2> QED BY <2>1, <2>2, <2>3, <2>5, <2>6 DEF DialogInv
<1>6. CASE ResetMachine \/ TogglePause
  <2>1. ui' \in Ui /\ (ui'.open <=> ui.open) /\ UNCHANGED <<dialog, results>>
    BY <1>1, <1>6 DEF ResetMachine, TogglePause, DialogInv, Ui
  <2> QED BY <1>1, <2>1 DEF DialogInv
<1>7. CASE Quit
  <2>1. dialog' = <<>> /\ results' = <<>> /\ ui' = NoUi
    BY <1>7 DEF Quit
  <2>2. <<>> \in Seq(Request) /\ <<>> \in Seq(Answer) /\ Len(<<>>) = 0
    BY EmptySeq
  <2>3. NoUi \in Ui
    BY DEF NoUi, Ui
  <2> QED BY <2>1, <2>2, <2>3 DEF DialogInv
<1>8. CASE FilesNext
  <2>1. CASE \E commandLine \in CommandLines : Start(commandLine)
    BY <1>2, <2>1 DEF Start
  <2>2. CASE \E d \in Drive : EjectDisk(d)
    BY <1>2, <2>2 DEF EjectDisk
  <2>3. CASE \E d \in Drive, s \in Written, late \in Lateness : ProgramWrites(d, s, late)
    BY <1>2, <2>3 DEF ProgramWrites
  <2>4. CASE \E d \in Drive, format \in Formats : ProgramFormats(d, format)
    BY <1>2, <2>4 DEF ProgramFormats
  <2>5. CASE \E p \in Path \ Protected : HostDamages(p)
    BY <1>2, <2>5 DEF HostDamages
  <2> QED BY <1>3, <1>4, <1>5, <1>6, <1>7, <1>8, <2>1, <2>2, <2>3, <2>4, <2>5 DEF FilesNext
<1> QED BY <1>2, <1>8 DEF fvars

LEMMA PauseStep ==
  ASSUME FilesInv, [FilesNext]_fvars
  PROVE  PauseInv' /\ asked' \in BOOLEAN /\ stage' \in {"exited", "running"}
<1>1. PauseInv /\ ui \in Ui /\ asked \in BOOLEAN /\ stage \in {"exited", "running"}
  BY DEF FilesInv, DialogInv
<1>2. CASE UNCHANGED <<ui, asked>> /\ stage' \in {"exited", "running"}
  BY <1>1, <1>2 DEF PauseInv
<1>3. ASSUME NEW request \in Request, ShowDiskDialog(request)
      PROVE  PauseInv' /\ asked' \in BOOLEAN /\ stage' \in {"exited", "running"}
  BY <1>1, <1>3 DEF ShowDiskDialog, PauseInv, Ui
<1>4. CASE ProcessFileDialogResults
  <2>1. PICK e : ui' = FinishDiskDialog(e.ok) /\ asked' = asked /\ stage' = stage
    BY <1>4 DEF ProcessFileDialogResults
  <2> QED BY <1>1, <2>1 DEF FinishDiskDialog, PauseInv, Ui
<1>5. CASE ResetMachine \/ TogglePause
  BY <1>1, <1>5 DEF ResetMachine, TogglePause, PauseInv, Ui
<1>6. CASE Quit
  BY <1>6 DEF Quit, PauseInv, NoUi
<1>7. CASE FilesNext
  <2>1. CASE \E commandLine \in CommandLines : Start(commandLine)
    BY <1>2, <2>1 DEF Start
  <2>2. CASE \E d \in Drive : EjectDisk(d)
    BY <1>1, <1>2, <2>2 DEF EjectDisk
  <2>3. CASE \E d \in Drive, s \in Written, late \in Lateness : ProgramWrites(d, s, late)
    BY <1>1, <1>2, <2>3 DEF ProgramWrites
  <2>4. CASE \E d \in Drive, format \in Formats : ProgramFormats(d, format)
    BY <1>1, <1>2, <2>4 DEF ProgramFormats
  <2>5. CASE \E p \in Path \ Protected : HostDamages(p)
    BY <1>1, <1>2, <2>5 DEF HostDamages
  <2>6. CASE \E path \in Path \cup {NoPath} : FileDialogCallback(path)
    BY <1>1, <1>2, <2>6 DEF FileDialogCallback
  <2> QED BY <1>3, <1>4, <1>5, <1>6, <1>7, <2>1, <2>2, <2>3, <2>4, <2>5, <2>6 DEF FilesNext
<1> QED BY <1>1, <1>2, <1>7 DEF fvars

LEMMA HistoryStep ==
  ASSUME FilesInv, [FilesNext]_fvars
  PROVE  HistoryInv'
<1>1. /\ HistoryInv /\ MaxWrites \in Nat
      /\ last \in 0 .. MaxWrites /\ newest \in [Path -> [Sector -> Value \cup {Unknown}]]
  BY FilesAssumption DEF FilesInv, HistoryInv
<1>2. CASE UNCHANGED <<last, newest>>
  BY <1>1, <1>2 DEF HistoryInv
<1>3. [s \in Sector |-> Unknown] \in [Sector -> Value \cup {Unknown}]
  OBVIOUS
<1>4. ASSUME NEW d \in Drive, NEW s \in Written, NEW late \in Lateness, ProgramWrites(d, s, late)
      PROVE  HistoryInv'
  <2>1. last' = last + 1 /\ last < MaxWrites /\ newest' = [newest EXCEPT ![host.mounted[d].path][s] = last']
    BY <1>4 DEF ProgramWrites
  <2>2. last' \in 0 .. MaxWrites /\ last' \in Value
    BY <1>1, <2>1 DEF Value
  <2> QED BY <1>1, <2>1, <2>2 DEF HistoryInv
<1>5. ASSUME NEW d \in Drive, NEW format \in Formats, ProgramFormats(d, format) PROVE HistoryInv'
  BY <1>1, <1>3, <1>5 DEF ProgramFormats, HistoryInv
<1>6. ASSUME NEW p \in Path, HostDamages(p) PROVE HistoryInv'
  BY <1>1, <1>3, <1>6 DEF HostDamages, HistoryInv
<1>7. CASE Quit
  BY <1>1, <1>3, <1>7 DEF Quit, HistoryInv, NothingKnown
<1>8. CASE FilesNext
  <2>1. CASE \E commandLine \in CommandLines : Start(commandLine)
    BY <1>2, <2>1 DEF Start
  <2>2. CASE \E request \in Request : ShowDiskDialog(request)
    BY <1>2, <2>2 DEF ShowDiskDialog
  <2>3. CASE \E path \in Path \cup {NoPath} : FileDialogCallback(path)
    BY <1>2, <2>3 DEF FileDialogCallback
  <2>4. CASE ProcessFileDialogResults
    BY <1>2, <2>4 DEF ProcessFileDialogResults
  <2>5. CASE \E d \in Drive : EjectDisk(d)
    BY <1>2, <2>5 DEF EjectDisk
  <2>6. CASE ResetMachine \/ TogglePause
    BY <1>2, <2>6 DEF ResetMachine, TogglePause
  <2> QED BY <1>4, <1>5, <1>6, <1>7, <1>8, <2>1, <2>2, <2>3, <2>4, <2>5, <2>6 DEF FilesNext
<1> QED BY <1>2, <1>8 DEF fvars

LEMMA FilesInvStep == FilesInv /\ [FilesNext]_fvars => FilesInv'
<1> SUFFICES ASSUME FilesInv, [FilesNext]_fvars PROVE FilesInv'
  OBVIOUS
<1> QED BY HostStep, DialogStep, PauseStep, HistoryStep DEF FilesInv

LEMMA FilesInvariance == FilesSpec => []FilesInv
BY InitialFilesInv, FilesInvStep, PTL DEF FilesSpec

(* The histories, the dialog and the files are what they are meant to be,  *)
(* and at most one dialog is open or waits to be answered for.             *)
THEOREM FilesTypeCorrect == FilesSpec => []FilesTypeOK
<1>1. FilesInv => FilesTypeOK
  BY DEF FilesInv, HostOK, DialogInv, HistoryInv, FilesTypeOK, Answer
<1> QED BY <1>1, FilesInvariance, PTL

(* With no dialog open the emulation stands still only if the user has     *)
(* asked for it, whatever became of the dialogs.                           *)
THEOREM PauseAlwaysTheUsers == FilesSpec => []PauseIsTheUsers
<1>1. FilesInv => PauseIsTheUsers
  BY DEF FilesInv, PauseInv, PauseIsTheUsers
<1> QED BY <1>1, FilesInvariance, PTL

(* However an eject, a replacement or a save fails, a drive holds a disk   *)
(* exactly while the menu shows its file, no file is in both drives with   *)
(* one of them writing to it, and the ROM and the printer's file are in    *)
(* none: unless the command line has put them there.                       *)
THEOREM MountsAlwaysSound ==
  ASSUME ProperCommandLines
  PROVE  FilesSpec => []MountsAreSound
<1>1. FilesInv => MountsAreSound
  <2> SUFFICES ASSUME FilesInv PROVE MountsAreSound
    OBVIOUS
  <2>1. FilesTypeOK
    BY DEF FilesInv, HostOK, DialogInv, HistoryInv, FilesTypeOK, Answer
  <2>2. \A d \in Drive : host.media[d] # NoDisk <=> host.mounted[d].path # NoPath
    BY DEF FilesInv, HostOK, DiskOK
  <2>3. WellMounted(host.mounted)
    BY ProperCommandLines DEF FilesInv, HostOK
  <2>4. "A" \in Drive /\ "B" \in Drive /\ Other("A") = "B" /\ Other("B") = "A"
    BY DEF Drive, Other
  <2>5. \A d \in Drive : d = "A" \/ d = "B"
    BY DEF Drive
  <2> QED BY <2>1, <2>2, <2>3, <2>4, <2>5 DEF MountsAreSound, WellMounted
<1> QED BY <1>1, FilesInvariance, PTL

(* A file changes only when it is created blank, where there was none,     *)
(* when a complete disk that was opened from it for writing is saved, or   *)
(* when another program damages it; two disks are never saved over one     *)
(* file unless the command line has mounted it twice.                      *)
THEOREM FilesAlwaysSaved ==
  ASSUME ProperCommandLines
  PROVE  FilesSpec => FilesAreSaved
<1>1. FilesInv /\ [FilesNext]_fvars =>
        [\A p \in Path : host'.files[p] # host.files[p] =>
           \/ HostDamages(p)
           \/ ~Exists(host.files[p]) /\ host'.files[p] = Blank
           \/ \E d \in Drive :
                LET image == Export(Number, host.media[d])
                IN /\ host.mounted[d] = [path |-> p, access |-> "rw"]
                   /\ image # NoImage
                   /\ host'.files[p] \in {image, Torn(host.files[p], image)}]_fvars
  <2> SUFFICES ASSUME FilesInv, [FilesNext]_fvars
               PROVE  [\A p \in Path : host'.files[p] # host.files[p] =>
                         \/ HostDamages(p)
                         \/ ~Exists(host.files[p]) /\ host'.files[p] = Blank
                         \/ \E d \in Drive : SavedFrom(host, d, p, host'.files[p])]_fvars
    BY DEF SavedFrom
  <2>1. Accounted
    BY ProperCommandLines, HostStep
  <2> QED BY <2>1 DEF Accounted
<1> QED BY <1>1, FilesInvariance, PTL DEF FilesSpec, FilesAreSaved

----------------------------------------------------------------------------
(* What is on the disks and in the files.  Of what a program has written   *)
(* to a disk that is saved over its file, the disk has the newest; once no *)
(* such disk is in a drive, the file has it.                               *)

ByteFile(file) == file \in Seq(0 .. 255)
ByteSized ==
  /\ Sectors <= 255 /\ MaxWrites <= 255
  /\ \A p \in Path : Exists(InitialFiles[p]) => ByteFile(InitialFiles[p])

FilesAreBytes(h) == \A p \in Path : Exists(h.files[p]) => ByteFile(h.files[p])
DisksInOrder(h) == \A d \in Drive : h.media[d] # NoDisk => InOrder(h.media[d])
Sound(h) == HostOK(h) /\ FilesAreBytes(h) /\ DisksInOrder(h)

WritesTo(h, d, p) == h.mounted[d] = [path |-> p, access |-> "rw"]
InFile(file, s, v) ==
  Exists(file) /\ Len(file) = ImageSize /\ SectorData(file, s) = Repeat(DataBytes, v)
KeptAt(h, p, s, v) ==
  /\ \A d \in Drive : WritesTo(h, d, p) => OnDisk(h.media[d], s, v)
  /\ (\A d \in Drive : ~WritesTo(h, d, p)) => InFile(h.files[p], s, v)
KeptOf(h, p, data) == \A s \in Sector : data[s] # Unknown => KeptAt(h, p, s, data[s])
Kept(h, data) == \A p \in Path : KeptOf(h, p, data[p])
Safe(h, data) == Sound(h) /\ (ProperCommandLines => Kept(h, data))

LEMMA ByteFiles ==
  ASSUME NEW file
  PROVE  /\ ByteImage(file) => ByteFile(file)
         /\ ByteFile(file) /\ Len(file) = ImageSize => ByteImage(file)
<1>1. ASSUME ByteImage(file) PROVE ByteFile(file)
  <2>1. /\ file \in Seq(Int) /\ Len(file) = ImageSize
        /\ \A k \in 1 .. ImageSize : file[k] \in 0 .. 255
    BY <1>1 DEF ByteImage, Ints, Quiet
  <2>2. file = [k \in 1 .. Len(file) |-> file[k]] /\ Len(file) \in Nat
    BY <2>1, LenProperties
  <2>3. file \in [1 .. Len(file) -> 0 .. 255]
    BY <2>1, <2>2
  <2> DEFINE S == 0 .. 255
             n == Len(file)
  <2> HIDE DEF S, n
  <2>4. n \in Nat /\ file \in [1 .. n -> S]
    BY <2>2, <2>3 DEF S, n
  <2>5. file \in UNION {[1 .. k -> S] : k \in Nat}
    BY <2>4, Zenon
  <2>6. file \in Seq(S)
    BY <2>5, SeqDef, Zenon
  <2> QED BY <2>6 DEF ByteFile, S
<1>2. ASSUME ByteFile(file), Len(file) = ImageSize PROVE ByteImage(file)
  <2>1. file \in Seq(0 .. 255) /\ \A k \in 1 .. Len(file) : file[k] \in 0 .. 255
    BY <1>2, ElementOfSeq DEF ByteFile
  <2>2. file \in Seq(Int)
    <3>1. 0 .. 255 \in SUBSET Int
      OBVIOUS
    <3> QED BY <2>1, <3>1, SeqMonotonic
  <2> QED BY <1>2, <2>1, <2>2 DEF ByteImage, Ints, Quiet
<1> QED BY <1>1, <1>2

(* A file torn by a write that failed still consists of bytes. *)
LEMMA TornBytes ==
  ASSUME NEW old, ByteFile(old), NEW new, ByteImage(new)
  PROVE  ByteFile(Torn(old, new))
<1> DEFINE S == 0 .. 255
           half == ImageSize \div 2
           first == SubSeq(new, 1, half)
           second == SubSeq(old, half + 1, Len(old))
<1>1. ImageSize \in Nat \ {0} /\ half \in Nat /\ half <= ImageSize
  BY Sizes
<1>2. new \in Seq(S) /\ Len(new) = ImageSize /\ old \in Seq(S) /\ Len(old) \in Nat
  BY ByteFiles, LenProperties DEF ByteImage, ByteFile, Ints
<1> HIDE DEF S, half
<1>3. \A i \in 1 .. half : new[i] \in S
  <2>1. \A i \in 1 .. half : i \in 1 .. Len(new)
    BY <1>1, <1>2
  <2> QED BY <1>2, <2>1, ElementOfSeq
<1>4. \A i \in half + 1 .. Len(old) : old[i] \in S
  <2>1. \A i \in half + 1 .. Len(old) : i \in 1 .. Len(old)
    BY <1>1, <1>2
  <2> QED BY <1>2, <2>1, ElementOfSeq
<1>5. first \in Seq(S)
  <2>1. 1 \in Int /\ half \in Int
    BY <1>1
  <2> QED BY <1>3, <2>1, SubSeqProperties
<1>6. second \in Seq(S)
  <2>1. half + 1 \in Int /\ Len(old) \in Int
    BY <1>1, <1>2
  <2> QED BY <1>4, <2>1, SubSeqProperties
<1> HIDE DEF first, second
<1>7. first \o second \in Seq(S)
  BY <1>5, <1>6, ConcatProperties
<1> QED BY <1>7 DEF Torn, ByteFile, S, first, second, half

(* What a step leaves alone stays kept. *)
LEMMA KeptStays ==
  ASSUME NEW h, NEW g, NEW p, NEW s, NEW v, KeptAt(h, p, s, v), g.files[p] = h.files[p],
         \A d \in Drive : /\ WritesTo(g, d, p) <=> WritesTo(h, d, p)
                          /\ WritesTo(g, d, p) => g.media[d] = h.media[d]
  PROVE  KeptAt(g, p, s, v)
BY DEF KeptAt

LEMMA NoPathIsNone ==
  ASSUME NEW h, NEW d, h.mounted[d].path = NoPath
  PROVE  \A p \in Path : ~WritesTo(h, d, p)
BY FilesAssumption DEF WritesTo

LEMMA ClosedSound ==
  ASSUME NEW h, Sound(h), NEW d \in Drive
  PROVE  Sound(Closed(h, d))
<1>1. HostOK(h) /\ h \in Host /\ HostOK(Closed(h, d))
  BY ClosedKeeps DEF Sound, HostOK
<1> DEFINE g == Closed(h, d)
<1>2. /\ g.files = h.files /\ g.media[d] = NoDisk
      /\ \A o \in Drive : o # d => g.media[o] = h.media[o]
  BY <1>1, ClosedFields
<1> HIDE DEF g
<1> QED BY <1>1, <1>2 DEF Sound, FilesAreBytes, DisksInOrder, g

LEMMA ClosedSafe ==
  ASSUME NEW h, NEW data, Safe(h, data), NEW d \in Drive, \A p \in Path : ~WritesTo(h, d, p)
  PROVE  Safe(Closed(h, d), data)
<1>1. h \in Host /\ Sound(Closed(h, d))
  BY ClosedSound DEF Safe, Sound, HostOK
<1> DEFINE g == Closed(h, d)
<1>2. /\ g.files = h.files /\ g.mounted[d].path = NoPath
      /\ \A o \in Drive : o # d => g.media[o] = h.media[o] /\ g.mounted[o] = h.mounted[o]
  BY <1>1, ClosedFields
<1> HIDE DEF g
<1>3. ASSUME NEW p \in Path
      PROVE  \A o \in Drive : /\ WritesTo(g, o, p) <=> WritesTo(h, o, p)
                              /\ WritesTo(g, o, p) => g.media[o] = h.media[o]
  <2>1. ~WritesTo(g, d, p) /\ ~WritesTo(h, d, p)
    BY <1>2, NoPathIsNone
  <2> QED BY <1>2, <2>1 DEF WritesTo
<1>4. ASSUME ProperCommandLines PROVE Kept(g, data)
  <2>1. Kept(h, data)
    BY <1>4 DEF Safe
  <2> QED BY <1>2, <1>3, <2>1, KeptStays DEF Kept, KeptOf
<1> QED BY <1>1, <1>4 DEF Safe, g

(* A disk that is saved leaves in its file what was on it, and one that    *)
(* cannot be saved stays where it is.                                      *)
LEMMA SavedSafe ==
  ASSUME ByteSized, NEW h, NEW data, Safe(h, data), NEW d \in Drive, NEW p \in Path,
         WritesTo(h, d, p), h.media[d] # NoDisk, Export(Number, h.media[d]) # NoImage
  PROVE  /\ Safe(Closed(WithFile(h, p, Export(Number, h.media[d])), d), data)
         /\ Exists(h.files[p]) => Safe(WithFile(h, p, Torn(h.files[p], Export(Number, h.media[d]))), data)
<1> DEFINE image == Export(Number, h.media[d])
<1>1. HostOK(h) /\ h \in Host /\ FilesAreBytes(h) /\ DisksInOrder(h) /\ Sectors <= 255
  BY DEF Safe, Sound, HostOK, ByteSized
<1>2. InOrder(h.media[d]) /\ h.media[d] \in Seq(Int)
  BY <1>1 DEF DisksInOrder, Host
<1>3. ByteImage(image)
  BY <1>2, ExportIs
<1>4. image \in Seq(Int) /\ Len(image) = ImageSize /\ ByteFile(image) /\ Exists(image) /\ image[1] # -1
  <2> QED BY <1>2, <1>3, ImageExists, ByteFiles DEF ByteImage, Ints
<1>5. \A s \in Sector : \A v : OnDisk(h.media[d], s, v) => InFile(image, s, v)
  <2> SUFFICES ASSUME NEW s \in Sector, NEW v, OnDisk(h.media[d], s, v) PROVE InFile(image, s, v)
    OBVIOUS
  <2>1. Reads(h.media[d], s) = {Repeat(DataBytes, v)}
    BY <1>1, SectorRead
  <2>2. Reads(h.media[d], s) = {SectorData(image, s)}
    BY <1>1, <1>2, ExportRead
  <2> HIDE DEF image
  <2>3. SectorData(image, s) = Repeat(DataBytes, v)
    BY <2>1, <2>2
  <2> QED BY <1>4, <2>3 DEF InFile
<1> HIDE DEF image
<1>6. ASSUME NEW file \in Seq(Int), Exists(file), ByteFile(file)
      PROVE  /\ Sound(WithFile(h, p, file))
             /\ WithFile(h, p, file).media = h.media /\ WithFile(h, p, file).mounted = h.mounted
             /\ WithFile(h, p, file).files[p] = file
             /\ \A q \in Path : q # p => WithFile(h, p, file).files[q] = h.files[q]
  <2> DEFINE g == WithFile(h, p, file)
  <2>1. HostOK(g)
    BY <1>1, <1>6, FileKeeps
  <2>2. /\ g.media = h.media /\ g.mounted = h.mounted
        /\ g.files[p] = file /\ \A q \in Path : q # p => g.files[q] = h.files[q]
    BY <1>1, <1>6, FileFields
  <2> HIDE DEF g
  <2>3. Sound(g)
    BY <1>1, <1>6, <2>1, <2>2 DEF Sound, FilesAreBytes, DisksInOrder
  <2> QED BY <2>2, <2>3 DEF g
<1>7. ASSUME Exists(h.files[p]) PROVE Safe(WithFile(h, p, Torn(h.files[p], image)), data)
  <2> DEFINE torn == Torn(h.files[p], image)
             g == WithFile(h, p, torn)
  <2>1. torn \in Seq(Int) /\ Exists(torn) /\ ByteFile(torn)
    <3>1. h.files[p] \in Seq(Int) /\ ByteFile(h.files[p])
      BY <1>1, <1>7 DEF Host, FilesAreBytes
    <3> QED BY <1>3, <1>4, <1>7, <3>1, TornExists, TornBytes DEF Ints
  <2> HIDE DEF torn
  <2>2. /\ Sound(g) /\ g.media = h.media /\ g.mounted = h.mounted
        /\ \A q \in Path : q # p => g.files[q] = h.files[q]
    BY <1>6, <2>1
  <2> HIDE DEF g
  <2>3. ASSUME ProperCommandLines PROVE Kept(g, data)
    <3>1. Kept(h, data)
      BY <2>3 DEF Safe
    <3>2. \A o, q : WritesTo(g, o, q) <=> WritesTo(h, o, q)
      BY <2>2 DEF WritesTo
    <3>3. ASSUME NEW q \in Path, NEW s \in Sector, data[q][s] # Unknown
          PROVE  KeptAt(g, q, s, data[q][s])
      <4>1. KeptAt(h, q, s, data[q][s])
        BY <3>1, <3>3 DEF Kept, KeptOf
      <4>2. CASE q = p
        BY <2>2, <3>2, <4>1, <4>2 DEF KeptAt
      <4>3. CASE q # p
        BY <2>2, <3>2, <4>1, <4>3, KeptStays
      <4> QED BY <4>2, <4>3
    <3> QED BY <3>3 DEF Kept, KeptOf
  <2> QED BY <2>2, <2>3 DEF Safe, g, torn
<1>8. Safe(Closed(WithFile(h, p, image), d), data)
  <2> DEFINE k == WithFile(h, p, image)
             g == Closed(k, d)
  <2>1. /\ Sound(k) /\ k.media = h.media /\ k.mounted = h.mounted
        /\ k.files[p] = image /\ \A q \in Path : q # p => k.files[q] = h.files[q]
    BY <1>4, <1>6
  <2> HIDE DEF k
  <2>2. k \in Host
    BY <2>1 DEF Sound, HostOK
  <2>3. /\ Sound(g) /\ g.files = k.files /\ g.mounted[d].path = NoPath
        /\ \A o \in Drive : o # d => g.media[o] = h.media[o] /\ g.mounted[o] = h.mounted[o]
    BY <2>1, <2>2, ClosedSound, ClosedFields
  <2> HIDE DEF g
  <2>4. ASSUME ProperCommandLines PROVE Kept(g, data)
    <3>1. Kept(h, data) /\ WellMounted(h.mounted)
      BY <1>1, <2>4 DEF Safe, HostOK
    <3>2. \A q \in Path : ~WritesTo(g, d, q)
      BY <2>3, NoPathIsNone
    <3>3. ASSUME NEW q \in Path, NEW s \in Sector, data[q][s] # Unknown
          PROVE  KeptAt(g, q, s, data[q][s])
      <4>1. KeptAt(h, q, s, data[q][s])
        BY <3>1, <3>3 DEF Kept, KeptOf
      <4>2. CASE q = p
        <5>1. \A o \in Drive : ~WritesTo(g, o, p)
          <6> SUFFICES ASSUME NEW o \in Drive, o # d, WritesTo(h, o, p) PROVE FALSE
            BY <2>3, <3>2 DEF WritesTo
          <6>1. o = Other(d)
            BY Drives
          <6>2. h.mounted[d].path = p /\ h.mounted[d].access = "rw" /\ h.mounted[Other(d)].path = p
            BY <6>1 DEF WritesTo
          <6>3. p # NoPath
            BY FilesAssumption
          <6> QED BY <3>1, <6>2, <6>3 DEF WellMounted
        <5>2. OnDisk(h.media[d], s, data[q][s])
          BY <4>1, <4>2 DEF KeptAt
        <5>3. InFile(image, s, data[q][s])
          BY <1>5, <5>2
        <5> QED BY <2>1, <2>3, <4>2, <5>1, <5>3 DEF KeptAt
      <4>3. CASE q # p
        <5>1. ~WritesTo(h, d, q) /\ ~WritesTo(g, d, q)
          BY <3>2, <4>3 DEF WritesTo
        <5>2. \A o \in Drive : /\ WritesTo(g, o, q) <=> WritesTo(h, o, q)
                               /\ WritesTo(g, o, q) => g.media[o] = h.media[o]
          BY <2>3, <5>1 DEF WritesTo
        <5> QED BY <2>1, <2>3, <4>1, <4>3, <5>2, KeptStays
      <4> QED BY <4>2, <4>3
    <3> QED BY <3>3 DEF Kept, KeptOf
  <2> QED BY <2>3, <2>4 DEF Safe, g, k
<1> QED BY <1>7, <1>8 DEF image

LEMMA EjectSafe ==
  ASSUME ByteSized, NEW h, NEW data, Safe(h, data), NEW d \in Drive, NEW e \in Eject(h, d)
  PROVE  Safe(e.host, data)
<1>1. h \in Host
  BY DEF Safe, Sound, HostOK
<1>2. CASE h.media[d] # NoDisk /\ h.mounted[d].path # NoPath /\ h.mounted[d].access = "rw"
  <2> DEFINE p == h.mounted[d].path
             image == Export(Number, h.media[d])
             saved == [h EXCEPT !.files[p] = image]
             torn == [h EXCEPT !.files[p] = Torn(@, image)]
  <2>1. p \in Path /\ WritesTo(h, d, p)
    BY <1>1, <1>2 DEF Host, Mount, WritesTo
  <2>2. \/ e = Fails(h)
        \/ /\ image # NoImage /\ Exists(h.files[p])
           /\ e \in {Succeeds(Closed(saved, d)), Fails(torn)}
    BY <1>2 DEF Eject, Save, Restored
  <2>3. image # NoImage =>
          Safe(Closed(saved, d), data) /\ (Exists(h.files[p]) => Safe(torn, data))
    BY <1>2, <2>1, SavedSafe DEF WithFile
  <2> HIDE DEF p, image, saved, torn
  <2> QED BY <2>2, <2>3 DEF Fails, Succeeds
<1>3. CASE ~(h.media[d] # NoDisk /\ h.mounted[d].path # NoPath /\ h.mounted[d].access = "rw")
  <2>1. e.host = Closed(h, d)
    BY <1>3 DEF Eject, Succeeds
  <2>2. ASSUME NEW p \in Path PROVE ~WritesTo(h, d, p)
    <3>1. h.media[d] # NoDisk <=> h.mounted[d].path # NoPath
      BY DEF Safe, Sound, HostOK, DiskOK
    <3>2. p # NoPath
      BY FilesAssumption
    <3> QED BY <1>3, <3>1, <3>2 DEF WritesTo
  <2> QED BY <2>1, <2>2, ClosedSafe
<1> QED BY <1>2, <1>3

(* A disk that is opened has on it what its file has. *)
LEMMA OpenedSafe ==
  ASSUME ByteSized, NEW h, NEW data, Safe(h, data), NEW d \in Drive, h.mounted[d].path = NoPath,
         NEW p, NEW access \in Accesses, Mountable(h, d, p, access), Readable(h, p)
  PROVE  Safe(Opened(h, d, p, access, h.files[p]), data)
<1> DEFINE g == Opened(h, d, p, access, h.files[p])
<1>1. HostOK(h) /\ h \in Host /\ FilesAreBytes(h) /\ DisksInOrder(h) /\ Sectors <= 255 /\ p \in Path
  BY DEF Safe, Sound, HostOK, ByteSized, Mountable
<1>2. ByteImage(h.files[p]) /\ Ints(h.files[p], ImageSize) /\ Exists(h.files[p]) /\ Len(h.files[p]) = ImageSize
  <2>1. Ints(h.files[p], ImageSize) /\ Exists(h.files[p])
    BY <1>1, ReadableImage
  <2> QED BY <1>1, <2>1, ByteFiles DEF FilesAreBytes, Ints
<1>3. /\ InOrder(Import(Number, h.files[p]))
      /\ \A s \in Sector : \A v : InFile(h.files[p], s, v) => OnDisk(Import(Number, h.files[p]), s, v)
  BY <1>1, <1>2, ImportInOrder DEF InFile
<1>4. HostOK(g)
  BY <1>1, <1>2, OpenedKeeps
<1>5. /\ g.files = h.files /\ g.mounted[d] = [path |-> p, access |-> access]
      /\ \A o \in Drive : o # d => g.media[o] = h.media[o] /\ g.mounted[o] = h.mounted[o]
  BY <1>1, <1>2, OpenedFields
<1>6. g.media[d] = Import(Number, h.files[p])
  <2>1. h.media \in [Drive -> Seq(Int)]
    BY <1>1 DEF Host
  <2>2. g.media = [h.media EXCEPT ![d] = Import(Number, h.files[p])]
    BY <1>1 DEF Opened, Host
  <2> HIDE DEF g
  <2> QED BY <2>1, <2>2
<1> HIDE DEF g
<1>7. Sound(g)
  BY <1>1, <1>3, <1>4, <1>5, <1>6 DEF Sound, FilesAreBytes, DisksInOrder
<1>8. ASSUME ProperCommandLines PROVE Kept(g, data)
  <2>1. Kept(h, data)
    BY <1>8 DEF Safe
  <2>2. \A q \in Path : ~WritesTo(h, d, q)
    BY NoPathIsNone
  <2>3. ASSUME NEW q \in Path, NEW s \in Sector, data[q][s] # Unknown
        PROVE  KeptAt(g, q, s, data[q][s])
    <3>1. KeptAt(h, q, s, data[q][s])
      BY <2>1, <2>3 DEF Kept, KeptOf
    <3>2. CASE q = p /\ access = "rw"
      <4>1. \A o \in Drive : o # d => ~WritesTo(h, o, p)
        BY <3>2, Drives DEF Mountable, WritesTo
      <4>2. InFile(h.files[p], s, data[q][s])
        BY <2>2, <3>1, <3>2, <4>1 DEF KeptAt
      <4>3. OnDisk(g.media[d], s, data[q][s])
        BY <1>3, <1>6, <4>2
      <4>4. WritesTo(g, d, p)
        BY <1>5, <3>2 DEF WritesTo
      <4>5. \A o \in Drive : o # d => ~WritesTo(g, o, p)
        BY <1>5, <4>1 DEF WritesTo
      <4> QED BY <3>2, <4>3, <4>4, <4>5 DEF KeptAt
    <3>3. CASE ~(q = p /\ access = "rw")
      <4>1. ~WritesTo(g, d, q) /\ ~WritesTo(h, d, q)
        BY <1>5, <2>2, <3>3 DEF WritesTo
      <4>2. \A o \in Drive : /\ WritesTo(g, o, q) <=> WritesTo(h, o, q)
                             /\ WritesTo(g, o, q) => g.media[o] = h.media[o]
        BY <1>5, <4>1 DEF WritesTo
      <4> QED BY <1>5, <3>1, <4>2, KeptStays
    <3> QED BY <3>2, <3>3
  <2> QED BY <2>3 DEF Kept, KeptOf
<1> QED BY <1>7, <1>8 DEF Safe, g

LEMMA ReplaceSafe ==
  ASSUME ByteSized, NEW h, NEW data, Safe(h, data), NEW d \in Drive, NEW p, NEW access \in Accesses,
         Mountable(h, d, p, access), NEW e \in Replace(h, d, p, access)
  PROVE  Safe(e.host, data)
<1>1. HostOK(h) /\ h \in Host /\ p \in Path
  BY DEF Safe, Sound, HostOK, Mountable
<1>2. CASE e = Fails(h)
  BY <1>2 DEF Fails
<1>3. ASSUME NEW a \in Eject(h, d)
      PROVE  /\ Safe(a.host, data) /\ Mountable(a.host, d, p, access)
             /\ a.ok => a.host.mounted[d].path = NoPath
             /\ h.mounted[d].path # p => a.host.files[p] = h.files[p]
  <2>1. Outcome(h, d, a.host) /\ (a.ok => a.host.mounted[d].path = NoPath)
    BY <1>1, EjectOutcome
  <2>2. Mountable(a.host, d, p, access)
    BY <2>1, Drives DEF Mountable, Outcome, OthersStay
  <2>3. h.mounted[d].path # p => a.host.files[p] = h.files[p]
    <3> SUFFICES ASSUME a.host.files[p] # h.files[p] PROVE h.mounted[d].path = p
      OBVIOUS
    <3>1. SavedFrom(h, d, p, a.host.files[p])
      BY <1>1, <2>1 DEF Outcome, OnlySaved
    <3>2. h.mounted[d] = [path |-> p, access |-> "rw"]
      BY <3>1 DEF SavedFrom
    <3> QED BY <3>2
  <2> QED BY <2>1, <2>2, <2>3, EjectSafe
<1>4. CASE e # Fails(h) /\ SameExistingFile(h, h.mounted[d].path, p)
  <2>1. e \in Reopen(h, d, p, access)
    BY <1>4 DEF Replace
  <2>2. PICK a \in Eject(h, d) :
          \/ ~a.ok /\ e = a
          \/ e = Fails(a.host)
          \/ a.ok /\ Readable(a.host, p) /\ e = Succeeds(Opened(a.host, d, p, access, a.host.files[p]))
    BY <2>1 DEF Reopen
  <2>3. CASE a.ok /\ Readable(a.host, p) /\ e = Succeeds(Opened(a.host, d, p, access, a.host.files[p]))
    <3>1. e.host = Opened(a.host, d, p, access, a.host.files[p])
      BY <2>3 DEF Succeeds
    <3> QED BY <1>3, <2>3, <3>1, OpenedSafe
  <2>4. CASE e = Fails(a.host)
    BY <1>3, <2>4 DEF Fails
  <2> QED BY <1>3, <2>2, <2>3, <2>4
<1>5. CASE e # Fails(h) /\ ~SameExistingFile(h, h.mounted[d].path, p)
  <2>1. e \in ReplaceOther(h, d, p, access)
    BY <1>5 DEF Replace
  <2>2. /\ Readable(h, p)
        /\ \E a \in IF h.mounted[d].path = NoPath THEN {Succeeds(h)} ELSE Eject(h, d) :
             e = IF a.ok THEN Succeeds(Opened(a.host, d, p, access, h.files[p])) ELSE a
    BY <1>5, <2>1 DEF ReplaceOther
  <2>3. PICK a \in IF h.mounted[d].path = NoPath THEN {Succeeds(h)} ELSE Eject(h, d) :
          e = IF a.ok THEN Succeeds(Opened(a.host, d, p, access, h.files[p])) ELSE a
    BY <2>2
  <2>4. h.mounted[d].path # p
    BY <1>5, <2>2 DEF SameExistingFile, Readable
  <2>5. /\ Safe(a.host, data) /\ Mountable(a.host, d, p, access)
        /\ a.ok => a.host.mounted[d].path = NoPath
        /\ a.host.files[p] = h.files[p]
    <3>1. CASE h.mounted[d].path = NoPath
      BY <3>1 DEF Succeeds
    <3>2. CASE h.mounted[d].path # NoPath
      BY <1>3, <2>4, <3>2
    <3> QED BY <3>1, <3>2
  <2>6. CASE a.ok
    <3>1. e.host = Opened(a.host, d, p, access, a.host.files[p])
      BY <2>3, <2>5, <2>6 DEF Succeeds
    <3>2. Readable(a.host, p)
      BY <2>2, <2>5 DEF Readable
    <3> QED BY <2>5, <2>6, <3>1, <3>2, OpenedSafe
  <2>7. CASE ~a.ok
    BY <2>3, <2>5, <2>7
  <2> QED BY <2>6, <2>7
<1> QED BY <1>2, <1>4, <1>5

(* A file that is not there has nothing to lose. *)
LEMMA BlankSafe ==
  ASSUME ByteSized, NEW h, NEW data, Safe(h, data), NEW p \in Path, ~Exists(h.files[p])
  PROVE  Safe(WithFile(h, p, Blank), data)
<1> DEFINE g == WithFile(h, p, Blank)
<1>1. HostOK(h) /\ h \in Host /\ FilesAreBytes(h) /\ DisksInOrder(h)
  BY DEF Safe, Sound, HostOK
<1>2. ByteFile(Blank)
  BY BlankIsBytes, ByteFiles
<1>3. HostOK(g)
  BY <1>1, BlankExists, FileKeeps
<1>4. /\ g.media = h.media /\ g.mounted = h.mounted
      /\ g.files[p] = Blank /\ \A q \in Path : q # p => g.files[q] = h.files[q]
  BY <1>1, BlankExists, FileFields
<1> HIDE DEF g
<1>5. Sound(g)
  BY <1>1, <1>2, <1>3, <1>4 DEF Sound, FilesAreBytes, DisksInOrder
<1>6. ASSUME ProperCommandLines PROVE Kept(g, data)
  <2>1. Kept(h, data)
    BY <1>6 DEF Safe
  <2>2. \A d \in Drive : ~WritesTo(h, d, p)
    <3>1. p # NoPath
      BY FilesAssumption
    <3> QED BY <1>1, <3>1 DEF HostOK, DiskOK, WritesTo
  <2>3. ASSUME NEW q \in Path, NEW s \in Sector, data[q][s] # Unknown
        PROVE  KeptAt(g, q, s, data[q][s])
    <3>1. KeptAt(h, q, s, data[q][s])
      BY <2>1, <2>3 DEF Kept, KeptOf
    <3>2. q # p
      BY <2>2, <3>1 DEF KeptAt, InFile
    <3> QED BY <1>4, <3>1, <3>2, KeptStays DEF WritesTo
  <2> QED BY <2>3 DEF Kept, KeptOf
<1> QED BY <1>5, <1>6 DEF Safe, g

LEMMA SelectedSafe ==
  ASSUME ByteSized, NEW h, NEW data, Safe(h, data), NEW r \in Answer, NEW e \in Selected(h, r)
  PROVE  Safe(e.host, data)
<1> DEFINE d == r.request.drive
           p == r.path
           access == r.request.access
<1>1. HostOK(h) /\ h \in Host /\ d \in Drive /\ access \in Accesses /\ p \in Path \cup {NoPath}
  BY DEF Safe, Sound, HostOK, Answer, Request
<1>2. CASE Refused(h, r)
  <2>1. e = Fails(h)
    BY <1>2 DEF Selected
  <2> QED BY <2>1 DEF Fails
<1>3. CASE ~Refused(h, r)
  <2>1. Mountable(h, d, p, access)
    BY <1>1, <1>3, NotRefused
  <2>2. p \in Path
    BY <2>1 DEF Mountable
  <2>3. CASE ~r.request.blank
    <3>1. e \in Replace(h, d, p, access)
      BY <1>3, <2>3 DEF Selected
    <3> HIDE DEF d, p, access
    <3> QED BY <1>1, <2>1, <3>1, ReplaceSafe
  <2>4. CASE r.request.blank
    <3>1. PICK c \in CreateBlank(h, p) : IF c.ok THEN e \in Replace(c.host, d, p, access) ELSE e = c
      BY <1>3, <2>4 DEF Selected
    <3>2. CASE c = Fails(h)
      <4>1. c.host = h /\ c.ok = FALSE
        BY <3>2 DEF Fails
      <4> QED BY <3>1, <4>1
    <3>3. CASE c # Fails(h)
      <4> DEFINE g == WithFile(h, p, Blank)
      <4>1. ~Exists(h.files[p]) /\ c = Succeeds(g)
        BY <3>3 DEF CreateBlank, WithFile
      <4>2. e \in Replace(g, d, p, access)
        BY <3>1, <4>1 DEF Succeeds
      <4> HIDE DEF d, p, access
      <4>3. Safe(g, data)
        BY <2>2, <4>1, BlankSafe
      <4>4. g.mounted = h.mounted
        BY <1>1, <2>2, BlankExists, FileFields
      <4> HIDE DEF g
      <4>5. Mountable(g, d, p, access)
        BY <2>1, <4>4 DEF Mountable
      <4> QED BY <1>1, <4>2, <4>3, <4>5, ReplaceSafe
    <3> QED BY <3>2, <3>3
  <2> QED BY <2>3, <2>4
<1> QED BY <1>2, <1>3

(* At exit both disks are saved, or the exit status says otherwise. *)
LEMMA ExitSafe ==
  ASSUME ByteSized, NEW h, NEW data, Safe(h, data), NEW d \in Drive, NEW e \in EjectAtExit(h, d)
  PROVE  /\ Safe(e.host, data) /\ OthersStay(h, d, e.host)
         /\ e.ok => e.host.mounted[d].path = NoPath
<1>1. CASE h.mounted[d].path = NoPath
  BY <1>1 DEF EjectAtExit, Succeeds, OthersStay
<1>2. CASE h.mounted[d].path # NoPath
  <2>1. e \in Eject(h, d)
    BY <1>2 DEF EjectAtExit
  <2>2. HostOK(h)
    BY DEF Safe, Sound
  <2> QED BY <2>1, <2>2, EjectSafe, EjectOutcome DEF Outcome
<1> QED BY <1>1, <1>2

LEMMA QuitSafe ==
  ASSUME ByteSized, NEW h, NEW data, Safe(h, data),
         NEW a \in EjectAtExit(h, "A"), NEW b \in EjectAtExit(a.host, "B"), NEW g,
         g = Closed(Closed(b.host, "A"), "B")
  PROVE  /\ Sound(g) /\ \A d \in Drive : g.mounted[d].path = NoPath
         /\ a.ok /\ b.ok => Safe(g, data)
<1>1. "A" \in Drive /\ "B" \in Drive /\ "A" # "B" /\ \A d \in Drive : d = "A" \/ d = "B"
  BY DEF Drive
<1>2. Safe(a.host, data) /\ (a.ok => a.host.mounted["A"].path = NoPath)
  BY <1>1, ExitSafe
<1>3. /\ Safe(b.host, data) /\ OthersStay(a.host, "B", b.host)
      /\ b.ok => b.host.mounted["B"].path = NoPath
  BY <1>1, <1>2, ExitSafe
<1> DEFINE k == Closed(b.host, "A")
<1>4. Sound(b.host) /\ b.host \in Host
  BY <1>3 DEF Safe, Sound, HostOK
<1>5. /\ Sound(k) /\ k \in Host /\ k.mounted["A"].path = NoPath /\ k.mounted["B"] = b.host.mounted["B"]
  BY <1>1, <1>4, ClosedSound, ClosedFields
<1>6. g = Closed(k, "B")
  OBVIOUS
<1>7. ASSUME a.ok, b.ok PROVE Safe(g, data)
  <2>1. b.host.mounted["A"].path = NoPath /\ b.host.mounted["B"].path = NoPath
    BY <1>1, <1>2, <1>3, <1>7 DEF OthersStay
  <2>2. Safe(k, data)
    BY <1>1, <1>3, <2>1, NoPathIsNone, ClosedSafe
  <2> HIDE DEF k
  <2> QED BY <1>1, <1>5, <1>6, <2>1, <2>2, NoPathIsNone, ClosedSafe
<1> HIDE DEF k
<1>8. Sound(g) /\ g.mounted["B"].path = NoPath /\ g.mounted["A"] = k.mounted["A"]
  BY <1>1, <1>5, <1>6, ClosedSound, ClosedFields
<1> QED BY <1>1, <1>5, <1>7, <1>8

----------------------------------------------------------------------------
(* The program writes sectors and formats disks.  A data field may begin   *)
(* late by as much as the gaps around it bear, and a format as late as it  *)
(* likes; a format is not given up half way.                               *)

TimelyPrograms ==
  /\ \A late \in Lateness : Small(late)
  /\ \A format \in Formats : format.length >= TrackLength

LEMMA RewrittenFields ==
  ASSUME NEW h \in Host, NEW d \in Drive, NEW disk
  PROVE  LET g == [h EXCEPT !.media[d] = disk]
         IN /\ g.files = h.files /\ g.mounted = h.mounted /\ g.media[d] = disk
            /\ \A o \in Drive : o # d => g.media[o] = h.media[o]
<1> DEFINE g == [h EXCEPT !.media[d] = disk]
<1>1. h.media \in [Drive -> Seq(Int)]
  BY DEF Host
<1>2. g.files = h.files /\ g.mounted = h.mounted /\ g.media = [h.media EXCEPT ![d] = disk]
  BY DEF Host
<1> HIDE DEF g
<1>3. g.media[d] = disk /\ \A o \in Drive : o # d => g.media[o] = h.media[o]
  BY <1>1, <1>2
<1> QED BY <1>2, <1>3 DEF g

(* The drive of a disk that is written is the only one that has its file.  *)
LEMMA OneWriter ==
  ASSUME NEW h, WellMounted(h.mounted), NEW d \in Drive, NEW p \in Path, WritesTo(h, d, p)
  PROVE  \A o \in Drive : WritesTo(h, o, p) => o = d
<1> SUFFICES ASSUME NEW o \in Drive, o # d, WritesTo(h, o, p) PROVE FALSE
  OBVIOUS
<1>1. o = Other(d)
  BY Drives
<1>2. h.mounted[d].path = p /\ h.mounted[d].access = "rw" /\ h.mounted[Other(d)].path = p
  BY <1>1 DEF WritesTo
<1>3. p # NoPath
  BY FilesAssumption
<1> QED BY <1>2, <1>3 DEF WellMounted

LEMMA UsedDisk ==
  ASSUME FilesInv, Safe(host, newest), NEW d \in Drive, ProgramUses(d)
  PROVE  /\ host.mounted[d].path \in Path /\ WritesTo(host, d, host.mounted[d].path)
         /\ host.media[d] # NoDisk /\ InOrder(host.media[d])
<1>1. HostOK(host) /\ host \in Host /\ DisksInOrder(host)
  BY DEF Safe, Sound, HostOK
<1>2. host.media[d] # NoDisk /\ host.mounted[d].access = "rw" /\ host.mounted[d].path # NoPath
  BY <1>1 DEF ProgramUses, HostOK, DiskOK
<1>3. host.mounted[d] \in Mount
  BY <1>1 DEF Host
<1> QED BY <1>1, <1>2, <1>3 DEF Mount, WritesTo, DisksInOrder

(* A disk is changed, and with it what is known of its file. *)
LEMMA RewrittenSafe ==
  ASSUME FilesInv, Safe(host, newest), NEW d \in Drive, ProgramUses(d), HostOK(host'),
         NEW disk, host' = [host EXCEPT !.media[d] = disk], InOrder(disk),
         NEW data, newest' = [newest EXCEPT ![host.mounted[d].path] = data],
         ProperCommandLines =>
           \A s \in Sector : data[s] # Unknown => OnDisk(disk, s, data[s])
  PROVE  Safe(host', newest')
<1> DEFINE p == host.mounted[d].path
<1>1. HostOK(host) /\ host \in Host /\ FilesAreBytes(host) /\ DisksInOrder(host)
  BY DEF Safe, Sound, HostOK
<1>2. p \in Path /\ WritesTo(host, d, p)
  BY UsedDisk
<1>3. newest' = [newest EXCEPT ![p] = data] /\ newest \in [Path -> [Sector -> Value \cup {Unknown}]]
  BY DEF FilesInv, HistoryInv
<1>4. /\ host'.files = host.files /\ host'.mounted = host.mounted /\ host'.media[d] = disk
      /\ \A o \in Drive : o # d => host'.media[o] = host.media[o]
  BY <1>1, RewrittenFields
<1>5. Sound(host')
  BY <1>1, <1>4 DEF Sound, FilesAreBytes, DisksInOrder
<1> HIDE DEF p
<1>6. ASSUME ProperCommandLines PROVE Kept(host', newest')
  <2>1. Kept(host, newest) /\ WellMounted(host.mounted)
    BY <1>1, <1>6 DEF Safe, HostOK
  <2>2. \A o, q : WritesTo(host', o, q) <=> WritesTo(host, o, q)
    BY <1>4 DEF WritesTo
  <2>3. ASSUME NEW q \in Path, NEW s \in Sector, newest'[q][s] # Unknown
        PROVE  KeptAt(host', q, s, newest'[q][s])
    <3>1. CASE q = p
      <4>1. newest'[q] = data
        BY <1>2, <1>3, <3>1
      <4>2. \A o \in Drive : WritesTo(host, o, p) => o = d
        BY <1>2, <2>1, OneWriter
      <4> QED BY <1>2, <1>4, <1>6, <2>2, <2>3, <3>1, <4>1, <4>2 DEF KeptAt
    <3>2. CASE q # p
      <4>1. newest'[q] = newest[q]
        BY <1>2, <1>3, <3>2
      <4>2. KeptAt(host, q, s, newest[q][s])
        BY <2>1, <2>3, <4>1 DEF Kept, KeptOf
      <4>3. ~WritesTo(host, d, q)
        BY <3>2 DEF WritesTo, p
      <4> QED BY <1>4, <2>2, <4>1, <4>2, <4>3, KeptStays
    <3> QED BY <3>1, <3>2
  <2> QED BY <2>3 DEF Kept, KeptOf
<1> QED BY <1>5, <1>6 DEF Safe

LEMMA WriteSafe ==
  ASSUME ByteSized, TimelyPrograms, FilesInv, Safe(host, newest), HostOK(host'),
         NEW d \in Drive, NEW s \in Written, NEW late \in Lateness, ProgramWrites(d, s, late)
  PROVE  Safe(host', newest')
<1> DEFINE old == host.media[d]
           p == host.mounted[d].path
           data == [newest[p] EXCEPT ![s] = last']
<1>1. PICK i \in IdFields(old, s) :
        host' = [host EXCEPT !.media[d] =
                   Overwritten(@, i + 7 + Gap.id + late, DataField(Repeat(DataBytes, last')))]
  BY DEF ProgramWrites
<1> DEFINE disk == Overwritten(old, i + 7 + Gap.id + late, DataField(Repeat(DataBytes, last')))
<1>2. ProgramUses(d) /\ newest' = [newest EXCEPT ![p][s] = last']
  BY DEF ProgramWrites
<1>3. p \in Path /\ WritesTo(host, d, p) /\ InOrder(old)
  BY <1>2, UsedDisk
<1>4. last' \in 0 .. 255
  <2>1. last' = last + 1 /\ last < MaxWrites /\ last \in 0 .. MaxWrites
    BY DEF ProgramWrites, FilesInv, HistoryInv
  <2>2. MaxWrites \in Nat /\ MaxWrites <= 255
    BY FilesAssumption DEF ByteSized
  <2> QED BY <2>1, <2>2
<1>5. s \in Sector /\ Small(late) /\ Sectors <= 255
  BY FilesAssumption DEF ByteSized, TimelyPrograms
<1>6. host' = [host EXCEPT !.media[d] = disk]
  BY <1>1
<1>7. newest \in [Path -> [Sector -> Value \cup {Unknown}]]
  BY DEF FilesInv, HistoryInv
<1> HIDE DEF old, p
<1>8. newest' = [newest EXCEPT ![p] = data]
  BY <1>2
<1>9. newest[p] \in [Sector -> Value \cup {Unknown}]
  BY <1>3, <1>7
<1>10. Rewrites(disk, old, i, late, last')
  BY DEF Rewrites
<1> HIDE DEF disk
<1>11. /\ InOrder(disk) /\ OnDisk(disk, s, last')
       /\ \A t \in Sector : \A w : t # s /\ OnDisk(old, t, w) => OnDisk(disk, t, w)
  BY <1>3, <1>4, <1>5, <1>10, SectorWritten
<1>12. ASSUME ProperCommandLines, NEW t \in Sector, data[t] # Unknown
       PROVE  OnDisk(disk, t, data[t])
  <2>1. CASE t = s
    BY <1>9, <1>11, <2>1
  <2>2. CASE t # s
    <3>1. data[t] = newest[p][t]
      BY <1>9, <2>2
    <3>2. KeptAt(host, p, t, newest[p][t])
      BY <1>3, <1>12, <3>1 DEF Safe, Kept, KeptOf
    <3>3. OnDisk(old, t, newest[p][t])
      BY <1>3, <3>2 DEF KeptAt, old
    <3> QED BY <1>11, <2>2, <3>1, <3>3
  <2> QED BY <2>1, <2>2
<1> HIDE DEF data
<1> QED BY <1>2, <1>6, <1>8, <1>11, <1>12, RewrittenSafe DEF p

LEMMA FormatSafe ==
  ASSUME ByteSized, TimelyPrograms, FilesInv, Safe(host, newest), HostOK(host'),
         NEW d \in Drive, NEW format \in Formats, ProgramFormats(d, format)
  PROVE  Safe(host', newest')
<1> DEFINE old == host.media[d]
           length == Min({format.length, Len(old)})
           bytes == Repeat(format.late, 255) \o Import(Number, Blank)
           disk == Overwritten(old, 1, SubSeq(bytes, 1, length))
<1>1. /\ ProgramUses(d) /\ host' = [host EXCEPT !.media[d] = disk]
      /\ newest' = [newest EXCEPT ![host.mounted[d].path] = [s \in Sector |-> Unknown]]
  BY DEF ProgramFormats
<1>2. InOrder(old)
  BY <1>1, UsedDisk
<1>3. Ints(old, TrackLength) /\ Len(old) = TrackLength /\ TrackLength \in Nat
  BY <1>2, LayoutInts DEF InOrder, Ints
<1>4. format.late \in Nat /\ length = TrackLength
  <2>1. format.late \in Nat /\ format.length \in Nat /\ format.length >= TrackLength
    BY FilesAssumption DEF TimelyPrograms
  <2>2. length = TrackLength
    BY <1>3, <2>1, LeastLength
  <2> QED BY <2>1, <2>2
<1>5. disk = Overwritten(old, 1, SubSeq(bytes, 1, TrackLength))
  BY <1>4
<1> HIDE DEF disk, old, length
<1>6. InOrder(disk)
  BY <1>3, <1>4, <1>5, FormatInOrder DEF ByteSized
<1> DEFINE data == [s \in Sector |-> Unknown]
<1>7. \A s \in Sector : data[s] # Unknown => OnDisk(disk, s, data[s])
  OBVIOUS
<1>8. newest' = [newest EXCEPT ![host.mounted[d].path] = data]
  BY <1>1
<1> HIDE DEF data
<1> QED BY <1>1, <1>6, <1>7, <1>8, RewrittenSafe

(* Another program damages a file: what was in it is no longer known,      *)
(* unless a disk in a drive is to be saved over it.                        *)
LEMMA DamageSafe ==
  ASSUME FilesInv, Safe(host, newest), HostOK(host'), NEW p \in Path \ Protected, HostDamages(p)
  PROVE  Safe(host', newest')
<1>1. HostOK(host) /\ host \in Host /\ FilesAreBytes(host) /\ DisksInOrder(host)
  BY DEF Safe, Sound, HostOK
<1>2. host' = WithFile(host, p, Damaged) /\ Exists(host.files[p])
  BY DEF HostDamages, WithFile
<1>3. Damaged \in Seq(Int) /\ ByteFile(Damaged)
  BY EmptySeq DEF Damaged, NoImage, ByteFile
<1>4. /\ host'.media = host.media /\ host'.mounted = host.mounted /\ host'.files[p] = Damaged
      /\ \A q \in Path : q # p => host'.files[q] = host.files[q]
  BY <1>1, <1>2, <1>3, FileFields
<1>5. Sound(host')
  BY <1>1, <1>3, <1>4 DEF Sound, FilesAreBytes, DisksInOrder
<1>6. newest \in [Path -> [Sector -> Value \cup {Unknown}]]
  BY DEF FilesInv, HistoryInv
<1>7. /\ newest' \in [Path -> [Sector -> Value \cup {Unknown}]]
      /\ \A q \in Path : q # p => newest'[q] = newest[q]
      /\ IF \E d \in Drive : WritesTo(host, d, p) THEN newest'[p] = newest[p]
         ELSE \A s \in Sector : newest'[p][s] = Unknown
  BY <1>6 DEF HostDamages, WritesTo
<1>8. ASSUME ProperCommandLines PROVE Kept(host', newest')
  <2>1. Kept(host, newest)
    BY <1>8 DEF Safe
  <2>2. \A o, q : WritesTo(host', o, q) <=> WritesTo(host, o, q)
    BY <1>4 DEF WritesTo
  <2>3. ASSUME NEW q \in Path, NEW s \in Sector, newest'[q][s] # Unknown
        PROVE  KeptAt(host', q, s, newest'[q][s])
    <3>1. CASE q = p
      <4>1. (\E d \in Drive : WritesTo(host, d, p)) /\ newest'[p] = newest[p]
        BY <1>7, <2>3, <3>1
      <4>2. KeptAt(host, p, s, newest[p][s])
        BY <2>1, <2>3, <3>1, <4>1 DEF Kept, KeptOf
      <4> QED BY <1>4, <2>2, <3>1, <4>1, <4>2 DEF KeptAt
    <3>2. CASE q # p
      <4>1. newest'[q] = newest[q]
        BY <1>7, <3>2
      <4>2. KeptAt(host, q, s, newest[q][s])
        BY <2>1, <2>3, <4>1 DEF Kept, KeptOf
      <4> QED BY <1>4, <2>2, <3>2, <4>1, <4>2, KeptStays
    <3> QED BY <3>1, <3>2
  <2> QED BY <2>3 DEF Kept, KeptOf
<1> QED BY <1>5, <1>8 DEF Safe

(* While the program is not running no disk is in a drive.                 *)
Ended(h) == \A d \in Drive : h.mounted[d].path = NoPath

LEMMA StartSafe ==
  ASSUME ByteSized, Safe(host, newest), Ended(host), HostOK(host'),
         NEW commandLine \in CommandLines, Start(commandLine)
  PROVE  Safe(host', newest)
<1> DEFINE file(d) == host.files[commandLine[d].path]
           disk(d) == IF commandLine[d].path = NoPath THEN NoDisk ELSE Import(Number, file(d))
<1>1. /\ HostOK(host) /\ host \in Host /\ FilesAreBytes(host)
      /\ commandLine \in [Drive -> Mount] /\ Sectors <= 255
  BY CommandLineAssumption DEF Safe, Sound, HostOK, ByteSized
<1>2. /\ host'.files = host.files /\ host'.mounted = commandLine
      /\ host'.media = [d \in Drive |-> disk(d)]
  BY <1>1 DEF Start, Host
<1>3. ASSUME NEW d \in Drive, commandLine[d].path # NoPath
      PROVE  /\ Exists(file(d)) /\ Len(file(d)) = ImageSize
             /\ InOrder(host'.media[d])
             /\ \A s \in Sector : \A v : InFile(file(d), s, v) => OnDisk(host'.media[d], s, v)
  <2>1. commandLine[d].path \in Path /\ Readable(host, commandLine[d].path)
    BY <1>1, <1>3 DEF Start, Mount
  <2>2. Exists(file(d)) /\ Len(file(d)) = ImageSize
    BY <2>1 DEF Readable
  <2>3. ByteImage(file(d))
    BY <1>1, <2>1, <2>2, ByteFiles DEF FilesAreBytes
  <2>4. host'.media[d] = Import(Number, file(d))
    BY <1>2, <1>3
  <2> HIDE DEF file
  <2> QED BY <1>1, <2>2, <2>3, <2>4, ImportInOrder DEF InFile
<1>4. \A d \in Drive : commandLine[d].path = NoPath => host'.media[d] = NoDisk
  BY <1>2
<1> HIDE DEF disk
<1>5. Sound(host')
  BY <1>1, <1>2, <1>3, <1>4 DEF Sound, FilesAreBytes, DisksInOrder
<1>6. ASSUME ProperCommandLines PROVE Kept(host', newest)
  <2>1. Kept(host, newest)
    BY <1>6 DEF Safe
  <2>2. ASSUME NEW p \in Path, NEW s \in Sector, newest[p][s] # Unknown
        PROVE  KeptAt(host', p, s, newest[p][s])
    <3>1. KeptAt(host, p, s, newest[p][s])
      BY <2>1, <2>2 DEF Kept, KeptOf
    <3>2. InFile(host.files[p], s, newest[p][s])
      BY <3>1, NoPathIsNone DEF Ended, KeptAt
    <3>3. ASSUME NEW d \in Drive, WritesTo(host', d, p) PROVE OnDisk(host'.media[d], s, newest[p][s])
      <4>1. commandLine[d].path = p /\ p # NoPath
        BY <1>2, <3>3, FilesAssumption DEF WritesTo
      <4> QED BY <1>3, <3>2, <4>1
    <3> QED BY <1>2, <3>2, <3>3 DEF KeptAt
  <2> QED BY <2>2 DEF Kept, KeptOf
<1> QED BY <1>5, <1>6 DEF Safe

LEMMA NothingKept == ASSUME NEW h, Sound(h) PROVE Safe(h, NothingKnown)
BY DEF Safe, Kept, KeptOf, NothingKnown

----------------------------------------------------------------------------
(* The inductive invariant. *)

KeepingInv == FilesInv /\ Safe(host, newest) /\ (stage = "exited" => Ended(host))

LEMMA InitialKeepingInv == ASSUME ByteSized PROVE FilesInit => KeepingInv
<1> SUFFICES ASSUME FilesInit PROVE KeepingInv
  OBVIOUS
<1>1. FilesInv /\ HostOK(host)
  BY InitialFilesInv DEF FilesInv
<1>2. /\ host.files = InitialFiles /\ newest = NothingKnown
      /\ \A d \in Drive : host.media[d] = NoDisk /\ host.mounted[d] = NoMount
  BY DEF FilesInit
<1>3. Sound(host)
  BY <1>1, <1>2 DEF Sound, FilesAreBytes, DisksInOrder, ByteSized
<1>4. Ended(host)
  BY <1>2 DEF Ended, NoMount
<1> QED BY <1>1, <1>2, <1>3, <1>4, NothingKept DEF KeepingInv

LEMMA KeepingStep ==
  ASSUME ByteSized, TimelyPrograms, KeepingInv, [FilesNext]_fvars
  PROVE  KeepingInv'
<1>1. FilesInv /\ Safe(host, newest) /\ FilesInv' /\ HostOK(host') /\ HostOK(host)
  BY FilesInvStep DEF KeepingInv, FilesInv
<1>2. results \in Seq(Answer) /\ Sound(host)
  BY <1>1 DEF FilesInv, DialogInv, Safe
<1>3. CASE UNCHANGED <<host, newest, stage>>
  BY <1>1, <1>3 DEF KeepingInv
<1>4. ASSUME NEW commandLine \in CommandLines, Start(commandLine) PROVE KeepingInv'
  <2>1. stage = "exited" /\ stage' = "running" /\ newest' = newest
    BY <1>4 DEF Start
  <2>2. Safe(host', newest)
    BY <1>1, <1>4, <2>1, StartSafe DEF KeepingInv
  <2> QED BY <1>1, <2>1, <2>2 DEF KeepingInv
<1>5. CASE ProcessFileDialogResults
  <2>1. PICK e \in Selected(host, Head(results)) : host' = e.host
    BY <1>5 DEF ProcessFileDialogResults
  <2>2. Head(results) \in Answer
    BY <1>2, <1>5, HeadTailProperties DEF ProcessFileDialogResults
  <2>3. Safe(host', newest)
    BY <1>1, <2>1, <2>2, SelectedSafe
  <2>4. stage' = "running" /\ newest' = newest
    BY <1>5 DEF ProcessFileDialogResults
  <2> QED BY <1>1, <2>3, <2>4 DEF KeepingInv
<1>6. ASSUME NEW d \in Drive, EjectDisk(d) PROVE KeepingInv'
  <2>1. PICK e \in Eject(host, d) : host' = e.host
    BY <1>6 DEF EjectDisk
  <2>2. Safe(host', newest)
    BY <1>1, <2>1, EjectSafe
  <2>3. stage' = "running" /\ newest' = newest
    BY <1>6 DEF EjectDisk
  <2> QED BY <1>1, <2>2, <2>3 DEF KeepingInv
<1>7. ASSUME NEW d \in Drive, NEW s \in Written, NEW late \in Lateness, ProgramWrites(d, s, late)
      PROVE  KeepingInv'
  <2>1. stage' = "running"
    BY <1>7 DEF ProgramWrites, ProgramUses
  <2> QED BY <1>1, <1>7, <2>1, WriteSafe DEF KeepingInv
<1>8. ASSUME NEW d \in Drive, NEW format \in Formats, ProgramFormats(d, format) PROVE KeepingInv'
  <2>1. stage' = "running"
    BY <1>8 DEF ProgramFormats, ProgramUses
  <2> QED BY <1>1, <1>8, <2>1, FormatSafe DEF KeepingInv
<1>9. ASSUME NEW p \in Path \ Protected, HostDamages(p) PROVE KeepingInv'
  <2>1. Safe(host', newest')
    BY <1>1, <1>9, DamageSafe
  <2>2. host'.mounted = host.mounted /\ stage' = stage
    <3>1. host \in Host
      BY <1>1 DEF HostOK
    <3> QED BY <1>9, <3>1 DEF HostDamages, Host
  <2> QED BY <1>1, <2>1, <2>2 DEF KeepingInv, Ended
<1>10. CASE Quit
  <2>1. PICK a \in EjectAtExit(host, "A") : \E b \in EjectAtExit(a.host, "B") :
          /\ host' = Closed(Closed(b.host, "A"), "B")
          /\ newest' = IF a.ok /\ b.ok THEN newest ELSE NothingKnown
    BY <1>10 DEF Quit
  <2>2. PICK b \in EjectAtExit(a.host, "B") :
          /\ host' = Closed(Closed(b.host, "A"), "B")
          /\ newest' = IF a.ok /\ b.ok THEN newest ELSE NothingKnown
    BY <2>1
  <2>3. Sound(host') /\ Ended(host') /\ (a.ok /\ b.ok => Safe(host', newest))
    BY <1>1, <2>2, QuitSafe DEF Ended
  <2>4. Safe(host', newest')
    BY <2>2, <2>3, NothingKept
  <2> QED BY <1>1, <2>3, <2>4 DEF KeepingInv
<1>11. CASE FilesNext
  <2>1. CASE \E request \in Request : ShowDiskDialog(request)
    BY <1>3, <2>1 DEF ShowDiskDialog
  <2>2. CASE \E path \in Path \cup {NoPath} : FileDialogCallback(path)
    BY <1>3, <2>2 DEF FileDialogCallback
  <2>3. CASE ResetMachine \/ TogglePause
    BY <1>3, <2>3 DEF ResetMachine, TogglePause
  <2> QED BY <1>4, <1>5, <1>6, <1>7, <1>8, <1>9, <1>10, <1>11, <2>1, <2>2, <2>3 DEF FilesNext
<1> QED BY <1>3, <1>11 DEF fvars

LEMMA KeepingInvariance ==
  ASSUME ByteSized, TimelyPrograms
  PROVE  FilesSpec => []KeepingInv
<1>1. KeepingInv /\ [FilesNext]_fvars => KeepingInv'
  BY KeepingStep
<1> QED BY <1>1, InitialKeepingInv, PTL DEF FilesSpec

(* However a disk has been written and formatted, the image it is          *)
(* converted to has in each sector what a program reads there, which is    *)
(* the same wherever the head comes down.                                  *)
THEOREM SavedAlwaysRead ==
  ASSUME ByteSized, TimelyPrograms
  PROVE  FilesSpec => []SavedIsRead
<1>1. ASSUME KeepingInv PROVE SavedIsRead
  <2>1. DisksInOrder(host) /\ Sectors <= 255
    BY <1>1 DEF KeepingInv, Safe, Sound, ByteSized
  <2>2. ASSUME NEW d \in Drive, Export(Number, host.media[d]) # NoImage, NEW s \in Sector
        PROVE  Reads(host.media[d], s) = {SectorData(Export(Number, host.media[d]), s)}
    <3>1. host.media[d] # NoDisk
      BY <2>2, NoDiskNoImage
    <3>2. InOrder(host.media[d])
      BY <2>1, <3>1 DEF DisksInOrder
    <3> QED BY <2>1, <2>2, <3>2, ExportRead
  <2> QED BY <2>2 DEF SavedIsRead
<1>2. KeepingInv => SavedIsRead
  BY <1>1
<1> QED BY <1>2, KeepingInvariance, PTL

(* What the program wrote last to a sector of a disk mounted for writing   *)
(* can be read from the disk in the drive or is in the file, through every *)
(* failed or successful save, eject, replacement, exit that reports        *)
(* success and new start, and through both conversions: unless the command *)
(* line has mounted one file twice or a protected one.                     *)
THEOREM NoWriteEverLost ==
  ASSUME ByteSized, TimelyPrograms, ProperCommandLines
  PROVE  FilesSpec => []NoWriteIsLost
<1>1. ASSUME KeepingInv PROVE NoWriteIsLost
  <2>1. Kept(host, newest) /\ Sectors <= 255
    BY <1>1, ProperCommandLines DEF KeepingInv, Safe, ByteSized
  <2>2. ASSUME NEW p \in Path, NEW s \in Sector, newest[p][s] # Unknown
        PROVE  LET data == Repeat(DataBytes, newest[p][s])
               IN \/ Readable(host, p) /\ SectorData(host.files[p], s) = data
                  \/ \E d \in Drive : host.mounted[d].path = p /\ Reads(host.media[d], s) = {data}
    <3> DEFINE data == Repeat(DataBytes, newest[p][s])
    <3>1. KeptAt(host, p, s, newest[p][s])
      BY <2>1, <2>2 DEF Kept, KeptOf
    <3>2. CASE \E d \in Drive : WritesTo(host, d, p)
      <4>1. PICK d \in Drive : WritesTo(host, d, p)
        BY <3>2
      <4>2. OnDisk(host.media[d], s, newest[p][s])
        BY <3>1, <4>1 DEF KeptAt
      <4>3. Reads(host.media[d], s) = {data}
        BY <2>1, <4>2, SectorRead
      <4>4. host.mounted[d].path = p
        BY <4>1 DEF WritesTo
      <4> QED BY <4>3, <4>4
    <3>3. CASE \A d \in Drive : ~WritesTo(host, d, p)
      <4>1. InFile(host.files[p], s, newest[p][s])
        BY <3>1, <3>3 DEF KeptAt
      <4>2. p # NoPath
        BY FilesAssumption
      <4> QED BY <4>1, <4>2 DEF InFile, Readable
    <3> QED BY <3>2, <3>3
  <2> QED BY <2>2 DEF NoWriteIsLost
<1>2. KeepingInv => NoWriteIsLost
  BY <1>1
<1> QED BY <1>2, KeepingInvariance, PTL
=============================================================================
