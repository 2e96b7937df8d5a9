---------------------- MODULE MachineInterrupts_proofs ----------------------
(***************************************************************************)
(* Proofs about the interrupts of class Machine: the line of the Z80 and   *)
(* the vector follow their sources, and the program reads the latest key,  *)
(* for every keyboard, every set of other requests and every mask.         *)
(***************************************************************************)
EXTENDS MachineInterrupts, Ppi8255Lemmas, TLAPS

----------------------------------------------------------------------------
(* The 3214. *)

(* Of some inputs one is the highest and one the lowest. *)
LEMMA Extremes ==
  ASSUME NEW S \in SUBSET (0 .. 8), S # {}
  PROVE  /\ Max(S) \in S /\ \A x \in S : Max(S) >= x
         /\ Min(S) \in S /\ \A x \in S : Min(S) <= x
<1>1. PICK s \in S : TRUE
  OBVIOUS
<1>2. s \in 0 .. 8 /\ \A x \in S : x \in 0 .. 8
  OBVIOUS
<1>3. \E m \in S : \A x \in S : m >= x
  BY <1>1, <1>2, SMTT(60)
<1>4. \E m \in S : \A x \in S : m <= x
  BY <1>1, <1>2, SMTT(60)
<1>5. Max(S) \in S /\ \A x \in S : Max(S) >= x
  BY <1>3, Zenon DEF Max
<1>6. Min(S) \in S /\ \A x \in S : Min(S) <= x
  BY <1>4, Zenon DEF Min
<1> QED BY <1>5, <1>6

LEMMA TableEntries ==
  \A n \in 1 .. 8 : VectorTable[n].input = 8 - n /\ VectorTable[n].vector = 2 * (n - 1)
BY DEF VectorTable

(* The controller's answers are those of the table of vectors. *)
LEMMA TableIsFollowed ==
  ASSUME NEW in \in SUBSET Input, NEW m \in 0 .. 8
  PROVE  LET requesting == {n \in 1 .. m : VectorTable[n].input \in in}
         IN /\ Pending(in, m) = (requesting # {})
            /\ Pending(in, m) => Vector(in, m) = VectorTable[Min(requesting)].vector
<1> DEFINE requesting == {n \in 1 .. m : VectorTable[n].input \in in}
<1>1. requesting = {n \in 1 .. m : 8 - n \in in}
  BY TableEntries
<1>2. Active(in, m) = {i \in in : i >= 8 - m}
  BY DEF Active, Enabled, Input
<1> HIDE DEF requesting
<1>0. \A i \in in : i \in 0 .. 7
  BY DEF Input
<1>3. \A n \in requesting : 8 - n \in Active(in, m)
  BY <1>1, <1>2
<1>4. \A i \in Active(in, m) : 8 - i \in requesting
  <2> SUFFICES ASSUME NEW i \in in, i >= 8 - m PROVE 8 - i \in requesting
    BY <1>2
  <2>1. i \in 0 .. 7 /\ 8 - i \in 1 .. m /\ 8 - (8 - i) = i
    BY <1>0
  <2> QED BY <1>1, <2>1
<1>5. Pending(in, m) = (requesting # {})
  BY <1>3, <1>4 DEF Pending
<1>6. ASSUME Pending(in, m) PROVE Vector(in, m) = VectorTable[Min(requesting)].vector
  <2> DEFINE hi == Max(Active(in, m))
             lo == Min(requesting)
  <2>1. hi \in Active(in, m) /\ \A i \in Active(in, m) : hi >= i
    <3>1. Active(in, m) \in SUBSET (0 .. 8) /\ Active(in, m) # {}
      BY <1>0, <1>2, <1>6 DEF Pending
    <3> QED BY <3>1, Extremes
  <2>2. lo \in requesting /\ \A n \in requesting : lo <= n
    <3>1. requesting \in SUBSET (0 .. 8) /\ requesting # {}
      <4>1. \A n \in 1 .. m : n \in 0 .. 8
        OBVIOUS
      <4> QED BY <1>1, <1>5, <1>6, <4>1
    <3> QED BY <3>1, Extremes
  <2> HIDE DEF hi, lo
  <2>3. hi \in 0 .. 7 /\ lo \in 1 .. 8
    BY <1>0, <1>1, <1>2, <2>1, <2>2
  <2>4. lo = 8 - hi
    BY <1>3, <1>4, <2>1, <2>2, <2>3
  <2>5. VectorTable[lo].vector = 2 * (7 - hi)
    BY <2>3, <2>4, TableEntries
  <2> QED BY <2>5 DEF Vector, hi, lo
<1> QED BY <1>5, <1>6 DEF requesting

----------------------------------------------------------------------------
(* The keyboard. *)

LEMMA KeyboardTypes ==
  ASSUME NEW k \in KeyboardState
  PROVE  /\ ResetKeyboard \in KeyboardState
         /\ \A key \in Key, code \in Code : KeyPressed(k, key, code) \in KeyboardState
         /\ \A key \in Key : KeyReleased(k, key) \in KeyboardState
         /\ \A ticks \in Nat : Waited(k, ticks) \in KeyboardState
<1>1. RepeatDelay \in Nat \ {0} /\ RepeatInterval \in Nat \ {0} /\ RepeatInterval <= RepeatDelay
  BY KeyboardAssumption
<1>2. k.held \in Press \cup {NoPress} /\ k.wait \in 1 .. RepeatDelay
  BY DEF KeyboardState
<1>3. ResetKeyboard \in KeyboardState
  BY <1>1 DEF ResetKeyboard, KeyboardState
<1>4. ASSUME NEW key \in Key, NEW code \in Code PROVE KeyPressed(k, key, code) \in KeyboardState
  <2>1. [key |-> key, code |-> code] \in Press
    BY DEF Press
  <2>2. [held |-> [key |-> key, code |-> code], wait |-> RepeatDelay] \in KeyboardState
    BY <1>1, <2>1 DEF KeyboardState
  <2> QED BY <2>2 DEF KeyPressed
<1>5. ASSUME NEW key \in Key PROVE KeyReleased(k, key) \in KeyboardState
  BY <1>3 DEF KeyReleased
<1>6. ASSUME NEW ticks \in Nat PROVE Waited(k, ticks) \in KeyboardState
  <2>1. CASE ticks < k.wait
    <3>1. k.wait - ticks \in 1 .. RepeatDelay
      BY <1>1, <1>2, <2>1
    <3> QED BY <1>2, <2>1, <3>1 DEF Waited, KeyboardState
  <2>2. CASE ~(ticks < k.wait)
    <3>1. (ticks - k.wait) % RepeatInterval \in 0 .. RepeatInterval - 1
      BY <1>1, <1>2
    <3>2. RepeatInterval - ((ticks - k.wait) % RepeatInterval) \in 1 .. RepeatDelay
      BY <1>1, <3>1
    <3> QED BY <1>2, <2>2, <3>2 DEF Waited, KeyboardState
  <2> QED BY <2>1, <2>2
<1> QED BY <1>3, <1>4, <1>5, <1>6

(* Only a key that is held repeats. *)
LEMMA RepeatsAreOfHeld ==
  ASSUME NEW k \in KeyboardState, NEW ticks, Repeats(k, ticks) > 0
  PROVE  k.held \in Press /\ k.held.code \in Code
BY DEF Repeats, KeyboardState, Press

----------------------------------------------------------------------------
(* The 8255 under the control words this machine has. *)

LEMMA Words == DeskWord \in ControlWord /\ ResetWord \in ControlWord
BY DEF DeskWord, ResetWord, ControlWord

LEMMA Wires ==
  /\ \A byte \in Byte : Complement(byte) \in Byte
  /\ Code \subseteq Byte
BY InterruptAssumption DEF Complement

(* The pin of the printer moves no request. *)
LEMMA PinsSettle ==
  ASSUME NEW p, SettledPpi(p), NEW on
  PROVE  /\ SettledPpi(PrinterPins(p, on))
         /\ PrinterPins(p, on).a = p.a /\ PrinterPins(p, on).b = p.b
<1> DEFINE q == PrinterPins(p, on)
<1>1. p \in PpiState /\ p.a.intr = Request(p.a) /\ p.b.intr = Request(p.b)
  BY SettledPins DEF SettledPpi
<1>2. (IF on THEN {5} ELSE {}) \in SUBSET Bit
  BY DEF Bit
<1>3. q \in PpiState /\ q.a = p.a /\ q.b = p.b
  BY <1>1, <1>2 DEF PrinterPins, PpiState
<1> QED BY <1>1, <1>3, SettledPins DEF SettledPpi

LEMMA RequestsAreInputs ==
  ASSUME NEW p, NEW l, NEW o \in SUBSET OtherInput
  PROVE  Sources(p, l, o) \subseteq Input
BY InterruptAssumption DEF Sources, Input

----------------------------------------------------------------------------
(* The interrupt line. *)

LineInv ==
  /\ TypeOK /\ SettledPpi(ppi)
  /\ inputs = Sources(ppi, latches, others)
  /\ line = Pending(inputs, mask)

(* Every operation that ends in refresh_interrupt_sources restores what it *)
(* may have broken.                                                        *)
LEMMA RefreshedLine ==
  ASSUME (/\ SettledPpi(ppi) /\ kb \in KeyboardState
          /\ gates \subseteq {"video", "mouse"} /\ latches \subseteq {"video", "mouse"}
          /\ others \subseteq OtherInput /\ mask \in 0 .. 8
          /\ online \in BOOLEAN /\ queue \in Seq(Byte) /\ pressed \in Byte
          /\ unread \in BOOLEAN /\ answer \in {"none", "taken", "refused"})',
         RefreshInterruptSources
  PROVE  LineInv'
<1>1. inputs' = Sources(ppi', latches', others') /\ line' = Pending(inputs', mask')
  BY DEF RefreshInterruptSources
<1>2. inputs' \subseteq Input
  BY <1>1, RequestsAreInputs
<1>3. line' \in BOOLEAN
  BY <1>1 DEF Pending
<1>4. ppi' \in PpiState
  BY DEF SettledPpi
<1>5. TypeOK'
  BY <1>2, <1>3, <1>4 DEF TypeOK
<1> QED BY <1>1, <1>5 DEF LineInv

LEMMA LineStep == LineInv /\ [Next]_vars => LineInv'
<1> SUFFICES ASSUME LineInv, [Next]_vars PROVE LineInv'
  OBVIOUS
<1>0. /\ TypeOK /\ SettledPpi(ppi) /\ ppi \in PpiState
      /\ inputs = Sources(ppi, latches, others) /\ line = Pending(inputs, mask)
  BY DEF LineInv, TypeOK
<1>1. CASE Reset
  <2>1. SettledPpi(ppi')
    BY <1>1, ResetSettles, PinsSettle DEF Reset, ResetDesk
  <2>2. kb' \in KeyboardState
    BY <1>0, <1>1, KeyboardTypes DEF Reset, ResetDesk, TypeOK
  <2>3. /\ gates' = {} /\ latches' = {} /\ others' = {} /\ mask' = 0
        /\ unread' = FALSE /\ answer' = "none"
        /\ online' = online /\ queue' = queue /\ pressed' = pressed
    BY <1>1 DEF Reset, ResetDesk
  <2>4. /\ 0 \in 0 .. 8 /\ online' \in BOOLEAN /\ queue' \in Seq(Byte) /\ pressed' \in Byte
    BY <1>0, <2>3 DEF TypeOK
  <2>5. RefreshInterruptSources
    BY <1>1 DEF Reset
  <2>6. (SettledPpi(ppi) /\ kb \in KeyboardState)'
    BY <2>1, <2>2 DEF SettledPpi, KeyboardState, Press
  <2> QED BY <2>3, <2>4, <2>5, <2>6, RefreshedLine
<1>2. ASSUME NEW key \in Key, NEW code \in Code, KeyDown(key, code) PROVE LineInv'
  <2>1. kb' \in KeyboardState
    BY <1>0, <1>2, KeyboardTypes DEF KeyDown, TypeOK
  <2>2. CASE Emits(kb, key)
    <3>1. SettledPpi(ppi')
      BY <1>0, <1>2, <2>2, Wires, DeviceOperationsSettle DEF KeyDown, Delivered
    <3>2. pressed' \in Byte /\ unread' \in BOOLEAN
      BY <1>2, <2>2, Wires DEF KeyDown, DeskProgrammed
    <3> QED BY <1>0, <1>2, <2>1, <2>2, <3>1, <3>2, RefreshedLine DEF KeyDown, TypeOK, SettledPpi,
               KeyboardState, Press, printer
  <2>3. CASE ~Emits(kb, key)
    BY <1>0, <1>2, <2>1, <2>3 DEF KeyDown, LineInv, TypeOK, SettledPpi, Sources, KeyboardState,
       Press, printer
  <2> QED BY <2>2, <2>3
<1>3. ASSUME NEW key \in Key, KeyUp(key) PROVE LineInv'
  <2>1. kb' \in KeyboardState
    BY <1>0, <1>3, KeyboardTypes DEF KeyUp, TypeOK
  <2> QED BY <1>0, <1>3, <2>1 DEF KeyUp, LineInv, TypeOK, SettledPpi, Sources, KeyboardState,
             Press, printer
<1>4. CASE MouseMoves
  BY <1>0, <1>4, RefreshedLine DEF MouseMoves, TypeOK, SettledPpi, KeyboardState, Press, printer, keys
<1>5. ASSUME NEW on \in BOOLEAN, SetPrinterOnline(on) PROVE LineInv'
  <2>1. SettledPpi(ppi') /\ ppi'.a = ppi.a /\ ppi'.b = ppi.b
    BY <1>0, <1>5, PinsSettle DEF SetPrinterOnline
  <2> QED BY <1>0, <1>5, <2>1 DEF SetPrinterOnline, LineInv, TypeOK, SettledPpi, Sources,
             KeyboardState, Press, keys
<1>6. CASE TakePrinterByte
  <2>1. queue' \in Seq(Byte)
    BY <1>0, <1>6 DEF TakePrinterByte, TypeOK
  <2> QED BY <1>0, <1>6, <2>1 DEF TakePrinterByte, LineInv, TypeOK, SettledPpi, Sources,
             KeyboardState, Press, keys
<1>7. ASSUME NEW pulses \in SUBSET {"video", "mouse"}, AdvanceTime(1, pulses) PROVE LineInv'
  <2>1. kb' \in KeyboardState
    BY <1>0, <1>7, KeyboardTypes DEF AdvanceTime, TypeOK
  <2>2. SettledPpi(ppi') /\ unread' \in BOOLEAN
    <3>1. CASE Repeats(kb, 1) > 0
      <4>1. Complement(kb.held.code) \in Byte
        BY <1>0, <3>1, RepeatsAreOfHeld, Wires DEF TypeOK
      <4> QED BY <1>0, <1>7, <3>1, <4>1, DeviceOperationsSettle DEF AdvanceTime, Delivered,
                 DeskProgrammed
    <3>2. CASE ~(Repeats(kb, 1) > 0)
      BY <1>0, <1>7, <3>2 DEF AdvanceTime, TypeOK
    <3> QED BY <3>1, <3>2
  <2>3. latches' \subseteq {"video", "mouse"}
    BY <1>0, <1>7 DEF AdvanceTime, LatchPulses, TypeOK
  <2> QED BY <1>0, <1>7, <2>1, <2>2, <2>3, RefreshedLine DEF AdvanceTime, TypeOK, SettledPpi,
             KeyboardState, Press, printer
<1>8. ASSUME NEW levels \in SUBSET OtherInput, OtherRequest(levels) PROVE LineInv'
  BY <1>0, <1>8, RefreshedLine DEF OtherRequest, TypeOK, SettledPpi, KeyboardState, Press, printer,
     keys
<1>9. ASSUME NEW cw \in {DeskWord, ResetWord}, OutControlWord(cw) PROVE LineInv'
  <2>1. SettledPpi(ppi')
    BY <1>0, <1>9, Words, CpuOperationsSettle DEF OutControlWord
  <2> QED BY <1>0, <1>9, <2>1, RefreshedLine DEF OutControlWord, TypeOK, SettledPpi, KeyboardState,
             Press
<1>10. ASSUME NEW bit \in {2, 6}, NEW set \in BOOLEAN, OutInte(bit, set) PROVE LineInv'
  <2>1. SettledPpi(ppi')
    BY <1>0, <1>10, CpuOperationsSettle DEF OutInte, Bit
  <2> QED BY <1>0, <1>10, <2>1, RefreshedLine DEF OutInte, TypeOK, SettledPpi, KeyboardState,
             Press, printer, keys
<1>11. ASSUME NEW byte \in Byte, OutPortA(byte) PROVE LineInv'
  <2> DEFINE written == WriteA(ppi, byte)
  <2>1. SettledPpi(written)
    BY <1>0, CpuOperationsSettle
  <2>2. written.a.out \in Byte
    BY <2>1 DEF SettledPpi, PpiState, Group
  <2>3. SettledPpi(PulseAckA(written))
    BY <2>1, DeviceOperationsSettle
  <2>4. SettledPpi(ppi')
    BY <1>11, <2>1, <2>3 DEF OutPortA
  <2>5. queue' \in Seq(Byte)
    BY <1>0, <1>11, <2>2 DEF OutPortA, TypeOK
  <2>6. answer' \in {"none", "taken", "refused"}
    BY <1>11 DEF OutPortA
  <2> QED BY <1>0, <1>11, <2>4, <2>5, <2>6, RefreshedLine DEF OutPortA, TypeOK, SettledPpi,
             KeyboardState, Press, keys
<1>12. CASE InPortB
  <2>1. SettledPpi(ppi')
    BY <1>0, <1>12, CpuOperationsSettle DEF InPortB
  <2> QED BY <1>0, <1>12, <2>1, RefreshedLine DEF InPortB, TypeOK, SettledPpi, KeyboardState,
             Press, printer
<1>13. ASSUME NEW byte \in MaskByte, OutMask(byte) PROVE LineInv'
  <2>1. byte \in Nat
    BY InterruptAssumption
  <2>2. MaskOf(byte) \in 0 .. 8
    <3>1. \E m \in {byte, 8} : \A x \in {byte, 8} : m <= x
      BY <2>1
    <3>2. Min({byte, 8}) \in {byte, 8} /\ \A x \in {byte, 8} : Min({byte, 8}) <= x
      BY <3>1, Zenon DEF Min
    <3> QED BY <2>1, <3>2 DEF MaskOf
  <2> QED BY <1>0, <1>13, <2>2, RefreshedLine DEF OutMask, TypeOK, SettledPpi, KeyboardState,
             Press, printer, keys
<1>14. ASSUME NEW open \in SUBSET {"video", "mouse"}, OutControl(open) PROVE LineInv'
  BY <1>0, <1>14, RefreshedLine DEF OutControl, TypeOK, SettledPpi, KeyboardState, Press, printer,
     keys
<1>15. CASE InMouse
  BY <1>0, <1>15, RefreshedLine DEF InMouse, TypeOK, SettledPpi, KeyboardState, Press, printer, keys
<1>16. CASE OutVideoAck
  BY <1>0, <1>16, RefreshedLine DEF OutVideoAck, TypeOK, SettledPpi, KeyboardState, Press, printer,
     keys
<1>17. CASE UNCHANGED vars
  BY <1>0, <1>17 DEF vars, LineInv, TypeOK, SettledPpi, Sources, KeyboardState, Press
<1> QED BY <1>1, <1>2, <1>3, <1>4, <1>5, <1>6, <1>7, <1>8, <1>9, <1>10, <1>11, <1>12, <1>13,
           <1>14, <1>15, <1>16, <1>17 DEF Next

LEMMA LineInit == Init => LineInv
<1> SUFFICES ASSUME Init PROVE LineInv
  OBVIOUS
<1>1. ResetKeyboard \in KeyboardState
  BY KeyboardAssumption DEF ResetKeyboard, KeyboardState
<1>2. SettledPpi(ppi) /\ ppi \in PpiState
  BY ResetSettles DEF Init, SettledPpi
<1>3. TypeOK
  <2>1. /\ Zero \in Byte /\ <<>> \in Seq(Byte) /\ 0 \in 0 .. 8
        /\ {} \subseteq {"video", "mouse"} /\ {} \subseteq OtherInput /\ {} \subseteq Input
    BY ByteAssumption
  <2>2. /\ kb \in KeyboardState /\ gates = {} /\ latches = {} /\ others = {}
        /\ mask = 0 /\ inputs = {} /\ line = FALSE /\ online = FALSE /\ queue = <<>>
        /\ pressed = Zero /\ unread = FALSE /\ answer = "none"
    BY <1>1 DEF Init
  <2> QED BY <1>2, <2>1, <2>2 DEF TypeOK
<1>4. ~ppi.a.intr /\ ~ppi.b.intr
  BY DEF Init, ResetPpi, ResetGroup, GroupMode
<1>5. Sources(ppi, latches, others) = {}
  BY <1>4 DEF Init, Sources
<1>6. Pending({}, 0) = FALSE
  BY DEF Pending, Active
<1>7. inputs = {} /\ mask = 0 /\ line = FALSE
  BY DEF Init
<1> QED BY <1>2, <1>3, <1>5, <1>6, <1>7 DEF LineInv

(* Between operations the interrupt line of the Z80 shows exactly whether  *)
(* an enabled source requests, and the vector is that of the first such    *)
(* source, whichever operation of host, time or program came last          *)
(* (Machine::refresh_interrupt_sources, InterruptController3214).          *)
THEOREM LineAlwaysCurrent == Spec => []LineIsCurrent
<1>1. LineInv => LineIsCurrent
  <2> SUFFICES ASSUME LineInv PROVE LineIsCurrent
    OBVIOUS
  <2>1. TypeOK /\ inputs \in SUBSET Input /\ mask \in 0 .. 8
    BY DEF LineInv, TypeOK
  <2>2. inputs = Sources(ppi, latches, others) /\ line = Pending(inputs, mask)
    BY DEF LineInv
  <2> QED BY <2>1, <2>2, TableIsFollowed DEF LineIsCurrent
<1> QED BY <1>1, LineInit, LineStep, PTL DEF Spec

----------------------------------------------------------------------------
(* What the operations of the 8255 do to the fields the program relies on. *)

(* update_interrupts moves the two INTR pins only. *)
LEMMA UpdateKeeps ==
  ASSUME NEW p \in PpiState
  PROVE  LET q == UpdateInterrupts(p)
         IN /\ q.a.mode = p.a.mode /\ q.a.input = p.a.input /\ q.a.stb = p.a.stb
            /\ q.a.ack = p.a.ack /\ q.a.obf = p.a.obf /\ q.a.acked = p.a.acked
            /\ q.b.mode = p.b.mode /\ q.b.input = p.b.input /\ q.b.stb = p.b.stb
            /\ q.b.ibf = p.b.ibf /\ q.b.latch = p.b.latch /\ q.b.pin = p.b.pin
            /\ q.inCU = p.inCU /\ q.pinC = p.pinC
<1> DEFINE q == UpdateInterrupts(p)
<1>1. p.a \in Group /\ p.b \in Group
  BY DEF PpiState
<1>2. /\ q.a = [p.a EXCEPT !.intr = Request(p.a)]
      /\ q.b = [p.b EXCEPT !.intr = Request(p.b)]
  BY UpdateInterruptsType
<1>3. q.inCU = p.inCU /\ q.pinC = p.pinC
  BY DEF UpdateInterrupts, PpiState
<1> QED BY <1>1, <1>2, <1>3 DEF Group

(* The board: under AEh port A is a strobed output and port B a strobed    *)
(* input, and no pulse is under way between operations.                    *)
Board(p) ==
  /\ p \in PpiState /\ p.inCU = TRUE
  /\ p.a.mode = 1 => /\ ~p.a.input /\ p.a.ack
                     /\ p.b.mode = 1 /\ p.b.input /\ p.b.stb
  /\ p.a.mode # 1 => p.a.mode = 0

(* What the desk keeps of port A and of port B. *)
SameA(p, q) ==
  /\ q.a.mode = p.a.mode /\ q.a.input = p.a.input
  /\ q.a.ack = p.a.ack /\ q.a.obf = p.a.obf /\ q.a.acked = p.a.acked
  /\ q.inCU = p.inCU /\ q.pinC = p.pinC
SameB(p, q) ==
  /\ q.b.mode = p.b.mode /\ q.b.input = p.b.input /\ q.b.stb = p.b.stb
  /\ q.b.ibf = p.b.ibf /\ q.b.latch = p.b.latch
SameHands(p, q) ==
  /\ q.b.mode = p.b.mode /\ q.b.input = p.b.input /\ q.b.stb = p.b.stb

LEMMA BoardKept ==
  ASSUME NEW p, Board(p), NEW q \in PpiState, SameA(p, q), SameHands(p, q)
  PROVE  Board(q)
BY DEF Board, SameA, SameHands

LEMMA WriteModeEffect ==
  ASSUME NEW p \in PpiState, NEW cw \in {DeskWord, ResetWord}
  PROVE  LET q == WriteMode(p, cw)
         IN /\ Board(q) /\ q.pinC = p.pinC
            /\ q.b.ibf = FALSE
<1> DEFINE m == ModeSet(p, cw)
           q == WriteMode(p, cw)
<1>1. p.a \in Group /\ p.b \in Group
  BY DEF PpiState
<1>2. /\ cw.modeA \in 0 .. 2 /\ cw.modeB \in 0 .. 2 /\ cw.inA \in BOOLEAN /\ cw.inB \in BOOLEAN
      /\ cw.inCU \in BOOLEAN /\ cw.inCL \in BOOLEAN
  BY Words DEF ControlWord
<1>3. GroupMode(p.a, cw.modeA, cw.inA) \in Group /\ GroupMode(p.b, cw.modeB, cw.inB) \in Group
  BY <1>1, <1>2, GroupTypes
<1>4. m \in PpiState
  BY <1>2, <1>3 DEF ModeSet, PpiState
<1>5. /\ m.a.mode = cw.modeA /\ m.a.input = cw.inA /\ m.a.ack = TRUE
      /\ m.b.mode = cw.modeB /\ m.b.input = cw.inB /\ m.b.stb = TRUE /\ m.b.ibf = FALSE
      /\ m.inCU = cw.inCU /\ m.pinC = p.pinC
  BY DEF ModeSet, GroupMode
<1> HIDE DEF m
<1>6. /\ q \in PpiState
      /\ q.a.mode = cw.modeA /\ q.a.input = cw.inA /\ q.a.ack = TRUE
      /\ q.b.mode = cw.modeB /\ q.b.input = cw.inB /\ q.b.stb = TRUE /\ q.b.ibf = FALSE
      /\ q.inCU = cw.inCU /\ q.pinC = p.pinC
  BY <1>4, <1>5, UpdateKeeps, UpdateInterruptsType DEF WriteMode, m
<1>7. /\ cw.inCU = TRUE
      /\ cw.modeA = 1 => cw.inA = FALSE /\ cw.modeB = 1 /\ cw.inB = TRUE
      /\ cw.modeA # 1 => cw.modeA = 0
  BY DEF DeskWord, ResetWord
<1> QED BY <1>6, <1>7 DEF Board

LEMMA BitEffect ==
  ASSUME NEW p \in PpiState, NEW bit \in {2, 6}, NEW set \in BOOLEAN
  PROVE  SameA(p, BitSetReset(p, bit, set)) /\ SameB(p, BitSetReset(p, bit, set))
<1> DEFINE r == IF bit = 6 /\ Acknowledged(p.a) THEN [p EXCEPT !.a.inteOut = set]
                ELSE IF bit = 2 /\ p.b.mode = 1
                THEN [p EXCEPT !.b.inteIn = set, !.b.inteOut = set]
                ELSE [p EXCEPT !.outC = IF set THEN @ \cup {bit} ELSE @ \ {bit}]
<1>1. BitSetReset(p, bit, set) = UpdateInterrupts(r)
  BY DEF BitSetReset
<1>2. r \in PpiState /\ SameA(p, r) /\ SameB(p, r)
  <2>1. p.a \in Group /\ p.b \in Group
    BY DEF PpiState
  <2>2. CASE bit = 6 /\ Acknowledged(p.a)
    <3>1. [p.a EXCEPT !.inteOut = set] \in Group
      BY <2>1 DEF Group
    <3>2. r \in PpiState /\ r.a = [p.a EXCEPT !.inteOut = set] /\ r.b = p.b
          /\ r.inCU = p.inCU /\ r.pinC = p.pinC
      BY <2>2, <3>1 DEF PpiState
    <3> HIDE DEF r
    <3> QED BY <2>1, <3>2 DEF Group, SameA, SameB
  <2>3. CASE ~(bit = 6 /\ Acknowledged(p.a)) /\ bit = 2 /\ p.b.mode = 1
    <3>1. [p.b EXCEPT !.inteIn = set, !.inteOut = set] \in Group
      BY <2>1 DEF Group
    <3>2. r \in PpiState /\ r.b = [p.b EXCEPT !.inteIn = set, !.inteOut = set] /\ r.a = p.a
          /\ r.inCU = p.inCU /\ r.pinC = p.pinC
      BY <2>1, <2>3, <3>1 DEF PpiState
    <3> HIDE DEF r
    <3> QED BY <2>1, <3>2 DEF Group, SameA, SameB
  <2>4. CASE ~(bit = 6 /\ Acknowledged(p.a)) /\ ~(bit = 2 /\ p.b.mode = 1)
    <3>1. r = [p EXCEPT !.outC = IF set THEN @ \cup {bit} ELSE @ \ {bit}]
      BY <2>4
    <3>2. (IF set THEN p.outC \cup {bit} ELSE p.outC \ {bit}) \in SUBSET Bit
      BY DEF PpiState, Bit
    <3> HIDE DEF r
    <3>3. r \in PpiState /\ r.a = p.a /\ r.b = p.b /\ r.inCU = p.inCU /\ r.pinC = p.pinC
      BY <3>1, <3>2 DEF PpiState
    <3> QED BY <3>3 DEF SameA, SameB
  <2> QED BY <2>2, <2>3, <2>4
<1> HIDE DEF r
<1> QED BY <1>1, <1>2, UpdateKeeps DEF SameA, SameB

(* Replacing one group leaves the rest. *)
LEMMA GroupReplaced ==
  ASSUME NEW p \in PpiState, NEW g \in Group
  PROVE  /\ LET q == [p EXCEPT !.a = g]
            IN q \in PpiState /\ q.a = g /\ q.b = p.b /\ q.inCU = p.inCU /\ q.pinC = p.pinC
         /\ LET q == [p EXCEPT !.b = g]
            IN q \in PpiState /\ q.b = g /\ q.a = p.a /\ q.inCU = p.inCU /\ q.pinC = p.pinC
BY DEF PpiState

(* A byte for the printer waits in port A until it is acknowledged. *)
LEMMA WriteAEffect ==
  ASSUME NEW p, Board(p), NEW v \in Byte
  PROVE  LET q == WriteA(p, v)
         IN /\ Board(q) /\ SameB(p, q) /\ q.pinC = p.pinC
            /\ q.a.mode = p.a.mode /\ q.a.input = p.a.input
            /\ p.a.mode = 1 => ~q.a.obf /\ ~q.a.acked
<1> DEFINE g == GroupWrite(p.a, v)
           r == [p EXCEPT !.a = g]
           q == WriteA(p, v)
<1>1. p \in PpiState /\ p.a \in Group
  BY DEF Board, PpiState
<1>2. /\ g \in Group /\ g.mode = p.a.mode /\ g.input = p.a.input /\ g.ack = p.a.ack
      /\ p.a.mode = 1 /\ ~p.a.input => ~g.obf /\ ~g.acked
  <2>1. g \in Group
    BY <1>1, GroupTypes
  <2>2. CASE Acknowledged(p.a)
    <3>1. g = [p.a EXCEPT !.out = v, !.obf = FALSE, !.acked = FALSE, !.intr = FALSE]
      BY <2>2 DEF GroupWrite
    <3> HIDE DEF g
    <3> QED BY <1>1, <2>1, <3>1 DEF Group
  <2>3. CASE ~Acknowledged(p.a)
    <3>1. g = [p.a EXCEPT !.out = v]
      BY <2>3 DEF GroupWrite
    <3>2. ~(p.a.mode = 1 /\ ~p.a.input)
      BY <2>3 DEF Acknowledged
    <3> HIDE DEF g
    <3> QED BY <1>1, <2>1, <3>1, <3>2 DEF Group
  <2> QED BY <2>2, <2>3
<1> HIDE DEF g
<1>3. /\ r \in PpiState /\ r.a = g /\ r.b = p.b /\ r.inCU = p.inCU /\ r.pinC = p.pinC
  BY <1>1, <1>2, GroupReplaced
<1>4. q = UpdateInterrupts(r)
  BY DEF WriteA, g
<1> HIDE DEF r, q
<1>5. q \in PpiState
  BY <1>3, <1>4, UpdateInterruptsType
<1>6. /\ q.a.mode = p.a.mode /\ q.a.input = p.a.input /\ q.a.ack = p.a.ack
      /\ q.a.obf = g.obf /\ q.a.acked = g.acked /\ q.inCU = p.inCU /\ q.pinC = p.pinC
      /\ SameB(p, q)
  BY <1>2, <1>3, <1>4, UpdateKeeps DEF SameB
<1>7. p.a.mode = 1 => ~p.a.input
  BY DEF Board
<1>8. Board(q)
  BY <1>5, <1>6 DEF Board, SameB
<1> QED BY <1>2, <1>6, <1>7, <1>8 DEF q

(* One edge of the acknowledge. *)
LEMMA AckEffect ==
  ASSUME NEW p \in PpiState, NEW high \in BOOLEAN
  PROVE  LET q == SetAckA(p, high)
         IN /\ q \in PpiState /\ SameB(p, q) /\ q.inCU = p.inCU /\ q.pinC = p.pinC
            /\ q.a.mode = p.a.mode /\ q.a.input = p.a.input /\ q.a.ack = high
            /\ p.a.obf => q.a.obf
            /\ p.a.ack /\ ~high /\ p.a.mode = 1 /\ ~p.a.input => q.a.obf
            /\ ~p.a.ack /\ high => q.a.acked
<1> DEFINE g == GroupAck(p.a, high)
           r == [p EXCEPT !.a = g]
           q == SetAckA(p, high)
<1>1. p.a \in Group
  BY DEF PpiState
<1>2. /\ g \in Group /\ g.mode = p.a.mode /\ g.input = p.a.input /\ g.ack = high
      /\ p.a.obf => g.obf
      /\ p.a.ack /\ ~high /\ p.a.mode = 1 /\ ~p.a.input => g.obf
      /\ ~p.a.ack /\ high => g.acked
  <2>1. g \in Group
    BY <1>1, GroupTypes
  <2>2. g = [p.a EXCEPT !.ack = high,
                        !.obf = @ \/ (p.a.ack /\ ~high /\ Acknowledged(p.a)),
                        !.acked = @ \/ (~p.a.ack /\ high)]
    BY DEF GroupAck
  <2>3. p.a.mode = 1 /\ ~p.a.input => Acknowledged(p.a)
    BY DEF Acknowledged
  <2> HIDE DEF g
  <2> QED BY <1>1, <2>1, <2>2, <2>3 DEF Group
<1> HIDE DEF g
<1>3. /\ r \in PpiState /\ r.a = g /\ r.b = p.b /\ r.inCU = p.inCU /\ r.pinC = p.pinC
  BY <1>2, GroupReplaced
<1>4. q = UpdateInterrupts(r)
  BY DEF SetAckA, g
<1> HIDE DEF r, q
<1>5. q \in PpiState
  BY <1>3, <1>4, UpdateInterruptsType
<1>6. /\ q.a.mode = g.mode /\ q.a.input = g.input /\ q.a.ack = g.ack
      /\ q.a.obf = g.obf /\ q.a.acked = g.acked /\ q.inCU = p.inCU /\ q.pinC = p.pinC
      /\ SameB(p, q)
  BY <1>3, <1>4, UpdateKeeps DEF SameB
<1> QED BY <1>2, <1>5, <1>6 DEF q

LEMMA PulseAckEffect ==
  ASSUME NEW p, Board(p), p.a.mode = 1
  PROVE  LET q == PulseAckA(p)
         IN /\ Board(q) /\ SameB(p, q) /\ q.pinC = p.pinC /\ q.a.mode = 1
            /\ q.a.obf /\ q.a.acked
<1> DEFINE r == SetAckA(p, FALSE)
           q == SetAckA(r, TRUE)
<1>1. /\ p \in PpiState /\ ~p.a.input /\ p.a.ack /\ p.inCU = TRUE
      /\ p.b.mode = 1 /\ p.b.input /\ p.b.stb
  BY DEF Board
<1>2. /\ r \in PpiState /\ SameB(p, r) /\ r.inCU = p.inCU /\ r.pinC = p.pinC
      /\ r.a.mode = p.a.mode /\ r.a.input = p.a.input /\ r.a.ack = FALSE /\ r.a.obf
  BY <1>1, AckEffect
<1> HIDE DEF r
<1>3. /\ q \in PpiState /\ SameB(r, q) /\ q.inCU = r.inCU /\ q.pinC = r.pinC
      /\ q.a.mode = r.a.mode /\ q.a.input = r.a.input /\ q.a.ack = TRUE
      /\ q.a.obf /\ q.a.acked
  BY <1>2, AckEffect
<1>4. PulseAckA(p) = q
  BY DEF PulseAckA, r
<1> HIDE DEF q
<1>5. SameB(p, q)
  BY <1>2, <1>3 DEF SameB
<1>6. Board(q)
  BY <1>1, <1>2, <1>3, <1>5 DEF Board, SameB
<1> QED BY <1>2, <1>3, <1>4, <1>5, <1>6

LEMMA ReadBEffect ==
  ASSUME NEW p, Board(p)
  PROVE  LET q == ReadB(p)
         IN /\ Board(q) /\ SameA(p, q)
            /\ p.a.mode = 1 => ~q.b.ibf
<1> DEFINE g == GroupRead(p.b)
           r == [p EXCEPT !.b = g]
           q == ReadB(p)
<1>1. p \in PpiState /\ p.b \in Group
  BY DEF Board, PpiState
<1>2. CASE Strobed(p.b)
  <2>1. /\ g \in Group /\ g.mode = p.b.mode /\ g.input = p.b.input /\ g.stb = p.b.stb /\ ~g.ibf
    <3>1. g \in Group
      BY <1>1, GroupTypes
    <3>2. g = [p.b EXCEPT !.ibf = FALSE, !.intr = FALSE]
      BY <1>2 DEF GroupRead
    <3> HIDE DEF g
    <3> QED BY <1>1, <3>1, <3>2 DEF Group
  <2> HIDE DEF g
  <2>2. /\ r \in PpiState /\ r.b = g /\ r.a = p.a /\ r.inCU = p.inCU /\ r.pinC = p.pinC
    BY <1>1, <2>1, GroupReplaced
  <2>3. q = UpdateInterrupts(r)
    BY <1>2 DEF ReadB, g
  <2> HIDE DEF r, q
  <2>4. q \in PpiState /\ SameA(p, q) /\ SameHands(p, q) /\ ~q.b.ibf
    BY <2>1, <2>2, <2>3, UpdateInterruptsType, UpdateKeeps, ZenonT(60) DEF SameA, SameHands
  <2> QED BY <2>4, BoardKept DEF q
<1>3. CASE ~Strobed(p.b)
  <2>1. q = p
    BY <1>3 DEF ReadB
  <2>2. p.a.mode # 1
    BY <1>3 DEF Board, Strobed
  <2> QED BY <2>1, <2>2 DEF SameA
<1> QED BY <1>2, <1>3

(* One edge of the keyboard's strobe. *)
LEMMA StrobeEffect ==
  ASSUME NEW p \in PpiState, NEW high \in BOOLEAN
  PROVE  LET q == SetStrobeB(p, high)
         IN /\ q \in PpiState /\ SameA(p, q)
            /\ q.b.mode = p.b.mode /\ q.b.input = p.b.input /\ q.b.stb = high
            /\ p.b.stb /\ ~high /\ p.b.mode = 1 /\ p.b.input => q.b.ibf /\ q.b.latch = p.b.pin
            /\ high => q.b.ibf = p.b.ibf /\ q.b.latch = p.b.latch
<1> DEFINE g == GroupStrobe(p.b, high)
           r == [p EXCEPT !.b = g]
           q == SetStrobeB(p, high)
<1>1. p.b \in Group
  BY DEF PpiState
<1>2. /\ g \in Group /\ g.mode = p.b.mode /\ g.input = p.b.input /\ g.stb = high
      /\ p.b.stb /\ ~high /\ p.b.mode = 1 /\ p.b.input => g.ibf /\ g.latch = p.b.pin
      /\ high => g.ibf = p.b.ibf /\ g.latch = p.b.latch
  <2>1. g \in Group
    BY <1>1, GroupTypes
  <2>2. CASE p.b.stb /\ ~high /\ Strobed(p.b)
    <3>1. g = [p.b EXCEPT !.stb = FALSE, !.latch = p.b.pin, !.ibf = TRUE, !.intr = FALSE]
      BY <2>2 DEF GroupStrobe
    <3>2. high = FALSE
      BY <2>2
    <3> HIDE DEF g
    <3> QED BY <1>1, <2>1, <3>1, <3>2 DEF Group
  <2>3. CASE ~(p.b.stb /\ ~high /\ Strobed(p.b))
    <3>1. g = [p.b EXCEPT !.stb = high]
      BY <2>3 DEF GroupStrobe
    <3>2. ~(p.b.stb /\ ~high /\ p.b.mode = 1 /\ p.b.input)
      BY <2>3 DEF Strobed
    <3> HIDE DEF g
    <3> QED BY <1>1, <2>1, <3>1, <3>2 DEF Group
  <2> QED BY <2>2, <2>3
<1> HIDE DEF g
<1>3. /\ r \in PpiState /\ r.b = g /\ r.a = p.a /\ r.inCU = p.inCU /\ r.pinC = p.pinC
  BY <1>2, GroupReplaced
<1>4. q = UpdateInterrupts(r)
  BY DEF SetStrobeB, g
<1> HIDE DEF r, q
<1>5. /\ q \in PpiState /\ SameA(p, q)
      /\ q.b.mode = g.mode /\ q.b.input = g.input /\ q.b.stb = g.stb
      /\ q.b.ibf = g.ibf /\ q.b.latch = g.latch
  BY <1>3, <1>4, UpdateInterruptsType, UpdateKeeps, ZenonT(60) DEF SameA
<1> QED BY <1>2, <1>5 DEF q

LEMMA PulseStrobeEffect ==
  ASSUME NEW p, Board(p), NEW v \in Byte
  PROVE  LET q == PulseStrobeB(p, v)
         IN /\ Board(q) /\ SameA(p, q)
            /\ p.a.mode = 1 => q.b.ibf /\ q.b.latch = v
<1> DEFINE g == [p.b EXCEPT !.pin = v]
           w == [p EXCEPT !.b.pin = v]
           r == SetStrobeB(w, FALSE)
           q == SetStrobeB(r, TRUE)
<1>1. p \in PpiState /\ p.b \in Group
  BY DEF Board, PpiState
<1>2. /\ g \in Group /\ g.mode = p.b.mode /\ g.input = p.b.input /\ g.stb = p.b.stb /\ g.pin = v
  BY <1>1 DEF Group
<1>3. w = [p EXCEPT !.b = g]
  OBVIOUS
<1> HIDE DEF g, w
<1>4. w \in PpiState /\ w.b = g /\ w.a = p.a /\ w.inCU = p.inCU /\ w.pinC = p.pinC
  BY <1>1, <1>2, <1>3, GroupReplaced
<1>5. /\ r \in PpiState /\ SameA(w, r)
      /\ r.b.mode = w.b.mode /\ r.b.input = w.b.input /\ r.b.stb = FALSE
      /\ w.b.stb /\ w.b.mode = 1 /\ w.b.input => r.b.ibf /\ r.b.latch = w.b.pin
  BY <1>4, StrobeEffect
<1> HIDE DEF r
<1>6. /\ q \in PpiState /\ SameA(r, q)
      /\ q.b.mode = r.b.mode /\ q.b.input = r.b.input /\ q.b.stb = TRUE
      /\ q.b.ibf = r.b.ibf /\ q.b.latch = r.b.latch
  BY <1>5, StrobeEffect
<1>7. PulseStrobeB(p, v) = q
  BY DEF PulseStrobeB, r, w
<1> HIDE DEF q
<1>8. SameA(p, q)
  BY <1>4, <1>5, <1>6 DEF SameA
<1>9. p.a.mode = 1 => p.b.mode = 1 /\ p.b.input /\ p.b.stb
  BY DEF Board
<1>10. p.a.mode = 1 => q.b.ibf /\ q.b.latch = v /\ q.b.mode = 1 /\ q.b.input
  BY <1>2, <1>4, <1>5, <1>6, <1>9
<1>11. Board(q)
  BY <1>6, <1>8, <1>10 DEF Board, SameA
<1> QED BY <1>7, <1>8, <1>10, <1>11

----------------------------------------------------------------------------
(* Keys and printer. *)

(* Port B holds the latest code exactly while the program has not read it. *)
KeyWaits(p, u, k) ==
  p.a.mode = 1 => /\ p.b.ibf = u
                  /\ p.b.ibf => p.b.latch = Complement(k)

(* A taken byte has been acknowledged, a refused one waits.                *)
PrinterHolds(p, on, a) ==
  /\ p.pinC = IF on THEN {5} ELSE {}
  /\ a = "taken" => p.a.mode = 1 /\ p.a.obf /\ p.a.acked
  /\ a = "refused" => p.a.mode = 1 /\ ~p.a.obf

HeldIsPressed(k, code) == k.held # NoPress => k.held.code = code

DeskInv ==
  /\ LineInv /\ Board(ppi)
  /\ KeyWaits(ppi, unread, pressed) /\ HeldIsPressed(kb, pressed)
  /\ PrinterHolds(ppi, online, answer)

LEMMA SameKeepsWaiting ==
  ASSUME NEW p, NEW q, SameA(p, q), SameB(p, q)
  PROVE  \A u, k : KeyWaits(p, u, k) => KeyWaits(q, u, k)
BY DEF SameA, SameB, KeyWaits

LEMMA SameKeepsHolding ==
  ASSUME NEW p, NEW q, SameA(p, q)
  PROVE  \A on, a : PrinterHolds(p, on, a) => PrinterHolds(q, on, a)
BY DEF SameA, PrinterHolds

LEMMA HeldKeys ==
  ASSUME NEW k
  PROVE  /\ \A key, code : HeldIsPressed(k, code) => HeldIsPressed(KeyReleased(k, key), code)
         /\ \A key, code : Emits(k, key) => HeldIsPressed(KeyPressed(k, key, code), code)
         /\ \A key, code : ~Emits(k, key) => KeyPressed(k, key, code) = k
<1>1. ASSUME NEW key, NEW code, HeldIsPressed(k, code)
      PROVE  HeldIsPressed(KeyReleased(k, key), code)
  BY <1>1 DEF HeldIsPressed, KeyReleased, ResetKeyboard
<1>2. ASSUME NEW key, NEW code, Emits(k, key)
      PROVE  HeldIsPressed(KeyPressed(k, key, code), code)
  BY <1>2 DEF HeldIsPressed, KeyPressed
<1>3. ASSUME NEW key, NEW code, ~Emits(k, key) PROVE KeyPressed(k, key, code) = k
  BY <1>3 DEF KeyPressed
<1> QED BY <1>1, <1>2, <1>3

LEMMA WaitingIsHeld ==
  ASSUME NEW k \in KeyboardState, NEW ticks
  PROVE  Waited(k, ticks).held = k.held
BY DEF KeyboardState, Waited

(* A reset of the machine forgets keys and bytes; the pin stays. *)
LEMMA ResetDeskEffect ==
  ASSUME NEW on
  PROVE  LET q == PrinterPins(ResetPpi, on)
         IN /\ Board(q) /\ q.a.mode = 0
            /\ q.pinC = IF on THEN {5} ELSE {}
<1> DEFINE q == PrinterPins(ResetPpi, on)
<1>1. ResetPpi \in PpiState /\ ResetPpi.inCU = TRUE
  BY ResetSettles DEF SettledPpi, ResetPpi
<1>2. ResetPpi.a.mode = 0
  BY DEF ResetPpi, ResetGroup, GroupMode
<1>3. q \in PpiState /\ q.a = ResetPpi.a
  BY ResetSettles, PinsSettle DEF SettledPpi
<1>4. q.inCU = ResetPpi.inCU /\ q.pinC = IF on THEN {5} ELSE {}
  BY <1>1 DEF PrinterPins, PpiState
<1> HIDE DEF q
<1> QED BY <1>1, <1>2, <1>3, <1>4 DEF Board, q

LEMMA DeskStep == DeskInv /\ [Next]_vars => DeskInv'
<1> SUFFICES ASSUME DeskInv, [Next]_vars
             PROVE  /\ Board(ppi') /\ KeyWaits(ppi', unread', pressed')
                    /\ HeldIsPressed(kb', pressed') /\ PrinterHolds(ppi', online', answer')
  BY LineStep DEF DeskInv, Board, SettledPpi, KeyWaits, HeldIsPressed, PrinterHolds, PpiState,
     Group
<1>0. /\ LineInv /\ TypeOK /\ Board(ppi) /\ ppi \in PpiState /\ kb \in KeyboardState
      /\ KeyWaits(ppi, unread, pressed) /\ HeldIsPressed(kb, pressed)
      /\ PrinterHolds(ppi, online, answer)
      /\ DeskProgrammed = (ppi.a.mode = 1)
  BY DEF DeskInv, LineInv, TypeOK, DeskProgrammed
<1>1. CASE Reset
  <2>1. /\ Board(ppi') /\ ppi'.a.mode = 0 /\ ppi'.pinC = IF online THEN {5} ELSE {}
    BY <1>1, ResetDeskEffect DEF Reset, ResetDesk
  <2>2. online' = online /\ answer' = "none" /\ kb'.held = NoPress
    BY <1>1 DEF Reset, ResetDesk, ResetKeyboard
  <2> QED BY <2>1, <2>2 DEF KeyWaits, HeldIsPressed, PrinterHolds
<1>2. ASSUME NEW key \in Key, NEW code \in Code, KeyDown(key, code)
      PROVE  /\ Board(ppi') /\ KeyWaits(ppi', unread', pressed')
             /\ HeldIsPressed(kb', pressed') /\ PrinterHolds(ppi', online', answer')
  <2>1. online' = online /\ answer' = answer /\ kb' = KeyPressed(kb, key, code)
    BY <1>2 DEF KeyDown, printer
  <2>2. CASE Emits(kb, key)
    <3>1. ppi' = Delivered(ppi, code) /\ pressed' = code /\ unread' = (ppi.a.mode = 1)
      BY <1>0, <1>2, <2>2 DEF KeyDown
    <3>2. Complement(code) \in Byte
      BY Wires
    <3>3. /\ Board(ppi') /\ SameA(ppi, ppi')
          /\ ppi.a.mode = 1 => ppi'.b.ibf /\ ppi'.b.latch = Complement(code)
      BY <1>0, <3>1, <3>2, PulseStrobeEffect DEF Delivered
    <3>4. ppi'.b.ibf \in BOOLEAN
      BY <3>3 DEF Board, PpiState, Group
    <3>5. KeyWaits(ppi', unread', pressed')
      BY <3>1, <3>3, <3>4 DEF KeyWaits, SameA
    <3> QED BY <1>0, <2>1, <2>2, <3>1, <3>3, <3>5, SameKeepsHolding, HeldKeys
  <2>3. CASE ~Emits(kb, key)
    <3>1. ppi' = ppi /\ pressed' = pressed /\ unread' = unread
      BY <1>2, <2>3 DEF KeyDown
    <3> QED BY <1>0, <2>1, <2>3, <3>1, HeldKeys
  <2> QED BY <2>2, <2>3
<1>3. ASSUME NEW key \in Key, KeyUp(key)
      PROVE  /\ Board(ppi') /\ KeyWaits(ppi', unread', pressed')
             /\ HeldIsPressed(kb', pressed') /\ PrinterHolds(ppi', online', answer')
  BY <1>0, <1>3, HeldKeys DEF KeyUp, printer
<1>4. ASSUME NEW on \in BOOLEAN, SetPrinterOnline(on)
      PROVE  /\ Board(ppi') /\ KeyWaits(ppi', unread', pressed')
             /\ HeldIsPressed(kb', pressed') /\ PrinterHolds(ppi', online', answer')
  <2>1. /\ online' = on /\ ppi' = PrinterPins(ppi, on) /\ answer' = answer
        /\ kb' = kb /\ pressed' = pressed /\ unread' = unread
    BY <1>4 DEF SetPrinterOnline, keys
  <2>2. ppi' \in PpiState /\ ppi'.a = ppi.a /\ ppi'.b = ppi.b
    BY <1>0, <2>1, PinsSettle DEF LineInv, SettledPpi
  <2>3. ppi'.inCU = ppi.inCU /\ ppi'.pinC = IF on THEN {5} ELSE {}
    BY <1>0, <2>1 DEF PrinterPins, PpiState
  <2> QED BY <1>0, <2>1, <2>2, <2>3 DEF Board, KeyWaits, PrinterHolds
<1>5. ASSUME NEW pulses \in SUBSET {"video", "mouse"}, AdvanceTime(1, pulses)
      PROVE  /\ Board(ppi') /\ KeyWaits(ppi', unread', pressed')
             /\ HeldIsPressed(kb', pressed') /\ PrinterHolds(ppi', online', answer')
  <2>1. /\ online' = online /\ answer' = answer /\ pressed' = pressed /\ kb' = Waited(kb, 1)
    BY <1>5 DEF AdvanceTime, printer
  <2>2. HeldIsPressed(kb', pressed')
    BY <1>0, <2>1, WaitingIsHeld DEF HeldIsPressed
  <2>3. CASE Repeats(kb, 1) > 0
    <3>1. kb.held \in Press /\ kb.held.code \in Code
      BY <1>0, <2>3, RepeatsAreOfHeld
    <3>2. kb.held # NoPress
      BY <3>1, KeyboardAssumption DEF Press
    <3>3. kb.held.code = pressed
      BY <1>0, <3>2 DEF HeldIsPressed
    <3>4. ppi' = Delivered(ppi, pressed) /\ unread' = (ppi.a.mode = 1)
      BY <1>0, <1>5, <2>3, <3>3 DEF AdvanceTime
    <3>5. Complement(pressed) \in Byte
      BY <3>1, <3>3, Wires
    <3>6. /\ Board(ppi') /\ SameA(ppi, ppi')
          /\ ppi.a.mode = 1 => ppi'.b.ibf /\ ppi'.b.latch = Complement(pressed)
      BY <1>0, <3>4, <3>5, PulseStrobeEffect DEF Delivered
    <3>7. ppi'.b.ibf \in BOOLEAN
      BY <3>6 DEF Board, PpiState, Group
    <3>8. KeyWaits(ppi', unread', pressed')
      BY <2>1, <3>4, <3>6, <3>7 DEF KeyWaits, SameA
    <3> QED BY <1>0, <2>1, <2>2, <3>6, <3>8, SameKeepsHolding
  <2>4. CASE ~(Repeats(kb, 1) > 0)
    <3>1. ppi' = ppi /\ unread' = unread
      BY <1>5, <2>4 DEF AdvanceTime
    <3> QED BY <1>0, <2>1, <2>2, <3>1
  <2> QED BY <2>3, <2>4
<1>6. ASSUME NEW cw \in {DeskWord, ResetWord}, OutControlWord(cw)
      PROVE  /\ Board(ppi') /\ KeyWaits(ppi', unread', pressed')
             /\ HeldIsPressed(kb', pressed') /\ PrinterHolds(ppi', online', answer')
  <2>1. /\ ppi' = WriteMode(ppi, cw) /\ unread' = FALSE /\ answer' = "none"
        /\ kb' = kb /\ pressed' = pressed /\ online' = online
    BY <1>6 DEF OutControlWord
  <2>2. Board(ppi') /\ ppi'.pinC = ppi.pinC /\ ppi'.b.ibf = FALSE
    BY <1>0, <2>1, WriteModeEffect
  <2> QED BY <1>0, <2>1, <2>2 DEF KeyWaits, PrinterHolds
<1>7. ASSUME NEW bit \in {2, 6}, NEW set \in BOOLEAN, OutInte(bit, set)
      PROVE  /\ Board(ppi') /\ KeyWaits(ppi', unread', pressed')
             /\ HeldIsPressed(kb', pressed') /\ PrinterHolds(ppi', online', answer')
  <2>1. /\ ppi' = BitSetReset(ppi, bit, set) /\ unread' = unread /\ answer' = answer
        /\ kb' = kb /\ pressed' = pressed /\ online' = online
    BY <1>7 DEF OutInte, keys, printer
  <2>2. SameA(ppi, ppi') /\ SameB(ppi, ppi') /\ SameHands(ppi, ppi')
    BY <1>0, <2>1, BitEffect DEF SameB, SameHands
  <2>3. ppi' \in PpiState
    BY <1>0, <2>1, CpuOperationsSettle DEF LineInv, SettledPpi, Bit
  <2> QED BY <1>0, <2>1, <2>2, <2>3, BoardKept, SameKeepsWaiting, SameKeepsHolding
<1>8. ASSUME NEW byte \in Byte, OutPortA(byte)
      PROVE  /\ Board(ppi') /\ KeyWaits(ppi', unread', pressed')
             /\ HeldIsPressed(kb', pressed') /\ PrinterHolds(ppi', online', answer')
  <2> DEFINE w == WriteA(ppi, byte)
  <2>1. /\ unread' = unread /\ kb' = kb /\ pressed' = pressed /\ online' = online
        /\ answer' = IF ~(ppi.a.mode = 1) THEN "none" ELSE IF online THEN "taken" ELSE "refused"
        /\ ppi' = IF Takes(w) THEN PulseAckA(w) ELSE w
    BY <1>0, <1>8 DEF OutPortA, keys
  <2>2. /\ Board(w) /\ SameB(ppi, w) /\ w.pinC = ppi.pinC
        /\ w.a.mode = ppi.a.mode /\ w.a.input = ppi.a.input
        /\ ppi.a.mode = 1 => ~w.a.obf /\ ~w.a.acked
    BY <1>0, WriteAEffect
  <2> HIDE DEF w
  <2>3. CASE online /\ ppi.a.mode = 1
    <3>1. ~w.a.input
      BY <2>2, <2>3 DEF Board
    <3>2. Takes(w)
      BY <2>2, <2>3, <3>1 DEF Takes, PortAOutputEnabled
    <3>3. /\ Board(ppi') /\ SameB(w, ppi') /\ ppi'.pinC = w.pinC /\ ppi'.a.mode = 1
          /\ ppi'.a.obf /\ ppi'.a.acked
      BY <2>1, <2>2, <2>3, <3>2, PulseAckEffect
    <3>4. KeyWaits(ppi', unread', pressed')
      BY <1>0, <2>1, <2>2, <2>3, <3>3 DEF KeyWaits, SameB
    <3>5. answer' = "taken"
      BY <2>1, <2>3
    <3> QED BY <1>0, <2>1, <2>2, <3>3, <3>4, <3>5 DEF PrinterHolds
  <2>4. CASE ~(online /\ ppi.a.mode = 1)
    <3>1. ~Takes(w)
      BY <2>2, <2>4 DEF Takes
    <3>2. ppi' = w
      BY <2>1, <3>1
    <3>3. KeyWaits(ppi', unread', pressed')
      BY <1>0, <2>1, <2>2, <3>2 DEF KeyWaits, SameB
    <3>4. answer' = IF ppi.a.mode = 1 THEN "refused" ELSE "none"
      BY <2>1, <2>4
    <3>5. PrinterHolds(ppi', online', answer')
      BY <1>0, <2>1, <2>2, <3>2, <3>4 DEF PrinterHolds
    <3> QED BY <1>0, <2>1, <2>2, <3>2, <3>3, <3>5
  <2> QED BY <2>3, <2>4
<1>9. CASE InPortB
  <2>1. /\ ppi' = ReadB(ppi) /\ unread' = FALSE /\ answer' = answer
        /\ kb' = kb /\ pressed' = pressed /\ online' = online
    BY <1>9 DEF InPortB, printer
  <2>2. Board(ppi') /\ SameA(ppi, ppi') /\ (ppi.a.mode = 1 => ~ppi'.b.ibf)
    BY <1>0, <2>1, ReadBEffect
  <2>3. ppi'.b.ibf \in BOOLEAN
    BY <2>2 DEF Board, PpiState, Group
  <2>4. KeyWaits(ppi', unread', pressed')
    BY <2>1, <2>2, <2>3 DEF KeyWaits, SameA
  <2> QED BY <1>0, <2>1, <2>2, <2>4, SameKeepsHolding
<1>10. CASE /\ UNCHANGED <<ppi, kb, pressed, unread, online, answer>>
  BY <1>0, <1>10
<1>11. MouseMoves \/ TakePrinterByte \/ InMouse \/ OutVideoAck
         => UNCHANGED <<ppi, kb, pressed, unread, online, answer>>
  BY DEF MouseMoves, TakePrinterByte, InMouse, OutVideoAck, keys, printer
<1>12. ASSUME NEW levels, OtherRequest(levels)
       PROVE  UNCHANGED <<ppi, kb, pressed, unread, online, answer>>
  BY <1>12 DEF OtherRequest, keys, printer
<1>13. ASSUME NEW byte, OutMask(byte)
       PROVE  UNCHANGED <<ppi, kb, pressed, unread, online, answer>>
  BY <1>13 DEF OutMask, keys, printer
<1>14. ASSUME NEW open, OutControl(open)
       PROVE  UNCHANGED <<ppi, kb, pressed, unread, online, answer>>
  BY <1>14 DEF OutControl, keys, printer
<1>15. UNCHANGED vars => UNCHANGED <<ppi, kb, pressed, unread, online, answer>>
  BY DEF vars
<1> QED BY <1>1, <1>2, <1>3, <1>4, <1>5, <1>6, <1>7, <1>8, <1>9, <1>10, <1>11, <1>12, <1>13,
           <1>14, <1>15 DEF Next

LEMMA DeskInit == Init => DeskInv
<1> SUFFICES ASSUME Init PROVE DeskInv
  OBVIOUS
<1>1. /\ ppi = ResetPpi /\ kb.held = NoPress /\ online = FALSE /\ answer = "none"
  BY DEF Init, ResetKeyboard
<1>2. /\ ppi.inCU = TRUE /\ ppi.pinC = {} /\ ppi.a.mode = 0
  BY <1>1 DEF ResetPpi, ResetGroup, GroupMode
<1>3. ppi \in PpiState
  BY <1>1, ResetSettles DEF SettledPpi
<1>4. LineInv
  BY LineInit
<1> QED BY <1>1, <1>2, <1>3, <1>4
        DEF DeskInv, Board, KeyWaits, HeldIsPressed, PrinterHolds

LEMMA DeskAlways == Spec => []DeskInv
BY DeskInit, DeskStep, PTL DEF Spec

(* The program reads the code of the last press, inverted, and sees IBF    *)
(* exactly when a code has come since it read last, for every keyboard,    *)
(* repeat period and sequence of operations (Machine::deliver_keyboard_    *)
(* code, Ppi8255::pulse_strobe_b).                                         *)
THEOREM LatestKeyIsAlwaysRead == Spec => []LatestKeyIsRead
<1>1. DeskInv => LatestKeyIsRead
  BY DEF DeskInv, Board, KeyWaits, LatestKeyIsRead, DeskProgrammed, GroupReadValue, Strobed
<1> QED BY <1>1, DeskAlways, PTL

(* PC5 tells whether the printer is online, and the program learns from    *)
(* the handshake what became of each byte, for every sequence of the       *)
(* host's and the program's operations (Machine::set_printer_online,       *)
(* write_io).                                                             *)
THEOREM PrinterAlwaysAnswers == Spec => []PrinterAnswers
<1>1. DeskInv => PrinterAnswers
  <2> SUFFICES ASSUME DeskInv PROVE PrinterAnswers
    OBVIOUS
  <2>1. /\ SettledPpi(ppi) /\ Board(ppi) /\ PrinterHolds(ppi, online, answer)
        /\ ppi \in PpiState /\ ppi.a \in Group /\ online \in BOOLEAN
    BY DEF DeskInv, LineInv, TypeOK, PpiState
  <2>2. ~Strobed(ppi.a)
    BY <2>1 DEF Board, Strobed
  <2>3. (5 \in ReadCValue(ppi)) = online
    <3>1. 5 \in Bit /\ 5 \notin BitsB(ppi.b) /\ 5 \notin BitsA(ppi.a) /\ 5 >= 4
      BY <2>2 DEF Bit, BitsA, BitsB
    <3>2. 5 \in ReadCValue(ppi) <=> 5 \in ppi.pinC
      BY <2>1, <3>1 DEF ReadCValue, Board
    <3>3. ppi.pinC = IF online THEN {5} ELSE {}
      BY <2>1 DEF PrinterHolds
    <3> QED BY <2>1, <3>2, <3>3
  <2>4. ppi.a.intr = Request(ppi.a)
    BY <2>1, SettledPins DEF SettledPpi
  <2>5. ASSUME answer = "taken" PROVE ppi.a.obf /\ ppi.a.intr = ppi.a.inteOut
    <3>1. ppi.a.mode = 1 /\ ppi.a.obf /\ ppi.a.acked /\ ~ppi.a.input /\ ppi.a.ack
      BY <2>1, <2>5 DEF Board, PrinterHolds
    <3>2. Request(ppi.a) <=> ppi.a.inteOut
      BY <2>2, <3>1 DEF Request, InputRequest, OutputRequest, Acknowledged
    <3>3. ppi.a.inteOut \in BOOLEAN /\ Request(ppi.a) \in BOOLEAN
      BY <2>1, RequestType DEF Group
    <3> QED BY <2>4, <3>1, <3>2, <3>3
  <2>6. ASSUME answer = "refused" PROVE ~ppi.a.obf /\ ~ppi.a.intr
    <3>1. ~ppi.a.obf
      BY <2>1, <2>6 DEF PrinterHolds
    <3>2. ~Request(ppi.a)
      BY <2>2, <3>1 DEF Request, InputRequest, OutputRequest
    <3> QED BY <2>4, <3>1, <3>2
  <2> QED BY <2>3, <2>5, <2>6 DEF PrinterAnswers
<1> QED BY <1>1, DeskAlways, PTL
=============================================================================
