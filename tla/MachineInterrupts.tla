------------------------- MODULE MachineInterrupts -------------------------
(***************************************************************************)
(* The interrupt side of class Machine (src/src/core/machine.cpp): the     *)
(* 3214 priority controller, the video and mouse latches behind I4 and I3, *)
(* and the 8255 of group 00h with the keyboard on port B and the printer   *)
(* on port A.  The levels of I2, I5, I6 and I7 come from parts modelled    *)
(* elsewhere and move freely here; every path that moves one of them ends  *)
(* in refresh_interrupt_sources.  Frames and mouse edges come and go with  *)
(* time as they like; MouseEncoder has their timing.                       *)
(***************************************************************************)
EXTENDS Ppi8255, Keyboard, Sequences, FiniteSetsExt

CONSTANTS
  DataWire,     \* the data wires of the keyboard: a byte is the set that is high
  OtherInput,   \* bound: the inputs of other parts that move
  MaskByte,     \* bound: the bytes written to group 30h
  MaxQueued     \* bound: bytes the frontend lets wait for the printer's file

ASSUME InterruptAssumption ==
  /\ Byte = SUBSET DataWire /\ Zero = {} /\ Code \subseteq Byte
  /\ OtherInput \subseteq {2, 5, 6, 7} /\ MaskByte \subseteq Nat /\ MaxQueued \in Nat

Input == 0 .. 7

VARIABLES
  ppi,      \* printer_keyboard
  kb,       \* keyboard
  gates,    \* which of PA2 ("video") and PA3 ("mouse") are outputs and high
  latches,  \* which of video_interrupt_latch and mouse_interrupt_latch are set
  others,   \* the levels of the other parts' requests
  mask, inputs,   \* the 3214
  line,     \* /INT of the Z80, as z80_int was told last
  online, queue,  \* printer_online, printer_bytes
  pressed,  \* history: the code of the last press
  unread,   \* history: a code has come since the program last read port B
  answer    \* history: what became of the last byte for the printer

vars == <<ppi, kb, gates, latches, others, mask, inputs, line, online, queue,
          pressed, unread, answer>>
printer == <<online, queue, answer>>
keys == <<kb, pressed, unread>>

(* CW = AEh: port A and B in mode 1, A output, B input, PC upper input. *)
DeskWord == [modeA |-> 1, inA |-> FALSE, inCU |-> TRUE,
             modeB |-> 1, inB |-> TRUE, inCL |-> FALSE]
DeskProgrammed == ppi.a.mode = 1

----------------------------------------------------------------------------
Complement(byte) == DataWire \ byte

(* Faulty variants, used only by the mutation runs. *)
EnabledBelow(m) == {i \in Input : i < m}
DeliveredIfEmpty(p, code) == IF p.b.ibf THEN p ELSE PulseStrobeB(p, Complement(code))
TakesOffline(p) == p.a.mode = 1 /\ PortAOutputEnabled(p)

(* InterruptController3214: mask n enables the n inputs from I7 down. *)
Enabled(m) == {i \in Input : i >= 8 - m}
Active(in, m) == in \cap Enabled(m)
Pending(in, m) == Active(in, m) # {}
Vector(in, m) == 2 * (7 - Max(Active(in, m)))

(* The requests of all parts as refresh_interrupt_sources samples them. *)
Sources(p, l, o) ==
  o \cup (IF "video" \in l THEN {4} ELSE {}) \cup (IF "mouse" \in l THEN {3} ELSE {})
    \cup (IF p.b.intr THEN {1} ELSE {}) \cup (IF p.a.intr THEN {0} ELSE {})

RefreshInterruptSources ==
  /\ inputs' = Sources(ppi', latches', others')
  /\ line' = Pending(inputs', mask')

(* deliver_keyboard_code: the data wires are active low.  A second pulse   *)
(* with the same code in the same call changes nothing more.               *)
Delivered(p, code) == PulseStrobeB(p, Complement(code))

PrinterPins(p, on) == [p EXCEPT !.pinC = IF on THEN {5} ELSE {}]

----------------------------------------------------------------------------
ResetDesk ==
  /\ ppi' = PrinterPins(ResetPpi, online)
  /\ kb' = ResetKeyboard
  /\ gates' = {} /\ latches' = {} /\ mask' = 0
  /\ others' = {}
  /\ unread' = FALSE /\ answer' = "none"
  /\ UNCHANGED <<online, queue, pressed>>

(* reset(); RAM, the clocks, the disk and the UART are no part of this module. *)
Reset == ResetDesk /\ RefreshInterruptSources

Init ==
  /\ ppi = ResetPpi /\ kb = ResetKeyboard
  /\ gates = {} /\ latches = {} /\ others = {}
  /\ mask = 0 /\ inputs = {} /\ line = FALSE
  /\ online = FALSE /\ queue = <<>>
  /\ pressed = Zero /\ unread = FALSE /\ answer = "none"

----------------------------------------------------------------------------
(* The host. *)

KeyDown(key, code) ==
  /\ kb' = KeyPressed(kb, key, code)
  /\ IF Emits(kb, key)
     THEN ppi' = Delivered(ppi, code) /\ pressed' = code /\ unread' = DeskProgrammed
     ELSE UNCHANGED <<ppi, pressed, unread>>
  /\ UNCHANGED <<gates, latches, others, mask, printer>>
  /\ IF Emits(kb, key) THEN RefreshInterruptSources ELSE UNCHANGED <<inputs, line>>

KeyUp(key) ==
  /\ kb' = KeyReleased(kb, key)
  /\ UNCHANGED <<ppi, gates, latches, others, mask, inputs, line, printer, pressed, unread>>

(* mouse_motion and set_mouse_button, when they change a wire. *)
MouseMoves ==
  /\ latches' = latches \cup (gates \cap {"mouse"})
  /\ UNCHANGED <<ppi, keys, gates, others, mask, printer>>
  /\ RefreshInterruptSources

SetPrinterOnline(on) ==
  /\ online' = on
  /\ ppi' = PrinterPins(ppi, on)
  /\ UNCHANGED <<keys, gates, latches, others, mask, inputs, line, queue, answer>>

TakePrinterByte ==
  /\ queue # <<>>
  /\ queue' = Tail(queue)
  /\ UNCHANGED <<ppi, keys, gates, latches, others, mask, inputs, line, online, answer>>

----------------------------------------------------------------------------
(* Time.  "video" in pulses: a frame has been completed; "mouse": an       *)
(* encoder wire has changed.                                               *)
LatchPulses(l, g, pulses) == l \cup (g \cap pulses)

AdvanceTime(ticks, pulses) ==
  /\ kb' = Waited(kb, ticks)
  /\ IF Repeats(kb, ticks) > 0
     THEN ppi' = Delivered(ppi, kb.held.code) /\ unread' = DeskProgrammed
     ELSE UNCHANGED <<ppi, unread>>
  /\ latches' = LatchPulses(latches, gates, pulses)
  /\ UNCHANGED <<gates, others, mask, printer, pressed>>
  /\ RefreshInterruptSources

(* The disk electronics or the UART raise or drop a request. *)
OtherRequest(levels) ==
  /\ others' = levels
  /\ UNCHANGED <<ppi, keys, gates, latches, mask, printer>>
  /\ RefreshInterruptSources

----------------------------------------------------------------------------
(* The program.  Under the two control words used here reading port A or C *)
(* and writing port B or C moves no pin this module has.                   *)

OutControlWord(cw) ==
  /\ ppi' = WriteMode(ppi, cw)
  /\ unread' = FALSE /\ answer' = "none"
  /\ UNCHANGED <<kb, pressed, gates, latches, others, mask, online, queue>>
  /\ RefreshInterruptSources

OutInte(bit, set) ==
  /\ ppi' = BitSetReset(ppi, bit, set)
  /\ UNCHANGED <<keys, gates, latches, others, mask, printer>>
  /\ RefreshInterruptSources

(* The virtual printer takes a byte from port A at once, if it is online   *)
(* and the port is a strobed output.                                       *)
Takes(p) == online /\ p.a.mode = 1 /\ PortAOutputEnabled(p)

OutPortA(byte) ==
  LET written == WriteA(ppi, byte)
  IN /\ Takes(ppi) => Len(queue) < MaxQueued
     /\ IF Takes(written)
        THEN /\ queue' = Append(queue, written.a.out)
             /\ ppi' = PulseAckA(written)
        ELSE ppi' = written /\ UNCHANGED queue
     /\ answer' = IF ~DeskProgrammed THEN "none"
                  ELSE IF online THEN "taken" ELSE "refused"
     /\ UNCHANGED <<keys, gates, latches, others, mask, online>>
     /\ RefreshInterruptSources

InPortB ==
  /\ ppi' = ReadB(ppi)
  /\ unread' = FALSE
  /\ UNCHANGED <<kb, pressed, gates, latches, others, mask, printer>>
  /\ RefreshInterruptSources

MaskOf(byte) == Min({byte, 8})

OutMask(byte) ==
  /\ mask' = MaskOf(byte)
  /\ UNCHANGED <<ppi, keys, gates, latches, others, printer>>
  /\ RefreshInterruptSources

(* OUT to group 60h; a control word clears port A or makes it an input. *)
OutControl(open) ==
  /\ gates' = open
  /\ UNCHANGED <<ppi, keys, latches, others, mask, printer>>
  /\ RefreshInterruptSources

(* IN from group 70h reads the mouse, OUT to it acknowledges the frame. *)
InMouse ==
  /\ latches' = latches \ {"mouse"}
  /\ UNCHANGED <<ppi, keys, gates, others, mask, printer>>
  /\ RefreshInterruptSources

OutVideoAck ==
  /\ latches' = latches \ {"video"}
  /\ UNCHANGED <<ppi, keys, gates, others, mask, printer>>
  /\ RefreshInterruptSources

Next ==
  \/ Reset
  \/ \E key \in Key, code \in Code : KeyDown(key, code)
  \/ \E key \in Key : KeyUp(key)
  \/ MouseMoves
  \/ \E on \in BOOLEAN : SetPrinterOnline(on)
  \/ TakePrinterByte
  \/ \E pulses \in SUBSET {"video", "mouse"} : AdvanceTime(1, pulses)
  \/ \E levels \in SUBSET OtherInput : OtherRequest(levels)
  \/ \E cw \in {DeskWord, ResetWord} : OutControlWord(cw)
  \/ \E bit \in {2, 6}, set \in BOOLEAN : OutInte(bit, set)
  \/ \E byte \in Byte : OutPortA(byte)
  \/ InPortB
  \/ \E byte \in MaskByte : OutMask(byte)
  \/ \E open \in SUBSET {"video", "mouse"} : OutControl(open)
  \/ InMouse
  \/ OutVideoAck

Spec == Init /\ [][Next]_vars

----------------------------------------------------------------------------
(* The mask never exceeds the number of inputs, whatever byte is written.  *)
TypeOK ==
  /\ ppi \in PpiState /\ kb \in KeyboardState
  /\ gates \subseteq {"video", "mouse"} /\ latches \subseteq {"video", "mouse"}
  /\ others \subseteq OtherInput /\ mask \in 0 .. 8 /\ inputs \subseteq Input
  /\ line \in BOOLEAN /\ online \in BOOLEAN /\ queue \in Seq(Byte)
  /\ pressed \in Byte /\ unread \in BOOLEAN
  /\ answer \in {"none", "taken", "refused"}

(* The vectors of hardware-spec.md 5.1, highest priority first. *)
VectorTable == <<[input |-> 7, vector |-> 0], [input |-> 6, vector |-> 2],
                 [input |-> 5, vector |-> 4], [input |-> 4, vector |-> 6],
                 [input |-> 3, vector |-> 8], [input |-> 2, vector |-> 10],
                 [input |-> 1, vector |-> 12], [input |-> 0, vector |-> 14]>>

(* Between operations /INT is high exactly while a source that the mask    *)
(* enables requests, and the vector the Z80 would then be given is that of *)
(* the first such source in the table: no operation leaves a request       *)
(* unseen, or an interrupt without a cause.                                *)
LineIsCurrent ==
  LET requesting == {n \in 1 .. mask :
                       VectorTable[n].input \in Sources(ppi, latches, others)}
  IN /\ TypeOK
     /\ line = (requesting # {})
     /\ line => Vector(inputs, mask) = VectorTable[Min(requesting)].vector

(* The program reads from port B the inverted code of the last press, and  *)
(* finds IBF set exactly when a code has come since it read last: a code   *)
(* it was too slow for is replaced, and repeats never bring back an older  *)
(* one.                                                                    *)
LatestKeyIsRead ==
  DeskProgrammed =>
    /\ ppi.b.ibf = unread
    /\ ppi.b.ibf => GroupReadValue(ppi.b) = Complement(pressed)

(* PC5 tells the program whether the printer is online, also after a reset *)
(* of the machine and whichever way the 8255 was programmed since.  A byte *)
(* for the printer is either taken, and then I0 requests the next as long  *)
(* as its INTE is set, or refused because the printer is offline, and then *)
(* waits in the port with no acknowledge (hardware-spec.md 7.2).           *)
PrinterAnswers ==
  /\ (5 \in ReadCValue(ppi)) = online
  /\ answer = "taken" => ppi.a.obf /\ ppi.a.intr = ppi.a.inteOut
  /\ answer = "refused" => ~ppi.a.obf /\ ~ppi.a.intr
=============================================================================
