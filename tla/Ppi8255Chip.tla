---------------------------- MODULE Ppi8255Chip ----------------------------
(***************************************************************************)
(* One 8255 under every operation of its public interface in any order:    *)
(* the CPU on one side, two devices that respect no protocol on the other. *)
(***************************************************************************)
EXTENDS Ppi8255

CONSTANTS
  Values,     \* the bytes the CPU and the devices put on the ports
  Words,      \* the control words the CPU may write
  CBits       \* the port C bits it sets and resets; other values of port C
              \* reach nothing but the port itself

ASSUME ChipAssumption ==
  Values \subseteq Byte /\ Words \subseteq ControlWord /\ CBits \subseteq Bit

VARIABLE ppi

vars == <<ppi>>

Init == ppi = ResetPpi

Reset == ppi' = ResetPpi
Program == \E cw \in Words : ppi' = WriteMode(ppi, cw)
SetBit == \E bit \in CBits, set \in BOOLEAN : ppi' = BitSetReset(ppi, bit, set)
WritePort == \E v \in Values : ppi' = WriteA(ppi, v) \/ ppi' = WriteB(ppi, v)
WritePortC == \E bits \in SUBSET CBits : ppi' = WriteC(ppi, bits)
ReadPort == ppi' = ReadA(ppi) \/ ppi' = ReadB(ppi)
Pins == \E v \in Values : \/ ppi' = [ppi EXCEPT !.a.pin = v]
                        \/ ppi' = [ppi EXCEPT !.b.pin = v]
Strobe == \E high \in BOOLEAN : ppi' = SetStrobeA(ppi, high) \/ ppi' = SetStrobeB(ppi, high)
Ack == \E high \in BOOLEAN : ppi' = SetAckA(ppi, high) \/ ppi' = SetAckB(ppi, high)
Pulse == \/ \E v \in Values : ppi' = PulseStrobeA(ppi, v) \/ ppi' = PulseStrobeB(ppi, v)
         \/ ppi' = PulseAckA(ppi) \/ ppi' = PulseAckB(ppi)

Next == \/ Reset \/ Program \/ SetBit \/ WritePort \/ WritePortC \/ ReadPort
        \/ Pins \/ Strobe \/ Ack \/ Pulse

Spec == Init /\ [][Next]_vars

----------------------------------------------------------------------------
TypeOK == ppi \in PpiState

(* Whatever was done last, both INTR pins show what the handshake state    *)
(* asks for: no operation of the class forgets update_interrupts, and      *)
(* calling it once more would change nothing.                              *)
InterruptsSettled == UpdateInterrupts(ppi) = ppi

(* While a handshake is in use port C shows it: IBF, /OBF and INTR are     *)
(* read where the mode puts them whatever the port C latch or pins say.    *)
StatusBits ==
  LET c == ReadCValue(ppi) IN
  /\ ppi.a.mode # 0 => (3 \in c <=> ppi.a.intr)
  /\ Strobed(ppi.a) => (5 \in c <=> ppi.a.ibf)
  /\ Acknowledged(ppi.a) => (7 \in c <=> ppi.a.obf)
  /\ ppi.b.mode = 1 => (0 \in c <=> ppi.b.intr)
  /\ ppi.b.mode = 1 => (1 \in c <=> IF ppi.b.input THEN ppi.b.ibf ELSE ppi.b.obf)

(* What the CPU learns from the chip is true: the INTR pins and the status *)
(* read from port C are those of the handshake, in every mode.             *)
StatusIsTrue == TypeOK /\ InterruptsSettled /\ StatusBits

Enabled(g, h) == (~g.inteIn /\ h.inteIn) \/ (~g.inteOut /\ h.inteOut)
RequestHasCause(g, h) ==
  ~g.intr /\ h.intr =>
    \/ Enabled(g, h)
    \/ h.stb /\ h.ibf /\ (~g.stb \/ ~g.ibf \/ g.latch # h.latch)
    \/ h.ack /\ h.obf /\ (~g.ack \/ ~g.obf \/ ~g.acked)

(* INTR rises only because a pulse on /STB or /ACK has ended or the CPU    *)
(* has just set an INTE flip-flop.  Reading, writing or reprogramming a    *)
(* port can withdraw a request but never make one.                         *)
RequestsHaveCause == [][ /\ RequestHasCause(ppi.a, ppi'.a)
                         /\ RequestHasCause(ppi.b, ppi'.b) ]_vars
=============================================================================
