------------------------------ MODULE Ppi8255 ------------------------------
(***************************************************************************)
(* The 8255 parallel interface of src/src/core/ppi8255.cpp as operators on *)
(* a record, so that the modules with a PPI on their board can compose it. *)
(*                                                                         *)
(* The chip is two groups with the same handshake logic, kept in p.a and   *)
(* p.b; port C is a set of bit numbers.  Group B has one INTE flip-flop    *)
(* where group A has two: p.b keeps the same value in both fields.         *)
(***************************************************************************)
EXTENDS Naturals

CONSTANTS
  Byte,   \* the values an eight-bit data port can hold
  Zero    \* the value the ports are cleared to

ASSUME ByteAssumption == Zero \in Byte

Bit == 0 .. 7

(* What a mode-set control word says, decoded (bit 7 is 1).  *)
ControlWord == [modeA : 0 .. 2, inA : BOOLEAN, inCU : BOOLEAN,
                modeB : 0 .. 1, inB : BOOLEAN, inCL : BOOLEAN]

ResetWord == [modeA |-> 0, inA |-> TRUE, inCU |-> TRUE,
              modeB |-> 0, inB |-> TRUE, inCL |-> TRUE]

Group == [mode : 0 .. 2, input : BOOLEAN,
          out : Byte, pin : Byte, latch : Byte,
          stb : BOOLEAN, ack : BOOLEAN,          \* levels of /STB and /ACK
          ibf : BOOLEAN, obf : BOOLEAN,          \* IBF, and the level of /OBF
          acked : BOOLEAN,
          inteIn : BOOLEAN, inteOut : BOOLEAN, intr : BOOLEAN]

PpiState == [a : Group, b : Group, inCU : BOOLEAN, inCL : BOOLEAN,
             outC : SUBSET Bit, pinC : SUBSET Bit]

----------------------------------------------------------------------------
(* Handshake modes: mode 1 works in the programmed direction, mode 2 in both. *)
Strobed(g) == g.mode = 2 \/ (g.mode = 1 /\ g.input)
Acknowledged(g) == g.mode = 2 \/ (g.mode = 1 /\ ~g.input)

(* Faulty variants, named for the slip, stand before what they vary and are *)
(* used by nothing here: the mutation runs put them in its place.           *)
InputRequestEarly(g) == Strobed(g) /\ g.inteIn /\ g.ibf

(* The level update_interrupts computes for the INTR pin of a group. *)
InputRequest(g) == Strobed(g) /\ g.inteIn /\ g.ibf /\ g.stb
OutputRequest(g) == Acknowledged(g) /\ g.inteOut /\ g.acked /\ g.obf /\ g.ack
Request(g) == InputRequest(g) \/ OutputRequest(g)

UpdateInterrupts(p) ==
  [p EXCEPT !.a.intr = Request(p.a), !.b.intr = Request(p.b)]

----------------------------------------------------------------------------
(* Operations on one group; the caller updates the interrupts. *)

GroupStrobe(g, high) ==
  IF g.stb /\ ~high /\ Strobed(g)
  THEN [g EXCEPT !.stb = FALSE, !.latch = g.pin, !.ibf = TRUE, !.intr = FALSE]
  ELSE [g EXCEPT !.stb = high]

GroupAckKeepsObf(g, high) ==
  [g EXCEPT !.ack = high, !.acked = @ \/ (~g.ack /\ high)]

GroupAck(g, high) ==
  [g EXCEPT !.ack = high,
            !.obf = @ \/ (g.ack /\ ~high /\ Acknowledged(g)),
            !.acked = @ \/ (~g.ack /\ high)]

GroupWrite(g, v) ==
  IF Acknowledged(g)
  THEN [g EXCEPT !.out = v, !.obf = FALSE, !.acked = FALSE, !.intr = FALSE]
  ELSE [g EXCEPT !.out = v]

GroupRead(g) ==
  IF Strobed(g) THEN [g EXCEPT !.ibf = FALSE, !.intr = FALSE] ELSE g

GroupReadValue(g) ==
  IF Strobed(g) THEN g.latch ELSE IF g.input THEN g.pin ELSE g.out

GroupMode(g, mode, input) ==
  [mode |-> mode, input |-> input, out |-> Zero, pin |-> g.pin, latch |-> Zero,
   stb |-> TRUE, ack |-> TRUE, ibf |-> FALSE, obf |-> TRUE, acked |-> FALSE,
   inteIn |-> FALSE, inteOut |-> FALSE, intr |-> FALSE]

----------------------------------------------------------------------------
(* The operations of class Ppi8255. *)

ModeSet(p, cw) ==
  [a |-> GroupMode(p.a, cw.modeA, cw.inA), b |-> GroupMode(p.b, cw.modeB, cw.inB),
   inCU |-> cw.inCU, inCL |-> cw.inCL, outC |-> {}, pinC |-> p.pinC]

(* reset() clears the input pins as well and programs 9Bh: mode 0, all inputs. *)
ResetGroup == GroupMode([pin |-> Zero], 0, TRUE)
ResetPpi == [a |-> ResetGroup, b |-> ResetGroup, inCU |-> TRUE, inCL |-> TRUE,
             outC |-> {}, pinC |-> {}]

BitSetResetNoUpdate(p, bit, set) ==
  IF bit = 2 /\ p.b.mode = 1 THEN [p EXCEPT !.b.inteIn = set, !.b.inteOut = set]
  ELSE [p EXCEPT !.outC = IF set THEN @ \cup {bit} ELSE @ \ {bit}]

(* PC4, PC6 and PC2 are the INTE flip-flops while their group handshakes. *)
BitSetReset(p, bit, set) ==
  UpdateInterrupts(
    IF bit = 4 /\ Strobed(p.a) THEN [p EXCEPT !.a.inteIn = set]
    ELSE IF bit = 6 /\ Acknowledged(p.a) THEN [p EXCEPT !.a.inteOut = set]
    ELSE IF bit = 2 /\ p.b.mode = 1 THEN [p EXCEPT !.b.inteIn = set, !.b.inteOut = set]
    ELSE [p EXCEPT !.outC = IF set THEN @ \cup {bit} ELSE @ \ {bit}])

WriteA(p, v) == UpdateInterrupts([p EXCEPT !.a = GroupWrite(@, v)])
WriteB(p, v) == UpdateInterrupts([p EXCEPT !.b = GroupWrite(@, v)])
WriteC(p, bits) == UpdateInterrupts([p EXCEPT !.outC = bits])
WriteMode(p, cw) == UpdateInterrupts(ModeSet(p, cw))

(* read_port_a and read_port_b update the interrupts only in a strobed mode, *)
(* and then nothing else has changed since the last update.                  *)
ReadA(p) == IF Strobed(p.a) THEN UpdateInterrupts([p EXCEPT !.a = GroupRead(@)]) ELSE p
ReadB(p) == IF Strobed(p.b) THEN UpdateInterrupts([p EXCEPT !.b = GroupRead(@)]) ELSE p

SetStrobeA(p, high) == UpdateInterrupts([p EXCEPT !.a = GroupStrobe(@, high)])
SetStrobeB(p, high) == UpdateInterrupts([p EXCEPT !.b = GroupStrobe(@, high)])
SetAckA(p, high) == UpdateInterrupts([p EXCEPT !.a = GroupAck(@, high)])
SetAckB(p, high) == UpdateInterrupts([p EXCEPT !.b = GroupAck(@, high)])

PulseStrobeA(p, v) == SetStrobeA(SetStrobeA([p EXCEPT !.a.pin = v], FALSE), TRUE)
PulseStrobeB(p, v) == SetStrobeB(SetStrobeB([p EXCEPT !.b.pin = v], FALSE), TRUE)
PulseAckA(p) == SetAckA(SetAckA(p, FALSE), TRUE)
PulseAckB(p) == SetAckB(SetAckB(p, FALSE), TRUE)

(* Pins that other circuits look at. *)
PortAOutputEnabled(p) == ~p.a.input \/ p.a.mode = 2

(* The bits of port C that a mode takes over for its handshake, and which  *)
(* of them are high.                                                       *)
BitsA(g) == {x \in 3 .. 7 : \/ x = 3 /\ g.mode # 0
                            \/ x \in {4, 5} /\ Strobed(g)
                            \/ x \in {6, 7} /\ Acknowledged(g)}
HighA(g) == {x \in 3 .. 7 : \/ x = 3 /\ g.intr
                            \/ x = 4 /\ g.stb
                            \/ x = 5 /\ g.ibf
                            \/ x = 6 /\ g.ack
                            \/ x = 7 /\ g.obf}

BitsB(g) == {x \in 0 .. 2 : g.mode = 1}

HighBSwapped(g) == {x \in 0 .. 2 : \/ x = 0 /\ g.intr
                                   \/ x = 1 /\ (IF g.input THEN g.stb ELSE g.ack)
                                   \/ x = 2 /\ (IF g.input THEN g.ibf ELSE g.obf)}

HighB(g) == {x \in 0 .. 2 : \/ x = 0 /\ g.intr
                            \/ x = 1 /\ (IF g.input THEN g.ibf ELSE g.obf)
                            \/ x = 2 /\ (IF g.input THEN g.stb ELSE g.ack)}

ReadCValue(p) ==
  LET port(x) == x \in (IF (IF x >= 4 THEN p.inCU ELSE p.inCL) THEN p.pinC ELSE p.outC)
  IN {x \in Bit : IF x \in BitsB(p.b) THEN x \in HighB(p.b)
                  ELSE IF x \in BitsA(p.a) THEN x \in HighA(p.a)
                  ELSE port(x)}
=============================================================================
