------------------------- MODULE Ppi8255Link_proofs -------------------------
(***************************************************************************)
(* The 8255 keeps its type and its interrupt pins settled and requests an  *)
(* interrupt for a cause only, and linked as A6h links it its two ports    *)
(* are one-place buffers: for every set of byte values, control words and  *)
(* port C bits.                                                            *)
(***************************************************************************)
EXTENDS Ppi8255Link, Ppi8255Lemmas, TLAPS

Inv == TypeOK /\ InterruptsSettled

LEMMA StepSettles == Inv /\ [Next]_vars => Inv'
<1> SUFFICES ASSUME Inv, [Next]_vars PROVE SettledPpi(ppi')
  BY DEF SettledPpi, Inv, TypeOK, InterruptsSettled
<1>0. SettledPpi(ppi) BY DEF SettledPpi, Inv, TypeOK, InterruptsSettled
<1>1. CASE Reset BY <1>1, ResetSettles DEF Reset
<1>2. CASE Program
  BY <1>0, <1>2, ChipAssumption, CpuOperationsSettle DEF Program
<1>3. CASE SetBit
  BY <1>0, <1>3, ChipAssumption, CpuOperationsSettle DEF SetBit
<1>4. CASE WritePort
  BY <1>0, <1>4, ChipAssumption, CpuOperationsSettle DEF WritePort
<1>5. CASE WritePortC
  BY <1>0, <1>5, ChipAssumption, CpuOperationsSettle DEF WritePortC
<1>6. CASE ReadPort
  BY <1>0, <1>6, CpuOperationsSettle DEF ReadPort
<1>7. CASE Pins
  <2>1. PICK v \in Byte : ppi' = [ppi EXCEPT !.a.pin = v] \/ ppi' = [ppi EXCEPT !.b.pin = v]
    BY <1>7, ChipAssumption DEF Pins
  <2>2. SettledPpi([ppi EXCEPT !.a.pin = v]) /\ SettledPpi([ppi EXCEPT !.b.pin = v])
    BY <1>0, DeviceOperationsSettle
  <2> QED BY <2>1, <2>2
<1>8. CASE Strobe
  BY <1>0, <1>8, ChipAssumption, DeviceOperationsSettle DEF Strobe
<1>9. CASE Ack BY <1>0, <1>9, DeviceOperationsSettle DEF Ack
<1>10. CASE Pulse BY <1>0, <1>10, ChipAssumption, DeviceOperationsSettle DEF Pulse
<1>11. CASE UNCHANGED vars BY <1>0, <1>11 DEF vars
<1> QED BY <1>1, <1>2, <1>3, <1>4, <1>5, <1>6, <1>7, <1>8, <1>9, <1>10, <1>11 DEF Next

(* For every set of byte values, control words and port C bits, whatever   *)
(* sequence of class Ppi8255's operations runs: the state keeps its type   *)
(* and both INTR pins show exactly what the handshake state asks for.      *)
THEOREM Correct == Spec => []Inv
<1>1. Init => Inv
  BY ResetSettles DEF Init, Inv, TypeOK, InterruptsSettled, SettledPpi
<1>2. Inv /\ [Next]_vars => Inv'
  BY StepSettles
<1> QED BY <1>1, <1>2, PTL DEF Spec

(* Port C shows the handshake in every state of the right type: a mode's    *)
(* bits come from the flip-flops and never from the latch or the pins.      *)
LEMMA PortCShowsHandshake == TypeOK => StatusBits
<1> SUFFICES ASSUME TypeOK PROVE StatusBits
  OBVIOUS
<1> DEFINE c == ReadCValue(ppi)
<1>1. ppi.a \in Group /\ ppi.b \in Group
  BY DEF TypeOK, PpiState
<1>2. /\ ppi.a.mode # 0 => (3 \in c <=> ppi.a.intr)
      /\ Strobed(ppi.a) => (5 \in c <=> ppi.a.ibf)
      /\ Acknowledged(ppi.a) => (7 \in c <=> ppi.a.obf)
  BY <1>1 DEF ReadCValue, Bit, BitsA, BitsB, HighA, Strobed, Acknowledged, Group
<1>3. ppi.b.mode = 1 => /\ 0 \in c <=> ppi.b.intr
                        /\ 1 \in c <=> IF ppi.b.input THEN ppi.b.ibf ELSE ppi.b.obf
  BY <1>1 DEF ReadCValue, Bit, BitsB, HighB, Group
<1> QED BY <1>2, <1>3 DEF StatusBits

(* The ports, flip-flops and pins stay in their ranges. *)
THEOREM TypeCorrect == Spec => []TypeOK
BY Correct, PTL DEF Inv

(* In every mode, whatever sequence of operations runs, the INTR pins and  *)
(* the status bits of port C are what the handshake state asks for.        *)
THEOREM StatusAlwaysTrue == Spec => []StatusIsTrue
<1>1. Inv => StatusIsTrue BY PortCShowsHandshake DEF Inv, StatusIsTrue
<1> QED BY <1>1, Correct, PTL

----------------------------------------------------------------------------
(* The causes of a request. *)

(* Group by group, a request that rises has a cause. *)
LEMMA GroupHasCause ==
  ASSUME NEW g \in Group, g.intr = Request(g)
  PROVE  /\ RequestHasCause(g, g)
         /\ \A v \in Byte : /\ RequestHasCause(g, Shown(GroupWrite(g, v)))
                            /\ RequestHasCause(g, [g EXCEPT !.pin = v])
         /\ RequestHasCause(g, Shown(GroupRead(g)))
         /\ \A high \in BOOLEAN : /\ RequestHasCause(g, Shown(GroupStrobe(g, high)))
                                  /\ RequestHasCause(g, Shown(GroupAck(g, high)))
         /\ \A mode \in 0 .. 2, input \in BOOLEAN :
              RequestHasCause(g, Shown(GroupMode(g, mode, input)))
<1>1. g.intr = (InputRequest(g) \/ OutputRequest(g))
  BY DEF Request
<1>2. RequestHasCause(g, g)
  BY DEF RequestHasCause
<1>3. ASSUME NEW v \in Byte PROVE RequestHasCause(g, Shown(GroupWrite(g, v)))
  <2> DEFINE h == GroupWrite(g, v)
  <2>1. h \in Group
    BY GroupTypes
  <2>2. /\ h.mode = g.mode /\ h.input = g.input /\ h.stb = g.stb /\ h.ibf = g.ibf
        /\ h.ack = g.ack /\ h.inteIn = g.inteIn /\ h.inteOut = g.inteOut
        /\ ~Acknowledged(g) \/ ~h.obf
    BY DEF GroupWrite, Group
  <2> HIDE DEF h
  <2>3. Request(h) => Request(g)
    BY <2>2 DEF Request, InputRequest, OutputRequest, Strobed, Acknowledged
  <2> QED BY <2>1, <2>3, ShownFields DEF RequestHasCause, h
<1>4. ASSUME NEW v \in Byte PROVE RequestHasCause(g, [g EXCEPT !.pin = v])
  BY DEF RequestHasCause, Group
<1>5. RequestHasCause(g, Shown(GroupRead(g)))
  <2> DEFINE h == GroupRead(g)
  <2>1. h \in Group
    BY GroupTypes
  <2>2. /\ h.mode = g.mode /\ h.input = g.input /\ h.stb = g.stb
        /\ h.ibf => g.ibf
        /\ h.ack = g.ack /\ h.obf = g.obf /\ h.acked = g.acked
        /\ h.inteIn = g.inteIn /\ h.inteOut = g.inteOut
    BY DEF GroupRead, Group
  <2> HIDE DEF h
  <2>3. Request(h) => Request(g)
    BY <2>2 DEF Request, InputRequest, OutputRequest, Strobed, Acknowledged
  <2> QED BY <2>1, <2>3, ShownFields DEF RequestHasCause, h
<1>6. ASSUME NEW high \in BOOLEAN PROVE RequestHasCause(g, Shown(GroupStrobe(g, high)))
  <2> DEFINE h == GroupStrobe(g, high)
  <2>1. h \in Group
    BY GroupTypes
  <2>2. /\ h.mode = g.mode /\ h.input = g.input /\ h.stb = high
        /\ h.ibf = g.ibf \/ ~high
        /\ h.ack = g.ack /\ h.obf = g.obf /\ h.acked = g.acked
        /\ h.inteIn = g.inteIn /\ h.inteOut = g.inteOut
    BY DEF GroupStrobe, Group
  <2> HIDE DEF h
  <2>3. Request(h) => Request(g) \/ (h.stb /\ h.ibf /\ ~g.stb)
    BY <2>2 DEF Request, InputRequest, OutputRequest, Strobed, Acknowledged
  <2> QED BY <2>1, <2>3, ShownFields DEF RequestHasCause, h
<1>7. ASSUME NEW high \in BOOLEAN PROVE RequestHasCause(g, Shown(GroupAck(g, high)))
  <2> DEFINE h == GroupAck(g, high)
  <2>1. h \in Group
    BY GroupTypes
  <2>2. /\ h.mode = g.mode /\ h.input = g.input /\ h.stb = g.stb /\ h.ibf = g.ibf
        /\ h.ack = high
        /\ (g.ack /\ high) => h.obf = g.obf /\ h.acked = g.acked
        /\ h.inteIn = g.inteIn /\ h.inteOut = g.inteOut
    BY DEF GroupAck, Group
  <2> HIDE DEF h
  <2>3. Request(h) => Request(g) \/ (h.ack /\ h.obf /\ ~g.ack)
    BY <2>2 DEF Request, InputRequest, OutputRequest, Strobed, Acknowledged, Group
  <2> QED BY <2>1, <2>3, ShownFields DEF RequestHasCause, h
<1>8. ASSUME NEW mode \in 0 .. 2, NEW input \in BOOLEAN
      PROVE  RequestHasCause(g, Shown(GroupMode(g, mode, input)))
  <2> DEFINE h == GroupMode(g, mode, input)
  <2>1. h \in Group
    BY GroupTypes
  <2>2. ~h.inteIn /\ ~h.inteOut
    BY DEF GroupMode
  <2> HIDE DEF h
  <2>3. ~Request(h)
    BY <2>2 DEF Request, InputRequest, OutputRequest
  <2> QED BY <2>1, <2>3, ShownFields DEF RequestHasCause, h
<1> QED BY <1>2, <1>3, <1>4, <1>5, <1>6, <1>7, <1>8

Caused(p, q) == RequestHasCause(p.a, q.a) /\ RequestHasCause(p.b, q.b)

(* What the CPU does: only a set INTE flip-flop makes a request. *)
LEMMA CpuHasCause ==
  ASSUME NEW p, SettledPpi(p)
  PROVE  /\ \A cw \in ControlWord : Caused(p, WriteMode(p, cw))
         /\ \A bit \in Bit, set \in BOOLEAN : Caused(p, BitSetReset(p, bit, set))
         /\ \A v \in Byte : Caused(p, WriteA(p, v)) /\ Caused(p, WriteB(p, v))
         /\ \A bits \in SUBSET Bit : Caused(p, WriteC(p, bits))
         /\ Caused(p, ReadA(p)) /\ Caused(p, ReadB(p))
<1>1. /\ p \in PpiState /\ p.a \in Group /\ p.b \in Group
      /\ p.a.intr = Request(p.a) /\ p.b.intr = Request(p.b)
  BY SettledPins DEF PpiState, SettledPpi
<1>2. RequestHasCause(p.a, p.a) /\ RequestHasCause(p.b, p.b) /\ Caused(p, p)
  BY DEF RequestHasCause, Caused
<1>3. \A q \in PpiState : UpdateInterrupts(q).a = Shown(q.a) /\ UpdateInterrupts(q).b = Shown(q.b)
  BY UpdateInterruptsType DEF Shown
<1>4. ASSUME NEW cw \in ControlWord PROVE Caused(p, WriteMode(p, cw))
  <2> DEFINE ga == GroupMode(p.a, cw.modeA, cw.inA)
             gb == GroupMode(p.b, cw.modeB, cw.inB)
  <2>1. cw.modeA \in 0 .. 2 /\ cw.modeB \in 0 .. 2 /\ cw.inA \in BOOLEAN /\ cw.inB \in BOOLEAN
    BY DEF ControlWord
  <2>2. /\ ga \in Group /\ RequestHasCause(p.a, Shown(ga))
        /\ gb \in Group /\ RequestHasCause(p.b, Shown(gb))
    BY <1>1, <2>1, GroupTypes, GroupHasCause
  <2>3. ModeSet(p, cw) = [a |-> ga, b |-> gb, inCU |-> cw.inCU, inCL |-> cw.inCL,
                          outC |-> {}, pinC |-> p.pinC]
    BY DEF ModeSet
  <2> HIDE DEF ga, gb
  <2>4. ModeSet(p, cw) \in PpiState /\ ModeSet(p, cw).a = ga /\ ModeSet(p, cw).b = gb
    BY <1>1, <2>2, <2>3 DEF PpiState, ControlWord
  <2> QED BY <1>3, <2>2, <2>4 DEF WriteMode, Caused
<1>5. ASSUME NEW bit \in Bit, NEW set \in BOOLEAN PROVE Caused(p, BitSetReset(p, bit, set))
  <2>1. CASE bit = 4 /\ Strobed(p.a)
    <3> DEFINE h == [p.a EXCEPT !.inteIn = set]
    <3>1. /\ h \in Group /\ h.mode = p.a.mode /\ h.input = p.a.input /\ h.inteIn = set
          /\ h.stb = p.a.stb /\ h.ibf = p.a.ibf /\ h.inteOut = p.a.inteOut
          /\ h.ack = p.a.ack /\ h.obf = p.a.obf /\ h.acked = p.a.acked
      BY <1>1 DEF Group
    <3>2. BitSetReset(p, bit, set) = UpdateInterrupts([p EXCEPT !.a = h])
      BY <2>1 DEF BitSetReset
    <3> HIDE DEF h
    <3>3. Request(h) => Request(p.a) \/ (~p.a.inteIn /\ h.inteIn)
      BY <3>1 DEF Request, InputRequest, OutputRequest, Strobed, Acknowledged
    <3>4. RequestHasCause(p.a, Shown(h))
      BY <1>1, <3>1, <3>3, ShownFields DEF RequestHasCause, Enabled
    <3> QED BY <1>2, <3>1, <3>2, <3>4, OneGroup DEF Caused
  <2>2. CASE bit = 6 /\ Acknowledged(p.a)
    <3> DEFINE h == [p.a EXCEPT !.inteOut = set]
    <3>1. /\ h \in Group /\ h.mode = p.a.mode /\ h.input = p.a.input /\ h.inteOut = set
          /\ h.stb = p.a.stb /\ h.ibf = p.a.ibf /\ h.inteIn = p.a.inteIn
          /\ h.ack = p.a.ack /\ h.obf = p.a.obf /\ h.acked = p.a.acked
      BY <1>1 DEF Group
    <3>2. BitSetReset(p, bit, set) = UpdateInterrupts([p EXCEPT !.a = h])
      BY <2>2 DEF BitSetReset
    <3> HIDE DEF h
    <3>3. Request(h) => Request(p.a) \/ (~p.a.inteOut /\ h.inteOut)
      BY <3>1 DEF Request, InputRequest, OutputRequest, Strobed, Acknowledged
    <3>4. RequestHasCause(p.a, Shown(h))
      BY <1>1, <3>1, <3>3, ShownFields DEF RequestHasCause, Enabled
    <3> QED BY <1>2, <3>1, <3>2, <3>4, OneGroup DEF Caused
  <2>3. CASE bit = 2 /\ p.b.mode = 1
    <3> DEFINE h == [p.b EXCEPT !.inteIn = set, !.inteOut = set]
    <3>1. /\ h \in Group /\ h.mode = p.b.mode /\ h.input = p.b.input
          /\ h.inteIn = set /\ h.inteOut = set
          /\ h.stb = p.b.stb /\ h.ibf = p.b.ibf
          /\ h.ack = p.b.ack /\ h.obf = p.b.obf /\ h.acked = p.b.acked
      BY <1>1 DEF Group
    <3>2. BitSetReset(p, bit, set) = UpdateInterrupts([p EXCEPT !.b = h])
      <4>1. BitSetReset(p, bit, set) =
              UpdateInterrupts([p EXCEPT !.b.inteIn = set, !.b.inteOut = set])
        BY <2>3 DEF BitSetReset
      <4>2. [p EXCEPT !.b.inteIn = set, !.b.inteOut = set] = [p EXCEPT !.b = h]
        BY <1>1, ZenonT(60) DEF PpiState
      <4> QED BY <4>1, <4>2
    <3> HIDE DEF h
    <3>3. Request(h) => \/ Request(p.b)
                        \/ (~p.b.inteIn /\ h.inteIn) \/ (~p.b.inteOut /\ h.inteOut)
      BY <3>1 DEF Request, InputRequest, OutputRequest, Strobed, Acknowledged
    <3>4. RequestHasCause(p.b, Shown(h))
      BY <1>1, <3>1, <3>3, ShownFields DEF RequestHasCause, Enabled
    <3> QED BY <1>2, <3>1, <3>2, <3>4, OneGroup DEF Caused
  <2>4. CASE /\ ~(bit = 4 /\ Strobed(p.a)) /\ ~(bit = 6 /\ Acknowledged(p.a))
             /\ ~(bit = 2 /\ p.b.mode = 1)
    <3> DEFINE out == IF set THEN p.outC \cup {bit} ELSE p.outC \ {bit}
               q == [p EXCEPT !.outC = out]
    <3>1. BitSetReset(p, bit, set) = UpdateInterrupts(q)
      BY <2>4 DEF BitSetReset
    <3>2. out \in SUBSET Bit
      BY <1>1 DEF PpiState
    <3> HIDE DEF out
    <3>3. q \in PpiState /\ q.a = p.a /\ q.b = p.b
      BY <1>1, <3>2 DEF PpiState
    <3>4. p.a = Shown(p.a) /\ p.b = Shown(p.b)
      BY <1>1, <1>3 DEF SettledPpi
    <3> QED BY <1>2, <1>3, <3>1, <3>3, <3>4 DEF Caused
  <2> QED BY <2>1, <2>2, <2>3, <2>4
<1>6. ASSUME NEW v \in Byte PROVE Caused(p, WriteA(p, v)) /\ Caused(p, WriteB(p, v))
  <2>1. /\ GroupWrite(p.a, v) \in Group /\ GroupWrite(p.b, v) \in Group
        /\ RequestHasCause(p.a, Shown(GroupWrite(p.a, v)))
        /\ RequestHasCause(p.b, Shown(GroupWrite(p.b, v)))
    BY <1>1, GroupTypes, GroupHasCause
  <2> QED BY <1>2, <2>1, OneGroup DEF WriteA, WriteB, Caused
<1>7. ASSUME NEW bits \in SUBSET Bit PROVE Caused(p, WriteC(p, bits))
  <2> DEFINE q == [p EXCEPT !.outC = bits]
  <2>1. q \in PpiState /\ q.a = p.a /\ q.b = p.b
    BY <1>1 DEF PpiState
  <2>2. p.a = Shown(p.a) /\ p.b = Shown(p.b)
    BY <1>1, <1>3 DEF SettledPpi
  <2> QED BY <1>2, <1>3, <2>1, <2>2 DEF Caused, WriteC
<1>8. Caused(p, ReadA(p)) /\ Caused(p, ReadB(p))
  <2>1. /\ GroupRead(p.a) \in Group /\ GroupRead(p.b) \in Group
        /\ RequestHasCause(p.a, Shown(GroupRead(p.a)))
        /\ RequestHasCause(p.b, Shown(GroupRead(p.b)))
    BY <1>1, GroupTypes, GroupHasCause
  <2> QED BY <1>2, <2>1, OneGroup DEF ReadA, ReadB, Caused
<1> QED BY <1>4, <1>5, <1>6, <1>7, <1>8

(* A whole pulse, which withdraws a request and makes it again. *)
LEMMA PulseHasCause ==
  ASSUME NEW g \in Group, g.intr = Request(g), NEW v \in Byte
  PROVE  /\ LET low == Shown(GroupStrobe([g EXCEPT !.pin = v], FALSE))
            IN low \in Group /\ RequestHasCause(g, Shown(GroupStrobe(low, TRUE)))
         /\ LET low == Shown(GroupAck(g, FALSE))
            IN low \in Group /\ RequestHasCause(g, Shown(GroupAck(low, TRUE)))
<1>1. ASSUME NEW low, low = Shown(GroupStrobe([g EXCEPT !.pin = v], FALSE))
      PROVE  low \in Group /\ RequestHasCause(g, Shown(GroupStrobe(low, TRUE)))
  <2> DEFINE pinned == [g EXCEPT !.pin = v]
             s == GroupStrobe(pinned, FALSE)
             h == GroupStrobe(low, TRUE)
  <2>1. /\ pinned \in Group /\ pinned.mode = g.mode /\ pinned.input = g.input
        /\ pinned.stb = g.stb /\ pinned.ibf = g.ibf /\ pinned.latch = g.latch
        /\ pinned.ack = g.ack /\ pinned.obf = g.obf /\ pinned.acked = g.acked
        /\ pinned.inteIn = g.inteIn /\ pinned.inteOut = g.inteOut
    BY DEF Group
  <2> HIDE DEF pinned
  <2>2. s \in Group
    BY <2>1, GroupTypes
  <2>3. /\ s.mode = g.mode /\ s.input = g.input /\ s.stb = FALSE
        /\ g.stb \/ s.ibf = g.ibf
        /\ Strobed(g) \/ s.ibf = g.ibf
        /\ s.ack = g.ack /\ s.obf = g.obf /\ s.acked = g.acked
        /\ s.inteIn = g.inteIn /\ s.inteOut = g.inteOut
    BY <2>1 DEF GroupStrobe, Group, Strobed
  <2> HIDE DEF s
  <2>4. /\ low \in Group /\ low.mode = g.mode /\ low.input = g.input /\ low.stb = FALSE
        /\ low.ibf = s.ibf
        /\ low.ack = g.ack /\ low.obf = g.obf /\ low.acked = g.acked
        /\ low.inteIn = g.inteIn /\ low.inteOut = g.inteOut
    <3>1. low = Shown(s)
      BY <1>1 DEF s, pinned
    <3> QED BY <2>2, <2>3, <3>1, ShownFields
  <2>5. h \in Group
    BY <2>4, GroupTypes
  <2>6. /\ h.mode = g.mode /\ h.input = g.input /\ h.stb = TRUE /\ h.ibf = s.ibf
        /\ h.ack = g.ack /\ h.obf = g.obf /\ h.acked = g.acked
        /\ h.inteIn = g.inteIn /\ h.inteOut = g.inteOut
    BY <2>4 DEF GroupStrobe, Group
  <2> HIDE DEF h
  <2>7. Request(h) => Request(g) \/ (h.stb /\ h.ibf /\ (~g.stb \/ ~g.ibf))
    <3>1. CASE g.stb /\ g.ibf
      BY <2>3, <2>6, <3>1 DEF Request, InputRequest, OutputRequest, Strobed, Acknowledged
    <3>2. CASE ~(g.stb /\ g.ibf)
      BY <2>3, <2>6, <3>2 DEF Request, InputRequest, OutputRequest, Strobed, Acknowledged
    <3> QED BY <3>1, <3>2
  <2>8. RequestHasCause(g, Shown(h))
    BY <2>5, <2>7, ShownFields DEF RequestHasCause
  <2> QED BY <2>4, <2>8 DEF h
<1>2. ASSUME NEW low, low = Shown(GroupAck(g, FALSE))
      PROVE  low \in Group /\ RequestHasCause(g, Shown(GroupAck(low, TRUE)))
  <2> DEFINE s == GroupAck(g, FALSE)
             h == GroupAck(low, TRUE)
  <2>1. s \in Group
    BY GroupTypes
  <2>2. /\ s.mode = g.mode /\ s.input = g.input /\ s.stb = g.stb /\ s.ibf = g.ibf
        /\ s.ack = FALSE
        /\ Acknowledged(g) \/ s.obf = g.obf
        /\ g.obf => s.obf
        /\ s.inteIn = g.inteIn /\ s.inteOut = g.inteOut
    BY DEF GroupAck, Group
  <2> HIDE DEF s
  <2>3. /\ low \in Group /\ low.mode = g.mode /\ low.input = g.input /\ low.stb = g.stb
        /\ low.ibf = g.ibf /\ low.ack = FALSE /\ low.obf = s.obf
        /\ low.inteIn = g.inteIn /\ low.inteOut = g.inteOut
    <3>1. low = Shown(s)
      BY <1>2 DEF s
    <3> QED BY <2>1, <2>2, <3>1, ShownFields
  <2>4. h \in Group
    BY <2>3, GroupTypes
  <2>5. /\ h.mode = g.mode /\ h.input = g.input /\ h.stb = g.stb /\ h.ibf = g.ibf
        /\ h.ack = TRUE /\ h.obf = s.obf
        /\ h.inteIn = g.inteIn /\ h.inteOut = g.inteOut
    BY <2>3 DEF GroupAck, Group
  <2> HIDE DEF h
  <2>6. Request(h) => \/ Request(g)
                      \/ h.ack /\ h.obf /\ (~g.ack \/ ~g.obf \/ ~g.acked)
    BY <2>2, <2>5 DEF Request, InputRequest, OutputRequest, Strobed, Acknowledged
  <2>7. RequestHasCause(g, Shown(h))
    BY <2>4, <2>6, ShownFields DEF RequestHasCause
  <2> QED BY <2>3, <2>7 DEF h
<1> QED BY <1>1, <1>2

(* What the devices do: only the end of a pulse makes a request. *)
LEMMA DevicesHaveCause ==
  ASSUME NEW p, SettledPpi(p)
  PROVE  /\ \A high \in BOOLEAN :
              /\ Caused(p, SetStrobeA(p, high)) /\ Caused(p, SetStrobeB(p, high))
              /\ Caused(p, SetAckA(p, high)) /\ Caused(p, SetAckB(p, high))
         /\ \A v \in Byte :
              /\ Caused(p, [p EXCEPT !.a.pin = v]) /\ Caused(p, [p EXCEPT !.b.pin = v])
              /\ Caused(p, PulseStrobeA(p, v)) /\ Caused(p, PulseStrobeB(p, v))
         /\ Caused(p, PulseAckA(p)) /\ Caused(p, PulseAckB(p))
<1>1. /\ p \in PpiState /\ p.a \in Group /\ p.b \in Group
      /\ p.a.intr = Request(p.a) /\ p.b.intr = Request(p.b)
  BY SettledPins DEF PpiState, SettledPpi
<1>2. RequestHasCause(p.a, p.a) /\ RequestHasCause(p.b, p.b)
  BY DEF RequestHasCause
<1>3. ASSUME NEW q, SettledPpi(q), NEW high \in BOOLEAN
      PROVE  /\ SetStrobeA(q, high).a = Shown(GroupStrobe(q.a, high)) /\ SetStrobeA(q, high).b = q.b
             /\ SetStrobeB(q, high).b = Shown(GroupStrobe(q.b, high)) /\ SetStrobeB(q, high).a = q.a
             /\ SetAckA(q, high).a = Shown(GroupAck(q.a, high)) /\ SetAckA(q, high).b = q.b
             /\ SetAckB(q, high).b = Shown(GroupAck(q.b, high)) /\ SetAckB(q, high).a = q.a
             /\ SettledPpi(SetStrobeA(q, high)) /\ SettledPpi(SetStrobeB(q, high))
             /\ SettledPpi(SetAckA(q, high)) /\ SettledPpi(SetAckB(q, high))
  <2>1. q.a \in Group /\ q.b \in Group
    BY <1>3 DEF SettledPpi, PpiState
  <2>2. /\ GroupStrobe(q.a, high) \in Group /\ GroupStrobe(q.b, high) \in Group
        /\ GroupAck(q.a, high) \in Group /\ GroupAck(q.b, high) \in Group
    BY <2>1, GroupTypes
  <2> QED BY <1>3, <2>2, OneGroup, DeviceOperationsSettle
             DEF SetStrobeA, SetStrobeB, SetAckA, SetAckB
<1>4. ASSUME NEW high \in BOOLEAN
      PROVE  /\ Caused(p, SetStrobeA(p, high)) /\ Caused(p, SetStrobeB(p, high))
             /\ Caused(p, SetAckA(p, high)) /\ Caused(p, SetAckB(p, high))
  <2>1. /\ RequestHasCause(p.a, Shown(GroupStrobe(p.a, high)))
        /\ RequestHasCause(p.a, Shown(GroupAck(p.a, high)))
    BY <1>1, GroupHasCause
  <2>2. /\ RequestHasCause(p.b, Shown(GroupStrobe(p.b, high)))
        /\ RequestHasCause(p.b, Shown(GroupAck(p.b, high)))
    BY <1>1, GroupHasCause
  <2>3. Caused(p, SetStrobeA(p, high)) /\ Caused(p, SetStrobeB(p, high))
    BY <1>2, <1>3, <2>1, <2>2 DEF Caused
  <2>4. Caused(p, SetAckA(p, high)) /\ Caused(p, SetAckB(p, high))
    BY <1>2, <1>3, <2>1, <2>2 DEF Caused
  <2> QED BY <2>3, <2>4
<1>5. ASSUME NEW v \in Byte
      PROVE  /\ Caused(p, [p EXCEPT !.a.pin = v]) /\ Caused(p, [p EXCEPT !.b.pin = v])
             /\ Caused(p, PulseStrobeA(p, v)) /\ Caused(p, PulseStrobeB(p, v))
  <2> DEFINE pa == [p EXCEPT !.a.pin = v]
             pb == [p EXCEPT !.b.pin = v]
             ga == [p.a EXCEPT !.pin = v]
             gb == [p.b EXCEPT !.pin = v]
  <2>1. SettledPpi(pa) /\ SettledPpi(pb)
    BY DeviceOperationsSettle
  <2>2. pa.a = ga /\ pa.b = p.b /\ pb.b = gb /\ pb.a = p.a
    BY <1>1 DEF PpiState
  <2>3. PulseStrobeA(p, v) = SetStrobeA(SetStrobeA(pa, FALSE), TRUE)
    BY DEF PulseStrobeA
  <2>4. PulseStrobeB(p, v) = SetStrobeB(SetStrobeB(pb, FALSE), TRUE)
    BY DEF PulseStrobeB
  <2>5. /\ RequestHasCause(p.a, ga) /\ RequestHasCause(p.b, gb)
        /\ RequestHasCause(p.a, Shown(GroupStrobe(Shown(GroupStrobe(ga, FALSE)), TRUE)))
        /\ RequestHasCause(p.b, Shown(GroupStrobe(Shown(GroupStrobe(gb, FALSE)), TRUE)))
    BY <1>1, GroupHasCause, PulseHasCause
  <2> HIDE DEF pa, pb, ga, gb
  <2>6. Caused(p, pa) /\ Caused(p, pb)
    BY <1>2, <2>2, <2>5 DEF Caused
  <2>7. /\ PulseStrobeA(p, v).a = Shown(GroupStrobe(Shown(GroupStrobe(ga, FALSE)), TRUE))
        /\ PulseStrobeA(p, v).b = p.b
    <3>1. /\ SettledPpi(SetStrobeA(pa, FALSE)) /\ SetStrobeA(pa, FALSE).b = p.b
          /\ SetStrobeA(pa, FALSE).a = Shown(GroupStrobe(ga, FALSE))
      BY <1>3, <2>1, <2>2
    <3> DEFINE low == SetStrobeA(pa, FALSE)
    <3> HIDE DEF low
    <3>2. /\ SetStrobeA(low, TRUE).a = Shown(GroupStrobe(low.a, TRUE))
          /\ SetStrobeA(low, TRUE).b = low.b
      BY <1>3, <3>1 DEF low
    <3> QED BY <2>3, <3>1, <3>2 DEF low
  <2>8. /\ PulseStrobeB(p, v).b = Shown(GroupStrobe(Shown(GroupStrobe(gb, FALSE)), TRUE))
        /\ PulseStrobeB(p, v).a = p.a
    <3>1. /\ SettledPpi(SetStrobeB(pb, FALSE)) /\ SetStrobeB(pb, FALSE).a = p.a
          /\ SetStrobeB(pb, FALSE).b = Shown(GroupStrobe(gb, FALSE))
      BY <1>3, <2>1, <2>2
    <3> DEFINE low == SetStrobeB(pb, FALSE)
    <3> HIDE DEF low
    <3>2. /\ SetStrobeB(low, TRUE).b = Shown(GroupStrobe(low.b, TRUE))
          /\ SetStrobeB(low, TRUE).a = low.a
      BY <1>3, <3>1 DEF low
    <3> QED BY <2>4, <3>1, <3>2 DEF low
  <2>9. Caused(p, PulseStrobeA(p, v)) /\ Caused(p, PulseStrobeB(p, v))
    BY <1>2, <2>5, <2>7, <2>8 DEF Caused
  <2> QED BY <2>6, <2>9 DEF pa, pb
<1>6. Caused(p, PulseAckA(p)) /\ Caused(p, PulseAckB(p))
  <2>1. /\ RequestHasCause(p.a, Shown(GroupAck(Shown(GroupAck(p.a, FALSE)), TRUE)))
        /\ RequestHasCause(p.b, Shown(GroupAck(Shown(GroupAck(p.b, FALSE)), TRUE)))
    BY <1>1, PulseHasCause, ByteAssumption
  <2>2. /\ PulseAckA(p).a = Shown(GroupAck(Shown(GroupAck(p.a, FALSE)), TRUE))
        /\ PulseAckA(p).b = p.b
    <3>1. /\ SettledPpi(SetAckA(p, FALSE)) /\ SetAckA(p, FALSE).b = p.b
          /\ SetAckA(p, FALSE).a = Shown(GroupAck(p.a, FALSE))
      BY <1>3
    <3> DEFINE low == SetAckA(p, FALSE)
    <3> HIDE DEF low
    <3>2. /\ SetAckA(low, TRUE).a = Shown(GroupAck(low.a, TRUE))
          /\ SetAckA(low, TRUE).b = low.b
      BY <1>3, <3>1 DEF low
    <3> QED BY <3>1, <3>2 DEF low, PulseAckA
  <2>3. /\ PulseAckB(p).b = Shown(GroupAck(Shown(GroupAck(p.b, FALSE)), TRUE))
        /\ PulseAckB(p).a = p.a
    <3>1. /\ SettledPpi(SetAckB(p, FALSE)) /\ SetAckB(p, FALSE).a = p.a
          /\ SetAckB(p, FALSE).b = Shown(GroupAck(p.b, FALSE))
      BY <1>3
    <3> DEFINE low == SetAckB(p, FALSE)
    <3> HIDE DEF low
    <3>2. /\ SetAckB(low, TRUE).b = Shown(GroupAck(low.b, TRUE))
          /\ SetAckB(low, TRUE).a = low.a
      BY <1>3, <3>1 DEF low
    <3> QED BY <3>1, <3>2 DEF low, PulseAckB
  <2> QED BY <1>2, <2>1, <2>2, <2>3 DEF Caused
<1> QED BY <1>4, <1>5, <1>6

(* Every step of the chip. *)
LEMMA StepHasCause == Inv /\ [Next]_vars => Caused(ppi, ppi') \/ UNCHANGED vars
<1> SUFFICES ASSUME Inv, Next PROVE Caused(ppi, ppi')
  BY DEF vars
<1>1. SettledPpi(ppi)
  BY DEF SettledPpi, Inv, TypeOK, InterruptsSettled
<1>2. CASE Reset
  <2>1. ~ResetPpi.a.intr /\ ~ResetPpi.b.intr
    BY DEF ResetPpi, ResetGroup, GroupMode
  <2> QED BY <1>2, <2>1 DEF Reset, Caused, RequestHasCause
<1>3. CASE Program
  BY <1>1, <1>3, ChipAssumption, CpuHasCause DEF Program
<1>4. CASE SetBit
  BY <1>1, <1>4, ChipAssumption, CpuHasCause DEF SetBit
<1>5. CASE WritePort
  BY <1>1, <1>5, ChipAssumption, CpuHasCause DEF WritePort
<1>6. CASE WritePortC
  BY <1>1, <1>6, ChipAssumption, CpuHasCause DEF WritePortC
<1>7. CASE ReadPort
  BY <1>1, <1>7, CpuHasCause DEF ReadPort
<1>8. CASE Pins
  <2>1. PICK v \in Byte : ppi' = [ppi EXCEPT !.a.pin = v] \/ ppi' = [ppi EXCEPT !.b.pin = v]
    BY <1>8, ChipAssumption DEF Pins
  <2>2. Caused(ppi, [ppi EXCEPT !.a.pin = v]) /\ Caused(ppi, [ppi EXCEPT !.b.pin = v])
    BY <1>1, DevicesHaveCause
  <2> QED BY <2>1, <2>2
<1>9. CASE Strobe
  BY <1>1, <1>9, DevicesHaveCause DEF Strobe
<1>10. CASE Ack
  BY <1>1, <1>10, DevicesHaveCause DEF Ack
<1>11. CASE Pulse
  BY <1>1, <1>11, ChipAssumption, DevicesHaveCause DEF Pulse
<1> QED BY <1>2, <1>3, <1>4, <1>5, <1>6, <1>7, <1>8, <1>9, <1>10, <1>11 DEF Next

(* In every mode and after every sequence of operations INTR rises only at *)
(* the end of a pulse on /STB or /ACK or because the CPU has just set an   *)
(* INTE flip-flop: no read, write or new mode makes a request.             *)
THEOREM RequestsAlwaysHaveCause == Spec => RequestsHaveCause
<1>1. Inv /\ [Next]_vars => [RequestHasCause(ppi.a, ppi'.a) /\ RequestHasCause(ppi.b, ppi'.b)]_vars
  BY StepHasCause DEF Caused
<1>2. Spec => []Inv /\ [][Next]_vars
  BY Correct, PTL DEF Spec
<1> QED BY <1>1, <1>2, PTL DEF RequestsHaveCause

----------------------------------------------------------------------------
(* The linked chip.  Group A hands out and group B takes in, and the first *)
(* byte may be written unasked because nothing has been written before it. *)
Linked(p) ==
  /\ p.a.mode = 1 /\ ~p.a.input /\ p.b.mode = 1 /\ p.b.input
  /\ written = <<>> => p.a.obf

LinkInv ==
  /\ SettledPpi(ppi) /\ linked \in BOOLEAN
  /\ linked => Linked(ppi)
  /\ ~linked => written = <<>>

(* The two mapped states and the steps between them. *)
OutSlot == Pending(~ppi.a.obf, ppi.a.out)
InSlot == Pending(ppi.b.ibf, ppi.b.latch)

Handed(slot, slotNext, put, putNext, taken, takenNext) ==
  \/ slotNext = slot /\ putNext = put /\ takenNext = taken
  \/ \E v \in Byte : /\ slot = <<>> /\ slotNext = <<v>>
                     /\ putNext = Append(put, v) /\ takenNext = taken
  \/ /\ slot # <<>> /\ slotNext = <<>>
     /\ takenNext = Append(taken, Head(slot)) /\ putNext = put

Buffered == /\ Handed(OutSlot, OutSlot', written, written', printed, printed')
            /\ Handed(InSlot, InSlot', fed, fed', received, received')

LEMMA BufferedSteps ==
  Buffered => [Output!Next]_(Output!vars) /\ [Input!Next]_(Input!vars)
<1>1. Handed(OutSlot, OutSlot', written, written', printed, printed')
        => [Output!Next]_(Output!vars)
  BY DEF Handed, OutSlot, Output!Next, Output!Put, Output!Take, Output!vars
<1>2. Handed(InSlot, InSlot', fed, fed', received, received')
        => [Input!Next]_(Input!vars)
  BY DEF Handed, InSlot, Input!Next, Input!Put, Input!Take, Input!vars
<1> QED BY <1>1, <1>2 DEF Buffered

(* A slot moves as the fields it is made of do. *)
LEMMA SlotIs ==
  /\ OutSlot = IF linked /\ ~ppi.a.obf THEN <<ppi.a.out>> ELSE <<>>
  /\ OutSlot' = IF linked' /\ ~ppi'.a.obf THEN <<ppi'.a.out>> ELSE <<>>
  /\ InSlot = IF linked /\ ppi.b.ibf THEN <<ppi.b.latch>> ELSE <<>>
  /\ InSlot' = IF linked' /\ ppi'.b.ibf THEN <<ppi'.b.latch>> ELSE <<>>
BY DEF OutSlot, InSlot, Pending

LEMMA LinkStep ==
  LinkInv /\ [LinkNext]_lvars => LinkInv' /\ Buffered /\ (Caused(ppi, ppi') \/ UNCHANGED vars)
<1> SUFFICES ASSUME LinkInv, [LinkNext]_lvars
             PROVE  LinkInv' /\ Buffered /\ (Caused(ppi, ppi') \/ UNCHANGED vars)
  OBVIOUS
<1> USE SlotIs
<1>1. /\ SettledPpi(ppi) /\ ppi \in PpiState /\ ppi.a \in Group /\ ppi.b \in Group
      /\ ppi.a.intr = Request(ppi.a) /\ ppi.b.intr = Request(ppi.b)
      /\ linked \in BOOLEAN /\ (linked => Linked(ppi)) /\ (~linked => written = <<>>)
  BY SettledPins DEF LinkInv, PpiState, SettledPpi
<1>2. \A g \in Group, n \in BOOLEAN, v \in Byte :
         /\ GroupStrobe(g, n) \in Group /\ GroupAck(g, n) \in Group
         /\ GroupWrite(g, v) \in Group /\ GroupRead(g) \in Group
  BY GroupTypes
<1>3. linked => /\ ppi.a.mode = 1 /\ ~ppi.a.input /\ ppi.b.mode = 1 /\ ppi.b.input
                /\ written = <<>> => ppi.a.obf
  BY <1>1 DEF Linked
<1>4. ASSUME SettledPpi(ppi'), linked' = linked, linked, Linked(ppi)'
      PROVE  LinkInv'
  BY <1>4 DEF LinkInv, SettledPpi
<1>5. CASE Before
  <2>1. UNCHANGED <<linked, written, printed, fed, received>> /\ ~linked /\ Next
    BY <1>5 DEF Before
  <2>2. Inv
    BY <1>1 DEF Inv, TypeOK, InterruptsSettled, SettledPpi
  <2>3. SettledPpi(ppi')
    BY <2>1, <2>2, StepSettles DEF Inv, TypeOK, InterruptsSettled, SettledPpi
  <2>4. LinkInv'
    BY <1>1, <2>1, <2>3 DEF LinkInv, SettledPpi
  <2>5. Buffered
    BY <2>1 DEF Buffered, Handed
  <2> QED BY <2>1, <2>2, <2>4, <2>5, StepHasCause
<1>6. CASE SetUp
  <2>1. /\ ~linked /\ linked' = TRUE /\ ppi' = WriteMode(ppi, DataWord)
        /\ UNCHANGED <<written, printed, fed, received>>
    BY <1>6 DEF SetUp
  <2>2. DataWord \in ControlWord
    BY DEF DataWord, ControlWord
  <2>3. SettledPpi(ppi') /\ Caused(ppi, ppi')
    BY <1>1, <2>1, <2>2, CpuOperationsSettle, CpuHasCause
  <2> DEFINE ga == GroupMode(ppi.a, 1, FALSE)
             gb == GroupMode(ppi.b, 1, TRUE)
             q == ModeSet(ppi, DataWord)
  <2>4. ga \in Group /\ gb \in Group
    <3>1. 1 \in 0 .. 2 /\ TRUE \in BOOLEAN /\ FALSE \in BOOLEAN
      OBVIOUS
    <3> QED BY <1>1, <3>1, GroupTypes
  <2>5. /\ ga.mode = 1 /\ ~ga.input /\ ga.obf /\ gb.mode = 1 /\ gb.input /\ ~gb.ibf
    BY DEF GroupMode
  <2>6. q.a = ga /\ q.b = gb /\ q \in PpiState
    <3>1. q = [a |-> ga, b |-> gb, inCU |-> FALSE, inCL |-> FALSE, outC |-> {}, pinC |-> ppi.pinC]
      BY DEF ModeSet, DataWord
    <3> HIDE DEF ga, gb, q
    <3> QED BY <1>1, <2>4, <3>1 DEF PpiState
  <2> HIDE DEF ga, gb, q
  <2>7. ppi'.a = Shown(ga) /\ ppi'.b = Shown(gb)
    BY <2>1, <2>6, UpdateInterruptsType DEF WriteMode, Shown, q
  <2>8. /\ ppi'.a.mode = 1 /\ ~ppi'.a.input /\ ppi'.a.obf
        /\ ppi'.b.mode = 1 /\ ppi'.b.input /\ ~ppi'.b.ibf
    BY <2>4, <2>5, <2>7, ShownFields
  <2>9. LinkInv'
    BY <2>1, <2>3, <2>8 DEF LinkInv, SettledPpi, Linked
  <2>10. Buffered
    BY <2>1, <2>8 DEF Buffered, Handed
  <2> QED BY <2>3, <2>9, <2>10
<1>7. ASSUME NEW bit \in {2, 6}, EnableRequests(bit)
      PROVE  LinkInv' /\ Buffered /\ Caused(ppi, ppi')
  <2>1. /\ linked /\ ppi' = BitSetReset(ppi, bit, TRUE)
        /\ UNCHANGED <<linked, written, printed, fed, received>>
    BY <1>7 DEF EnableRequests
  <2>2. SettledPpi(ppi') /\ Caused(ppi, ppi')
    <3>1. bit \in Bit /\ TRUE \in BOOLEAN
      BY DEF Bit
    <3> QED BY <1>1, <2>1, <3>1, CpuOperationsSettle, CpuHasCause
  <2>3. /\ ppi'.a.mode = ppi.a.mode /\ ppi'.a.input = ppi.a.input
        /\ ppi'.a.obf = ppi.a.obf /\ ppi'.a.out = ppi.a.out
        /\ ppi'.b.mode = ppi.b.mode /\ ppi'.b.input = ppi.b.input
        /\ ppi'.b.ibf = ppi.b.ibf /\ ppi'.b.latch = ppi.b.latch
    <3>1. CASE bit = 6
      <4> DEFINE set == TRUE
                 h == [ppi.a EXCEPT !.inteOut = set]
      <4>1. Acknowledged(ppi.a)
        BY <1>3, <2>1 DEF Acknowledged
      <4>2. ppi' = UpdateInterrupts([ppi EXCEPT !.a = h])
        BY <2>1, <3>1, <4>1 DEF BitSetReset
      <4>3. set \in BOOLEAN
        OBVIOUS
      <4> HIDE DEF set
      <4>4. /\ h \in Group /\ h.mode = ppi.a.mode /\ h.input = ppi.a.input
            /\ h.obf = ppi.a.obf /\ h.out = ppi.a.out
        BY <1>1, <4>3 DEF Group
      <4> HIDE DEF h
      <4>5. ppi'.a = Shown(h) /\ ppi'.b = ppi.b
        BY <1>1, <4>2, <4>4, OneGroup
      <4> QED BY <4>4, <4>5, ShownFields
    <3>2. CASE bit = 2
      <4> DEFINE set == TRUE
                 h == [ppi.b EXCEPT !.inteIn = set, !.inteOut = set]
      <4>1. ppi' = UpdateInterrupts([ppi EXCEPT !.b.inteIn = set, !.b.inteOut = set])
        BY <1>3, <2>1, <3>2 DEF BitSetReset
      <4>2. [ppi EXCEPT !.b.inteIn = set, !.b.inteOut = set] = [ppi EXCEPT !.b = h]
        BY <1>1, ZenonT(60) DEF PpiState
      <4>3. set \in BOOLEAN
        OBVIOUS
      <4> HIDE DEF set
      <4>4. /\ h \in Group /\ h.mode = ppi.b.mode /\ h.input = ppi.b.input
            /\ h.ibf = ppi.b.ibf /\ h.latch = ppi.b.latch
        BY <1>1, <4>3 DEF Group
      <4> HIDE DEF h
      <4>5. ppi' = UpdateInterrupts([ppi EXCEPT !.b = h])
        BY <4>1, <4>2
      <4>6. ppi'.b = Shown(h) /\ ppi'.a = ppi.a
        BY <1>1, <4>4, <4>5, OneGroup
      <4> QED BY <4>4, <4>6, ShownFields
    <3> QED BY <3>1, <3>2
  <2>4. Linked(ppi)'
    BY <1>3, <2>1, <2>3 DEF Linked
  <2>5. Buffered
    BY <2>1, <2>3 DEF Buffered, Handed
  <2> QED BY <1>4, <2>1, <2>2, <2>4, <2>5
<1>8. ASSUME NEW v \in Byte, CpuWrite(v)
      PROVE  LinkInv' /\ Buffered /\ Caused(ppi, ppi')
  <2>1. /\ linked /\ ppi' = WriteA(ppi, v) /\ written' = Append(written, v)
        /\ written = <<>> \/ ppi.a.intr
        /\ UNCHANGED <<linked, printed, fed, received>>
    BY <1>8 DEF CpuWrite
  <2>2. SettledPpi(ppi') /\ Caused(ppi, ppi')
    BY <1>1, <2>1, CpuOperationsSettle, CpuHasCause
  <2> DEFINE h == GroupWrite(ppi.a, v)
  <2>3. h \in Group /\ h.mode = 1 /\ ~h.input /\ ~h.obf /\ h.out = v /\ ppi.a.obf
    BY <1>1, <1>2, <1>3, <2>1, WrittenOut
  <2> HIDE DEF h
  <2>4. ppi'.a = Shown(h) /\ ppi'.b = ppi.b
    BY <1>1, <2>1, <2>3, OneGroup DEF WriteA, h
  <2>5. ppi'.a.mode = 1 /\ ~ppi'.a.input /\ ~ppi'.a.obf /\ ppi'.a.out = v
    BY <2>3, <2>4, ShownFields
  <2>6. written' # <<>>
    BY <1>1, <2>1 DEF LinkInv
  <2>7. Linked(ppi)'
    BY <1>3, <2>1, <2>4, <2>5, <2>6 DEF Linked
  <2>8. Buffered
    BY <2>1, <2>3, <2>4, <2>5 DEF Buffered, Handed
  <2> QED BY <1>4, <2>1, <2>2, <2>7, <2>8
<1>9. CASE CpuRead
  <2>1. /\ linked /\ ppi.b.intr /\ ppi' = ReadB(ppi)
        /\ received' = Append(received, GroupReadValue(ppi.b))
        /\ UNCHANGED <<linked, written, printed, fed>>
    BY <1>9 DEF CpuRead
  <2>2. SettledPpi(ppi') /\ Caused(ppi, ppi')
    BY <1>1, <2>1, CpuOperationsSettle, CpuHasCause
  <2> DEFINE h == GroupRead(ppi.b)
  <2>3. /\ h \in Group /\ h.mode = 1 /\ h.input /\ ~h.ibf
        /\ GroupReadValue(ppi.b) = ppi.b.latch /\ ppi.b.ibf
    BY <1>1, <1>3, <2>1, ReadIn
  <2> HIDE DEF h
  <2>4. ppi'.b = Shown(h) /\ ppi'.a = ppi.a
    <3>1. Strobed(ppi.b)
      BY <1>3, <2>1 DEF Strobed
    <3> QED BY <1>1, <2>1, <2>3, <3>1, OneGroup DEF ReadB, h
  <2>5. ppi'.b.mode = 1 /\ ppi'.b.input /\ ~ppi'.b.ibf
    BY <2>3, <2>4, ShownFields
  <2>6. Linked(ppi)'
    BY <1>3, <2>1, <2>4, <2>5 DEF Linked
  <2>7. InSlot = <<ppi.b.latch>> /\ InSlot' = <<>> /\ OutSlot' = OutSlot
    BY <2>1, <2>3, <2>4, <2>5
  <2>8. InSlot # <<>> /\ Head(InSlot) = ppi.b.latch
    BY <2>7
  <2>9. Buffered
    BY <2>1, <2>3, <2>7, <2>8 DEF Buffered, Handed
  <2> QED BY <1>4, <2>1, <2>2, <2>6, <2>9
<1>10. CASE AckFalls
  <2>1. /\ linked /\ ~ppi.a.obf /\ ppi.a.ack /\ ppi' = SetAckA(ppi, FALSE)
        /\ printed' = Append(printed, ppi.a.out)
        /\ UNCHANGED <<linked, written, fed, received>>
    BY <1>10 DEF AckFalls
  <2> DEFINE high == FALSE
             h == GroupAck(ppi.a, high)
  <2>2. high \in BOOLEAN /\ ~high /\ ppi' = SetAckA(ppi, high)
    BY <2>1
  <2> HIDE DEF high
  <2>3. h.obf
    BY <1>3, <2>1, <2>2, <1>1, AckedOut
  <2>4. SettledPpi(ppi') /\ Caused(ppi, ppi')
    BY <1>1, <2>2, DeviceOperationsSettle, DevicesHaveCause
  <2>5. h \in Group /\ h.mode = 1 /\ ~h.input
    BY <1>3, <2>1, <2>2, <1>1, AckedOut
  <2> HIDE DEF h
  <2>6. ppi'.a = Shown(h) /\ ppi'.b = ppi.b
    BY <1>1, <2>2, <2>5, OneGroup DEF SetAckA, h
  <2>7. ppi'.a.mode = 1 /\ ~ppi'.a.input /\ ppi'.a.obf
    BY <2>3, <2>5, <2>6, ShownFields
  <2>8. Linked(ppi)'
    BY <1>3, <2>1, <2>6, <2>7 DEF Linked
  <2>9. OutSlot = <<ppi.a.out>> /\ OutSlot' = <<>> /\ InSlot' = InSlot
    BY <2>1, <2>6, <2>7
  <2>10. OutSlot # <<>> /\ Head(OutSlot) = ppi.a.out
    BY <2>9
  <2>11. Buffered
    BY <2>1, <2>9, <2>10 DEF Buffered, Handed
  <2> QED BY <1>4, <2>1, <2>4, <2>8, <2>11
<1>11. CASE AckRises
  <2>1. /\ linked /\ ppi' = SetAckA(ppi, TRUE)
        /\ UNCHANGED <<linked, written, printed, fed, received>>
    BY <1>11 DEF AckRises
  <2> DEFINE high == TRUE
             h == GroupAck(ppi.a, high)
  <2>2. high \in BOOLEAN /\ high /\ ppi' = SetAckA(ppi, high)
    BY <2>1
  <2> HIDE DEF high
  <2>3. h.obf = ppi.a.obf
    BY <1>3, <2>1, <2>2, <1>1, AckedOut
  <2>4. SettledPpi(ppi') /\ Caused(ppi, ppi')
    BY <1>1, <2>2, DeviceOperationsSettle, DevicesHaveCause
  <2>5. h \in Group /\ h.mode = 1 /\ ~h.input /\ h.out = ppi.a.out
    BY <1>3, <2>1, <2>2, <1>1, AckedOut
  <2> HIDE DEF h
  <2>6. ppi'.a = Shown(h) /\ ppi'.b = ppi.b
    BY <1>1, <2>2, <2>5, OneGroup DEF SetAckA, h
  <2>7. ppi'.a.mode = 1 /\ ~ppi'.a.input /\ ppi'.a.obf = ppi.a.obf /\ ppi'.a.out = ppi.a.out
    BY <2>3, <2>5, <2>6, ShownFields
  <2>8. Linked(ppi)'
    BY <1>3, <2>1, <2>6, <2>7 DEF Linked
  <2>9. Buffered
    BY <2>1, <2>6, <2>7 DEF Buffered, Handed
  <2> QED BY <1>4, <2>1, <2>4, <2>8, <2>9
<1>12. ASSUME NEW v \in Byte, StrobeFalls(v)
       PROVE  LinkInv' /\ Buffered /\ (Caused(ppi, ppi') \/ UNCHANGED vars)
  <2>1. /\ linked /\ ~ppi.b.ibf /\ ppi.b.stb /\ fed' = Append(fed, v)
        /\ ppi' = SetStrobeB([ppi EXCEPT !.b.pin = v], FALSE)
        /\ UNCHANGED <<linked, written, printed, received>>
    BY <1>12 DEF StrobeFalls
  <2> DEFINE high == FALSE
             p == [ppi EXCEPT !.b.pin = v]
             g == [ppi.b EXCEPT !.pin = v]
             h == GroupStrobe(g, high)
  <2>2. high \in BOOLEAN /\ ~high /\ ppi' = SetStrobeB(p, high)
    BY <2>1
  <2>3. /\ p.b = g /\ p.a = ppi.a /\ g \in Group /\ g.mode = ppi.b.mode
        /\ g.input = ppi.b.input /\ g.stb = ppi.b.stb /\ g.pin = v
        /\ g.intr = ppi.b.intr /\ g.ibf = ppi.b.ibf /\ g.latch = ppi.b.latch
    BY <1>1 DEF PpiState, Group
  <2>4. SettledPpi(p) /\ Caused(ppi, p)
    BY <1>1, DeviceOperationsSettle, DevicesHaveCause
  <2> HIDE DEF p, g
  <2> HIDE DEF high
  <2>5. h.ibf /\ h.latch = v /\ h \in Group /\ h.mode = 1 /\ h.input /\ h.stb = FALSE
    BY <1>3, <2>1, <2>2, <2>3, StrobedIn
  <2> HIDE DEF h
  <2>6. SettledPpi(ppi')
    BY <2>2, <2>4, DeviceOperationsSettle
  <2>7. ppi'.b = Shown(h) /\ ppi'.a = ppi.a
    BY <2>2, <2>3, <2>4, <2>5, OneGroup DEF SetStrobeB, h
  <2>8. ppi'.b.mode = 1 /\ ppi'.b.input /\ ppi'.b.ibf /\ ppi'.b.latch = v
    BY <2>5, <2>7, ShownFields
  <2>9. Linked(ppi)'
    BY <1>3, <2>1, <2>7, <2>8 DEF Linked
  <2>10. Buffered
    BY <2>1, <2>7, <2>8 DEF Buffered, Handed
  <2>11. Caused(ppi, ppi')
    <3>1. ~Request(h)
      BY <2>5 DEF Request, InputRequest, OutputRequest, Acknowledged
    <3>2. ~ppi'.b.intr
      BY <2>5, <2>7, <3>1, ShownFields
    <3> QED BY <2>7, <3>2 DEF Caused, RequestHasCause
  <2> QED BY <1>4, <2>1, <2>6, <2>9, <2>10, <2>11
<1>13. CASE StrobeRises
  <2>1. /\ linked /\ ppi' = SetStrobeB(ppi, TRUE)
        /\ UNCHANGED <<linked, written, printed, fed, received>>
    BY <1>13 DEF StrobeRises
  <2> DEFINE high == TRUE
             h == GroupStrobe(ppi.b, high)
  <2>2. high \in BOOLEAN /\ high /\ ppi' = SetStrobeB(ppi, high)
    BY <2>1
  <2> HIDE DEF high
  <2>3. h.ibf = ppi.b.ibf /\ h.latch = ppi.b.latch
    BY <1>1, <1>3, <2>1, <2>2, StrobedIn
  <2>4. SettledPpi(ppi') /\ Caused(ppi, ppi')
    BY <1>1, <2>2, DeviceOperationsSettle, DevicesHaveCause
  <2>5. h \in Group /\ h.mode = 1 /\ h.input
    BY <1>1, <1>3, <2>1, <2>2, StrobedIn
  <2> HIDE DEF h
  <2>6. ppi'.b = Shown(h) /\ ppi'.a = ppi.a
    BY <1>1, <2>2, <2>5, OneGroup DEF SetStrobeB, h
  <2>7. /\ ppi'.b.mode = 1 /\ ppi'.b.input
        /\ ppi'.b.ibf = ppi.b.ibf /\ ppi'.b.latch = ppi.b.latch
    BY <2>3, <2>5, <2>6, ShownFields
  <2>8. Linked(ppi)'
    BY <1>3, <2>1, <2>6, <2>7 DEF Linked
  <2>9. Buffered
    BY <2>1, <2>6, <2>7 DEF Buffered, Handed
  <2> QED BY <1>4, <2>1, <2>4, <2>8, <2>9
<1>14. CASE UNCHANGED lvars
  <2>1. /\ ppi' = ppi /\ linked' = linked
        /\ UNCHANGED <<written, printed, fed, received>>
    BY <1>14 DEF lvars
  <2>2. LinkInv'
    BY <2>1 DEF LinkInv, Linked, SettledPpi
  <2> QED BY <2>1, <2>2 DEF Buffered, Handed, vars
<1> QED BY <1>5, <1>6, <1>7, <1>8, <1>9, <1>10, <1>11, <1>12, <1>13, <1>14 DEF LinkNext

LEMMA LinkStarts == LinkInit => LinkInv /\ Output!Init /\ Input!Init
<1> SUFFICES ASSUME LinkInit PROVE LinkInv /\ Output!Init /\ Input!Init
  OBVIOUS
<1>1. LinkInv
  BY ResetSettles DEF LinkInit, Init, LinkInv
<1>2. OutSlot = <<>> /\ InSlot = <<>>
  BY SlotIs DEF LinkInit
<1> QED BY <1>1, <1>2 DEF LinkInit, Output!Init, Input!Init, OutSlot, InSlot

(* Linked by A6h after anything at all, each port is a buffer of one place *)
(* between its producer and its consumer: no byte is lost, repeated or     *)
(* overtaken, for every set of bytes and any number of them, although the  *)
(* CPU acts inside the devices' pulses (set_strobe_b, set_ack_a).          *)
THEOREM PortsAlwaysBuffers == LinkSpec => PortsAreBuffers
<1>1. LinkInit => LinkInv /\ Output!Init /\ Input!Init
  BY LinkStarts
<1>2. LinkInv /\ [LinkNext]_lvars => LinkInv'
  BY LinkStep
<1>3. LinkInv /\ [LinkNext]_lvars => [Output!Next]_(Output!vars)
  BY LinkStep, BufferedSteps
<1>4. LinkInv /\ [LinkNext]_lvars => [Input!Next]_(Input!vars)
  BY LinkStep, BufferedSteps
<1> QED BY <1>1, <1>2, <1>3, <1>4, PTL DEF LinkSpec, PortsAreBuffers, Output!Spec, Input!Spec

(* The linked chip too asks for an interrupt for a cause only, and what    *)
(* the CPU reads of it is true.                                            *)
THEOREM LinkAlwaysTrue == LinkSpec => []StatusIsTrue /\ RequestsHaveCause
<1>1. LinkInit => LinkInv
  BY LinkStarts
<1>2. LinkInv /\ [LinkNext]_lvars => LinkInv'
  BY LinkStep
<1>3. LinkInv => StatusIsTrue
  BY PortCShowsHandshake DEF LinkInv, SettledPpi, StatusIsTrue, TypeOK, InterruptsSettled
<1>4. LinkInv /\ [LinkNext]_lvars
        => [RequestHasCause(ppi.a, ppi'.a) /\ RequestHasCause(ppi.b, ppi'.b)]_vars
  BY LinkStep DEF Caused
<1> QED BY <1>1, <1>2, <1>3, <1>4, PTL DEF LinkSpec, RequestsHaveCause
=============================================================================
