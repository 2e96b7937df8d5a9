--------------------------- MODULE Ppi8255Lemmas ---------------------------
(***************************************************************************)
(* What every operation of the 8255 preserves, for every set of byte       *)
(* values: the type of the state, and that both INTR pins show what the    *)
(* handshake state asks for (SettledPpi).                                  *)
(***************************************************************************)
EXTENDS Ppi8255, TLAPS

(* Operations on one group keep its type. *)
LEMMA GroupTypes ==
  ASSUME NEW g \in Group
  PROVE  /\ \A high \in BOOLEAN : GroupStrobe(g, high) \in Group /\ GroupAck(g, high) \in Group
         /\ \A v \in Byte : GroupWrite(g, v) \in Group
         /\ GroupRead(g) \in Group
         /\ \A mode \in 0 .. 2, input \in BOOLEAN : GroupMode(g, mode, input) \in Group
<1>1. ASSUME NEW high \in BOOLEAN PROVE GroupStrobe(g, high) \in Group
  BY DEF Group, GroupStrobe, Strobed
<1>2. ASSUME NEW high \in BOOLEAN PROVE GroupAck(g, high) \in Group
  BY ZenonT(60) DEF Group, GroupAck, Acknowledged
<1>3. ASSUME NEW v \in Byte PROVE GroupWrite(g, v) \in Group
  BY DEF Group, GroupWrite, Acknowledged
<1>4. GroupRead(g) \in Group BY DEF Group, GroupRead, Strobed
<1>5. ASSUME NEW mode \in 0 .. 2, NEW input \in BOOLEAN
      PROVE  GroupMode(g, mode, input) \in Group
  BY ByteAssumption DEF Group, GroupMode
<1> QED BY <1>1, <1>2, <1>3, <1>4, <1>5

(* A request is a level. *)
LEMMA RequestType == ASSUME NEW g \in Group PROVE Request(g) \in BOOLEAN
BY DEF Group, Request, InputRequest, OutputRequest, Strobed, Acknowledged

(* What update_interrupts computes does not depend on the pins it sets. *)
LEMMA RequestIgnoresIntr ==
  ASSUME NEW g \in Group, NEW x \in BOOLEAN
  PROVE  Request([g EXCEPT !.intr = x]) = Request(g)
BY DEF Group, Request, InputRequest, OutputRequest, Strobed, Acknowledged

(* update_interrupts sets the two INTR pins and nothing else. *)
LEMMA UpdateInterruptsType ==
  ASSUME NEW p \in PpiState
  PROVE  /\ UpdateInterrupts(p) \in PpiState
         /\ UpdateInterrupts(p).a = [p.a EXCEPT !.intr = Request(p.a)]
         /\ UpdateInterrupts(p).b = [p.b EXCEPT !.intr = Request(p.b)]
<1>1. p.a \in Group /\ p.b \in Group BY DEF PpiState
<1>2. Request(p.a) \in BOOLEAN /\ Request(p.b) \in BOOLEAN BY <1>1, RequestType
<1> QED BY <1>1, <1>2, ZenonT(60) DEF UpdateInterrupts, PpiState, Group

(* A state is settled exactly when both pins show their request. *)
LEMMA SettledPins ==
  ASSUME NEW p \in PpiState
  PROVE  UpdateInterrupts(p) = p <=> p.a.intr = Request(p.a) /\ p.b.intr = Request(p.b)
<1>1. p.a \in Group /\ p.b \in Group BY DEF PpiState
<1>2. Request(p.a) \in BOOLEAN /\ Request(p.b) \in BOOLEAN BY <1>1, RequestType
<1> DEFINE q == UpdateInterrupts(p)
<1>3. /\ q \in PpiState
      /\ q.a = [p.a EXCEPT !.intr = Request(p.a)]
      /\ q.b = [p.b EXCEPT !.intr = Request(p.b)]
  BY UpdateInterruptsType
<1>4. q.inCU = p.inCU /\ q.inCL = p.inCL /\ q.outC = p.outC /\ q.pinC = p.pinC
  BY <1>1, <1>2 DEF UpdateInterrupts, PpiState
<1>5. ASSUME NEW g \in Group, NEW x \in BOOLEAN
      PROVE  [g EXCEPT !.intr = x] = g <=> g.intr = x
  BY <1>5 DEF Group
<1>6. q = p <=> q.a = p.a /\ q.b = p.b
  BY <1>3, <1>4 DEF PpiState
<1> QED BY <1>1, <1>2, <1>3, <1>5, <1>6

(* A second update_interrupts changes nothing: the pins are no input of it. *)
LEMMA UpdateInterruptsSettles ==
  ASSUME NEW p \in PpiState
  PROVE  UpdateInterrupts(UpdateInterrupts(p)) = UpdateInterrupts(p)
<1> DEFINE q == UpdateInterrupts(p)
<1>1. p.a \in Group /\ p.b \in Group BY DEF PpiState
<1>2. Request(p.a) \in BOOLEAN /\ Request(p.b) \in BOOLEAN BY <1>1, RequestType
<1>3. /\ q \in PpiState
      /\ q.a = [p.a EXCEPT !.intr = Request(p.a)]
      /\ q.b = [p.b EXCEPT !.intr = Request(p.b)]
  BY UpdateInterruptsType
<1>4. q.a.intr = Request(p.a) /\ q.b.intr = Request(p.b)
  BY <1>1, <1>2, <1>3 DEF Group
<1>5. Request(q.a) = Request(p.a) /\ Request(q.b) = Request(p.b)
  BY <1>1, <1>2, <1>3, RequestIgnoresIntr
<1> QED BY <1>3, <1>4, <1>5, SettledPins

----------------------------------------------------------------------------
(* Every operation of the class leaves a settled state of the right type.  *)

SettledPpi(p) == p \in PpiState /\ UpdateInterrupts(p) = p

(* After update_interrupts the pins show their requests. *)
LEMMA UpdateSettles == ASSUME NEW p \in PpiState PROVE SettledPpi(UpdateInterrupts(p))
BY UpdateInterruptsType, UpdateInterruptsSettles DEF SettledPpi

(* Every write and read of the CPU leaves the pins settled; a read does so *)
(* although it updates them only in a strobed mode.                        *)
LEMMA CpuOperationsSettle ==
  ASSUME NEW p, SettledPpi(p)
  PROVE  /\ \A cw \in ControlWord : SettledPpi(WriteMode(p, cw))
         /\ \A bit \in Bit, set \in BOOLEAN : SettledPpi(BitSetReset(p, bit, set))
         /\ \A v \in Byte : SettledPpi(WriteA(p, v)) /\ SettledPpi(WriteB(p, v))
         /\ \A bits \in SUBSET Bit : SettledPpi(WriteC(p, bits))
         /\ SettledPpi(ReadA(p)) /\ SettledPpi(ReadB(p))
<1>1. p \in PpiState /\ p.a \in Group /\ p.b \in Group BY DEF PpiState, SettledPpi
<1>2. ASSUME NEW cw \in ControlWord PROVE SettledPpi(WriteMode(p, cw))
  <2>1. /\ GroupMode(p.a, cw.modeA, cw.inA) \in Group
        /\ GroupMode(p.b, cw.modeB, cw.inB) \in Group
    <3>1. cw.modeA \in 0 .. 2 /\ cw.modeB \in 0 .. 2 /\ cw.inA \in BOOLEAN /\ cw.inB \in BOOLEAN
      BY DEF ControlWord
    <3> QED BY <1>1, <3>1, GroupTypes
  <2>2. ModeSet(p, cw) \in PpiState BY <1>1, <2>1 DEF ModeSet, PpiState, ControlWord
  <2> QED BY <2>2, UpdateSettles DEF WriteMode
<1>3. ASSUME NEW bit \in Bit, NEW set \in BOOLEAN PROVE SettledPpi(BitSetReset(p, bit, set))
  <2>1. /\ [p EXCEPT !.a.inteIn = set] \in PpiState
        /\ [p EXCEPT !.a.inteOut = set] \in PpiState
        /\ [p EXCEPT !.b.inteIn = set, !.b.inteOut = set] \in PpiState
    BY <1>1, ZenonT(60) DEF PpiState, Group
  <2>2. [p EXCEPT !.outC = IF set THEN @ \cup {bit} ELSE @ \ {bit}] \in PpiState
    BY <1>1 DEF PpiState
  <2> QED BY <2>1, <2>2, UpdateSettles DEF BitSetReset
<1>4. ASSUME NEW v \in Byte PROVE SettledPpi(WriteA(p, v)) /\ SettledPpi(WriteB(p, v))
  <2>1. GroupWrite(p.a, v) \in Group /\ GroupWrite(p.b, v) \in Group
    BY <1>1, GroupTypes
  <2>2. /\ [p EXCEPT !.a = GroupWrite(@, v)] \in PpiState
        /\ [p EXCEPT !.b = GroupWrite(@, v)] \in PpiState
    BY <1>1, <2>1 DEF PpiState
  <2> QED BY <2>2, UpdateSettles DEF WriteA, WriteB
<1>5. ASSUME NEW bits \in SUBSET Bit PROVE SettledPpi(WriteC(p, bits))
  <2>1. [p EXCEPT !.outC = bits] \in PpiState BY <1>1 DEF PpiState
  <2> QED BY <2>1, UpdateSettles DEF WriteC
<1>6. SettledPpi(ReadA(p)) /\ SettledPpi(ReadB(p))
  <2>1. GroupRead(p.a) \in Group /\ GroupRead(p.b) \in Group
    BY <1>1, GroupTypes
  <2>2. /\ [p EXCEPT !.a = GroupRead(@)] \in PpiState
        /\ [p EXCEPT !.b = GroupRead(@)] \in PpiState
    BY <1>1, <2>1 DEF PpiState
  <2> QED BY <2>2, UpdateSettles DEF ReadA, ReadB
<1> QED BY <1>2, <1>3, <1>4, <1>5, <1>6

(* So does every edge and pulse of a device. *)
LEMMA DeviceOperationsSettle ==
  ASSUME NEW p, SettledPpi(p)
  PROVE  /\ \A high \in BOOLEAN :
              /\ SettledPpi(SetStrobeA(p, high)) /\ SettledPpi(SetStrobeB(p, high))
              /\ SettledPpi(SetAckA(p, high)) /\ SettledPpi(SetAckB(p, high))
         /\ \A v \in Byte :
              /\ SettledPpi([p EXCEPT !.a.pin = v]) /\ SettledPpi([p EXCEPT !.b.pin = v])
              /\ SettledPpi(PulseStrobeA(p, v)) /\ SettledPpi(PulseStrobeB(p, v))
         /\ SettledPpi(PulseAckA(p)) /\ SettledPpi(PulseAckB(p))
<1>1. ASSUME NEW q \in PpiState, NEW level \in BOOLEAN
      PROVE  /\ SettledPpi(SetStrobeA(q, level)) /\ SettledPpi(SetStrobeB(q, level))
             /\ SettledPpi(SetAckA(q, level)) /\ SettledPpi(SetAckB(q, level))
  <2>1. q.a \in Group /\ q.b \in Group BY DEF PpiState
  <2>2. /\ GroupStrobe(q.a, level) \in Group /\ GroupStrobe(q.b, level) \in Group
        /\ GroupAck(q.a, level) \in Group /\ GroupAck(q.b, level) \in Group
    BY <2>1, GroupTypes
  <2>3. /\ [q EXCEPT !.a = GroupStrobe(@, level)] \in PpiState
        /\ [q EXCEPT !.b = GroupStrobe(@, level)] \in PpiState
        /\ [q EXCEPT !.a = GroupAck(@, level)] \in PpiState
        /\ [q EXCEPT !.b = GroupAck(@, level)] \in PpiState
    BY <2>1, <2>2 DEF PpiState
  <2> QED BY <2>3, UpdateSettles DEF SetStrobeA, SetStrobeB, SetAckA, SetAckB
<1>2. p \in PpiState /\ p.a \in Group /\ p.b \in Group BY DEF PpiState, SettledPpi
<1>3. ASSUME NEW v \in Byte
      PROVE  /\ SettledPpi([p EXCEPT !.a.pin = v]) /\ SettledPpi([p EXCEPT !.b.pin = v])
             /\ SettledPpi(PulseStrobeA(p, v)) /\ SettledPpi(PulseStrobeB(p, v))
  <2> DEFINE pa == [p EXCEPT !.a.pin = v]
             pb == [p EXCEPT !.b.pin = v]
  <2>1. /\ pa \in PpiState /\ pa.a = [p.a EXCEPT !.pin = v] /\ pa.b = p.b
        /\ pb \in PpiState /\ pb.b = [p.b EXCEPT !.pin = v] /\ pb.a = p.a
    BY <1>2 DEF PpiState, Group
  <2>2. ASSUME NEW g \in Group
        PROVE  /\ Request([g EXCEPT !.pin = v]) = Request(g)
               /\ [g EXCEPT !.pin = v].intr = g.intr
    BY <2>2 DEF Group, Request, InputRequest, OutputRequest, Strobed, Acknowledged
  <2>3. p.a.intr = Request(p.a) /\ p.b.intr = Request(p.b)
    BY <1>2, SettledPins DEF SettledPpi
  <2>4. /\ pa.a.intr = Request(pa.a) /\ pa.b.intr = Request(pa.b)
        /\ pb.a.intr = Request(pb.a) /\ pb.b.intr = Request(pb.b)
    BY <1>2, <2>1, <2>2, <2>3
  <2>5. SettledPpi(pa) /\ SettledPpi(pb) BY <2>1, <2>4, SettledPins DEF SettledPpi
  <2>6. /\ SetStrobeA(pa, FALSE) \in PpiState /\ SetStrobeB(pb, FALSE) \in PpiState
    BY <1>1, <2>1 DEF SettledPpi
  <2>7. SettledPpi(PulseStrobeA(p, v)) /\ SettledPpi(PulseStrobeB(p, v))
    BY <1>1, <2>6 DEF PulseStrobeA, PulseStrobeB
  <2> QED BY <2>5, <2>7
<1>4. SettledPpi(PulseAckA(p)) /\ SettledPpi(PulseAckB(p))
  <2>1. SetAckA(p, FALSE) \in PpiState /\ SetAckB(p, FALSE) \in PpiState
    BY <1>1, <1>2 DEF SettledPpi
  <2> QED BY <1>1, <2>1 DEF PulseAckA, PulseAckB
<1> QED BY <1>1, <1>2, <1>3, <1>4

(* And reset, which calls no update at all. *)
LEMMA ResetSettles == SettledPpi(ResetPpi)
<1>1. ResetGroup \in Group BY ByteAssumption DEF ResetGroup, GroupMode, Group
<1>2. ResetPpi \in PpiState BY <1>1 DEF ResetPpi, PpiState
<1>3. ~Request(ResetGroup) /\ ~ResetGroup.intr
  BY DEF Request, InputRequest, OutputRequest, ResetGroup, GroupMode
<1>4. ResetGroup.intr = Request(ResetGroup) BY <1>1, <1>3, RequestType DEF Group
<1>5. ResetPpi.a = ResetGroup /\ ResetPpi.b = ResetGroup BY DEF ResetPpi
<1> QED BY <1>2, <1>4, <1>5, SettledPins DEF SettledPpi

----------------------------------------------------------------------------
(* A group after update_interrupts. *)
Shown(g) == [g EXCEPT !.intr = Request(g)]

LEMMA ShownFields ==
  ASSUME NEW g \in Group
  PROVE  /\ Shown(g) \in Group /\ Shown(g).intr = Request(g)
         /\ Shown(g).mode = g.mode /\ Shown(g).input = g.input /\ Shown(g).out = g.out
         /\ Shown(g).pin = g.pin /\ Shown(g).latch = g.latch
         /\ Shown(g).stb = g.stb /\ Shown(g).ack = g.ack
         /\ Shown(g).ibf = g.ibf /\ Shown(g).obf = g.obf /\ Shown(g).acked = g.acked
         /\ Shown(g).inteIn = g.inteIn /\ Shown(g).inteOut = g.inteOut
<1> DEFINE request == Request(g)
<1>1. request \in BOOLEAN
  BY RequestType
<1>2. Shown(g) = [g EXCEPT !.intr = request]
  BY DEF Shown
<1> HIDE DEF request
<1>3. /\ Shown(g) \in Group /\ Shown(g).intr = request
      /\ Shown(g).mode = g.mode /\ Shown(g).input = g.input /\ Shown(g).out = g.out
      /\ Shown(g).pin = g.pin /\ Shown(g).latch = g.latch
      /\ Shown(g).stb = g.stb /\ Shown(g).ack = g.ack
      /\ Shown(g).ibf = g.ibf /\ Shown(g).obf = g.obf /\ Shown(g).acked = g.acked
      /\ Shown(g).inteIn = g.inteIn /\ Shown(g).inteOut = g.inteOut
  BY <1>1, <1>2 DEF Group
<1> QED BY <1>3 DEF request

(* An operation on one group leaves the other as it is. *)
LEMMA OneGroup ==
  ASSUME NEW p, SettledPpi(p), NEW g \in Group
  PROVE  /\ UpdateInterrupts([p EXCEPT !.a = g]).a = Shown(g)
         /\ UpdateInterrupts([p EXCEPT !.a = g]).b = p.b
         /\ UpdateInterrupts([p EXCEPT !.b = g]).a = p.a
         /\ UpdateInterrupts([p EXCEPT !.b = g]).b = Shown(g)
<1>1. p \in PpiState /\ p.a \in Group /\ p.b \in Group
  BY DEF SettledPpi, PpiState
<1>2. p.a = Shown(p.a) /\ p.b = Shown(p.b)
  BY <1>1, UpdateInterruptsType DEF SettledPpi, Shown
<1>3. /\ [p EXCEPT !.a = g] \in PpiState /\ [p EXCEPT !.b = g] \in PpiState
      /\ [p EXCEPT !.a = g].a = g /\ [p EXCEPT !.a = g].b = p.b
      /\ [p EXCEPT !.b = g].b = g /\ [p EXCEPT !.b = g].a = p.a
  BY <1>1 DEF PpiState
<1>4. \A q \in PpiState : UpdateInterrupts(q).a = Shown(q.a) /\ UpdateInterrupts(q).b = Shown(q.b)
  BY UpdateInterruptsType DEF Shown
<1> QED BY <1>2, <1>3, <1>4

(* What the CPU and the devices do to a group in mode 1: an output group *)
(* is written and acknowledged, an input group strobed and read.         *)
LEMMA WrittenOut ==
  ASSUME NEW g \in Group, g.intr = Request(g), g.mode = 1, ~g.input, NEW v \in Byte
  PROVE  /\ GroupWrite(g, v) \in Group /\ GroupWrite(g, v).out = v
         /\ ~GroupWrite(g, v).obf /\ ~GroupWrite(g, v).acked
         /\ GroupWrite(g, v).mode = 1 /\ ~GroupWrite(g, v).input
         /\ GroupWrite(g, v).ack = g.ack /\ GroupWrite(g, v).inteOut = g.inteOut
         /\ g.intr => g.obf
<1>1. Acknowledged(g) /\ ~Strobed(g)
  BY DEF Acknowledged, Strobed
<1>2. GroupWrite(g, v) \in Group
  BY GroupTypes
<1>3. g.intr => g.obf
  BY <1>1 DEF Request, InputRequest, OutputRequest
<1> QED BY <1>1, <1>2, <1>3 DEF GroupWrite, Group

LEMMA AckedOut ==
  ASSUME NEW g \in Group, g.mode = 1, ~g.input, NEW high \in BOOLEAN
  PROVE  /\ GroupAck(g, high) \in Group
         /\ GroupAck(g, high).out = g.out
         /\ GroupAck(g, high).mode = 1 /\ ~GroupAck(g, high).input
         /\ GroupAck(g, high).ack = high /\ GroupAck(g, high).inteOut = g.inteOut
         /\ high => GroupAck(g, high).obf = g.obf
         /\ high /\ ~g.ack => GroupAck(g, high).acked
         /\ ~high /\ g.ack => GroupAck(g, high).obf
<1>1. Acknowledged(g)
  BY DEF Acknowledged
<1>2. GroupAck(g, high) \in Group
  BY GroupTypes
<1>3. /\ GroupAck(g, high).out = g.out
      /\ GroupAck(g, high).mode = 1 /\ ~GroupAck(g, high).input
      /\ GroupAck(g, high).ack = high /\ GroupAck(g, high).inteOut = g.inteOut
  BY DEF GroupAck, Group
<1>4. /\ high => GroupAck(g, high).obf = g.obf
      /\ high /\ ~g.ack => GroupAck(g, high).acked
      /\ ~high /\ g.ack => GroupAck(g, high).obf
  BY <1>1 DEF GroupAck, Group
<1> QED BY <1>2, <1>3, <1>4

LEMMA ReadIn ==
  ASSUME NEW g \in Group, g.intr = Request(g), g.mode = 1, g.input
  PROVE  /\ GroupRead(g) \in Group /\ ~GroupRead(g).ibf
         /\ GroupRead(g).mode = 1 /\ GroupRead(g).input
         /\ GroupRead(g).stb = g.stb /\ GroupRead(g).inteIn = g.inteIn
         /\ GroupReadValue(g) = g.latch
         /\ g.intr => g.ibf
<1>1. Strobed(g) /\ ~Acknowledged(g)
  BY DEF Acknowledged, Strobed
<1>2. GroupRead(g) \in Group
  BY GroupTypes
<1>3. /\ ~GroupRead(g).ibf
      /\ GroupRead(g).mode = 1 /\ GroupRead(g).input
      /\ GroupRead(g).stb = g.stb /\ GroupRead(g).inteIn = g.inteIn
  BY <1>1, <1>2 DEF GroupRead, Group
<1>4. GroupReadValue(g) = g.latch
  BY <1>1 DEF GroupReadValue
<1>5. g.intr => g.ibf
  BY <1>1 DEF Request, InputRequest, OutputRequest
<1> QED BY <1>2, <1>3, <1>4, <1>5

LEMMA StrobedIn ==
  ASSUME NEW g \in Group, g.mode = 1, g.input, NEW high \in BOOLEAN
  PROVE  /\ GroupStrobe(g, high) \in Group
         /\ GroupStrobe(g, high).mode = 1 /\ GroupStrobe(g, high).input
         /\ GroupStrobe(g, high).inteIn = g.inteIn
         /\ high => /\ GroupStrobe(g, high).ibf = g.ibf
                    /\ GroupStrobe(g, high).latch = g.latch
         /\ GroupStrobe(g, high).stb = high
         /\ ~high /\ g.stb => /\ GroupStrobe(g, high).ibf
                              /\ GroupStrobe(g, high).latch = g.pin
<1>1. Strobed(g)
  BY DEF Strobed
<1>2. GroupStrobe(g, high) \in Group
  BY GroupTypes
<1>3. /\ GroupStrobe(g, high).mode = 1 /\ GroupStrobe(g, high).input
      /\ GroupStrobe(g, high).inteIn = g.inteIn
  BY DEF GroupStrobe, Group
<1>4. /\ high => /\ GroupStrobe(g, high).ibf = g.ibf
                 /\ GroupStrobe(g, high).latch = g.latch
      /\ GroupStrobe(g, high).stb = high
      /\ ~high /\ g.stb => /\ GroupStrobe(g, high).ibf
                           /\ GroupStrobe(g, high).latch = g.pin
  BY <1>1 DEF GroupStrobe, Group
<1> QED BY <1>2, <1>3, <1>4

(* The chip as A6h programs it, between the pulses on its strobes. *)
Programmed(p) == /\ p.a.mode = 1 /\ ~p.a.input /\ p.b.mode = 1 /\ p.b.input
                 /\ p.a.ack /\ p.b.stb

(* The CPU writes to PA and reads PB, *)
LEMMA PaWritten ==
  ASSUME NEW p, SettledPpi(p), Programmed(p), NEW v \in Byte
  PROVE  LET q == WriteA(p, v)
         IN /\ SettledPpi(q) /\ Programmed(q) /\ q.b = p.b
            /\ q.a.out = v /\ ~q.a.obf /\ ~q.a.acked /\ ~q.a.intr
            /\ q.a.inteOut = p.a.inteOut
<1> DEFINE q == WriteA(p, v)
           h == GroupWrite(p.a, v)
<1>1. p.a \in Group /\ p.b \in Group /\ p.a.intr = Request(p.a)
  BY SettledPins DEF SettledPpi, PpiState
<1>2. /\ h \in Group /\ h.mode = 1 /\ ~h.input /\ h.out = v /\ ~h.obf /\ ~h.acked
      /\ h.ack /\ h.inteOut = p.a.inteOut
  BY <1>1, WrittenOut DEF Programmed
<1>3. q.a = Shown(h) /\ q.b = p.b
  BY <1>2, OneGroup DEF WriteA
<1>4. SettledPpi(q)
  BY CpuOperationsSettle
<1> HIDE DEF h, q
<1>5. ~Request(h)
  BY <1>2 DEF Request, InputRequest, OutputRequest, Strobed
<1>6. /\ q.a.mode = 1 /\ ~q.a.input /\ q.a.out = v /\ ~q.a.obf /\ ~q.a.acked /\ ~q.a.intr
      /\ q.a.ack /\ q.a.inteOut = p.a.inteOut
  BY <1>2, <1>3, <1>5, ShownFields
<1> QED BY <1>3, <1>4, <1>6 DEF Programmed, q

LEMMA PbRead ==
  ASSUME NEW p, SettledPpi(p), Programmed(p)
  PROVE  LET q == ReadB(p)
         IN /\ SettledPpi(q) /\ Programmed(q) /\ q.a = p.a
            /\ ~q.b.ibf /\ ~q.b.intr /\ q.b.inteIn = p.b.inteIn
            /\ GroupReadValue(p.b) = p.b.latch
<1> DEFINE q == ReadB(p)
           h == GroupRead(p.b)
<1>1. p.a \in Group /\ p.b \in Group /\ p.b.intr = Request(p.b)
  BY SettledPins DEF SettledPpi, PpiState
<1>2. /\ h \in Group /\ h.mode = 1 /\ h.input /\ ~h.ibf
      /\ h.stb /\ h.inteIn = p.b.inteIn /\ GroupReadValue(p.b) = p.b.latch
  BY <1>1, ReadIn DEF Programmed
<1>3. q.b = Shown(h) /\ q.a = p.a
  <2>1. Strobed(p.b)
    BY DEF Programmed, Strobed
  <2> QED BY <1>2, <2>1, OneGroup DEF ReadB
<1>4. SettledPpi(q)
  BY CpuOperationsSettle
<1> HIDE DEF h, q
<1>5. ~Request(h)
  BY <1>2 DEF Request, InputRequest, OutputRequest, Acknowledged
<1>6. /\ q.b.mode = 1 /\ q.b.input /\ q.b.stb /\ ~q.b.ibf /\ ~q.b.intr
      /\ q.b.inteIn = p.b.inteIn
  BY <1>2, <1>3, <1>5, ShownFields
<1> QED BY <1>2, <1>3, <1>4, <1>6 DEF Programmed, q

(* and the devices take from the one and hand to the other. *)
LEMMA PaTaken ==
  ASSUME NEW p, SettledPpi(p), Programmed(p)
  PROVE  LET q == PulseAckA(p)
         IN /\ SettledPpi(q) /\ Programmed(q) /\ q.b = p.b
            /\ q.a.out = p.a.out /\ q.a.obf
            /\ q.a.inteOut = p.a.inteOut /\ q.a.intr = p.a.inteOut
<1> DEFINE down == FALSE
           up == TRUE
           m == SetAckA(p, down)
           q == SetAckA(m, up)
           l == GroupAck(p.a, down)
           h == GroupAck(m.a, up)
<1>1. p.a \in Group /\ p.b \in Group
  BY DEF SettledPpi, PpiState
<1>2. down \in BOOLEAN /\ ~down /\ up \in BOOLEAN /\ up /\ PulseAckA(p) = q
  BY DEF PulseAckA
<1> HIDE DEF down, up
<1>3. /\ l \in Group /\ l.mode = 1 /\ ~l.input /\ l.out = p.a.out /\ l.ack = down /\ l.obf
      /\ l.inteOut = p.a.inteOut
  BY <1>1, <1>2, AckedOut DEF Programmed
<1>4. m.a = Shown(l) /\ m.b = p.b
  BY <1>3, OneGroup DEF SetAckA
<1>5. SettledPpi(m) /\ SettledPpi(q)
  BY <1>2, DeviceOperationsSettle
<1> HIDE DEF l, m
<1>6. /\ m.a \in Group /\ m.a.mode = 1 /\ ~m.a.input /\ m.a.out = p.a.out /\ ~m.a.ack /\ m.a.obf
      /\ m.a.inteOut = p.a.inteOut
  BY <1>2, <1>3, <1>4, ShownFields
<1>7. /\ h \in Group /\ h.mode = 1 /\ ~h.input /\ h.out = p.a.out /\ h.ack = up /\ h.obf
      /\ h.acked /\ h.inteOut = p.a.inteOut
  BY <1>2, <1>6, AckedOut
<1>8. q.a = Shown(h) /\ q.b = p.b
  BY <1>4, <1>5, <1>7, OneGroup DEF SetAckA
<1> HIDE DEF h, q
<1>9. Request(h) = p.a.inteOut
  BY <1>1, <1>2, <1>7 DEF Request, InputRequest, OutputRequest, Strobed, Acknowledged, Group
<1>10. /\ q.a.mode = 1 /\ ~q.a.input /\ q.a.out = p.a.out /\ q.a.ack /\ q.a.obf
       /\ q.a.inteOut = p.a.inteOut /\ q.a.intr = p.a.inteOut
  <2>1. /\ q.a.mode = h.mode /\ q.a.input = h.input /\ q.a.out = h.out /\ q.a.ack = h.ack
        /\ q.a.obf = h.obf /\ q.a.inteOut = h.inteOut /\ q.a.intr = Request(h)
    <3>1. q.a = Shown(h) /\ h \in Group
      BY <1>7, <1>8
    <3> QED BY <3>1, ShownFields
  <2> QED BY <1>2, <1>7, <1>9, <2>1
<1> QED BY <1>2, <1>5, <1>8, <1>10 DEF Programmed

LEMMA PbHanded ==
  ASSUME NEW p, SettledPpi(p), Programmed(p), NEW v \in Byte
  PROVE  LET q == PulseStrobeB(p, v)
         IN /\ SettledPpi(q) /\ Programmed(q) /\ q.a = p.a
            /\ q.b.ibf /\ q.b.latch = v
            /\ q.b.inteIn = p.b.inteIn /\ q.b.intr = p.b.inteIn
<1> DEFINE down == FALSE
           up == TRUE
           n == [p EXCEPT !.b.pin = v]
           m == SetStrobeB(n, down)
           q == SetStrobeB(m, up)
           l == GroupStrobe(n.b, down)
           h == GroupStrobe(m.b, up)
<1>1. p \in PpiState /\ p.a \in Group /\ p.b \in Group
  BY DEF SettledPpi, PpiState
<1>2. down \in BOOLEAN /\ ~down /\ up \in BOOLEAN /\ up /\ PulseStrobeB(p, v) = q
  BY DEF PulseStrobeB
<1> HIDE DEF down, up
<1>3. SettledPpi(n) /\ SettledPpi(m) /\ SettledPpi(q)
  BY <1>2, DeviceOperationsSettle
<1>4. /\ n.a = p.a /\ n.b \in Group /\ n.b.mode = 1 /\ n.b.input /\ n.b.stb /\ n.b.pin = v
      /\ n.b.inteIn = p.b.inteIn
  BY <1>1 DEF Programmed, PpiState, Group
<1> HIDE DEF n
<1>5. /\ l \in Group /\ l.mode = 1 /\ l.input /\ l.stb = down /\ l.ibf /\ l.latch = v
      /\ l.inteIn = p.b.inteIn
  BY <1>2, <1>4, StrobedIn
<1>6. m.b = Shown(l) /\ m.a = p.a
  BY <1>3, <1>4, <1>5, OneGroup DEF SetStrobeB
<1> HIDE DEF l, m
<1>7. /\ m.b \in Group /\ m.b.mode = 1 /\ m.b.input /\ m.b.ibf /\ m.b.latch = v
      /\ m.b.inteIn = p.b.inteIn
  BY <1>5, <1>6, ShownFields
<1>8. /\ h \in Group /\ h.mode = 1 /\ h.input /\ h.stb = up /\ h.ibf /\ h.latch = v
      /\ h.inteIn = p.b.inteIn
  BY <1>2, <1>7, StrobedIn
<1>9. q.b = Shown(h) /\ q.a = p.a
  BY <1>3, <1>6, <1>8, OneGroup DEF SetStrobeB
<1> HIDE DEF h, q
<1>10. Request(h) = p.b.inteIn
  BY <1>1, <1>2, <1>8 DEF Request, InputRequest, OutputRequest, Strobed, Acknowledged, Group
<1>11. /\ q.b.mode = 1 /\ q.b.input /\ q.b.stb /\ q.b.ibf /\ q.b.latch = v
       /\ q.b.inteIn = p.b.inteIn /\ q.b.intr = p.b.inteIn
  <2>1. /\ q.b.mode = h.mode /\ q.b.input = h.input /\ q.b.stb = h.stb /\ q.b.ibf = h.ibf
        /\ q.b.latch = h.latch /\ q.b.inteIn = h.inteIn /\ q.b.intr = Request(h)
    BY <1>8, <1>9, ShownFields
  <2> QED BY <1>2, <1>8, <1>10, <2>1
<1> QED BY <1>2, <1>3, <1>9, <1>11 DEF Programmed

(* The CPU programs it so, *)
LEMMA ModeWritten ==
  ASSUME NEW p, SettledPpi(p), NEW cw \in ControlWord,
         cw.modeA = 1, ~cw.inA, cw.modeB = 1, cw.inB
  PROVE  LET q == WriteMode(p, cw)
         IN /\ SettledPpi(q) /\ Programmed(q) /\ ~q.a.acked /\ ~q.b.ibf
            /\ ~q.a.intr /\ ~q.b.intr
<1> DEFINE ga == GroupMode(p.a, cw.modeA, cw.inA)
           gb == GroupMode(p.b, cw.modeB, cw.inB)
           m == ModeSet(p, cw)
           q == UpdateInterrupts(m)
<1>1. p \in PpiState /\ p.a \in Group /\ p.b \in Group
      /\ cw.inA \in BOOLEAN /\ cw.inB \in BOOLEAN /\ cw.inCU \in BOOLEAN /\ cw.inCL \in BOOLEAN
      /\ cw.modeA \in 0 .. 2 /\ cw.modeB \in 0 .. 2
  BY DEF SettledPpi, PpiState, ControlWord
<1>2. SettledPpi(q)
  <2>1. WriteMode(p, cw) = q
    BY DEF WriteMode
  <2> QED BY <2>1, CpuOperationsSettle
<1>3. ga \in Group /\ gb \in Group
  BY <1>1, GroupTypes
<1>4. /\ ga.mode = 1 /\ ~ga.input /\ ~ga.acked /\ ga.ack /\ ~ga.inteOut
      /\ gb.mode = 1 /\ gb.input /\ ~gb.ibf /\ gb.stb /\ ~gb.inteIn
  BY DEF GroupMode
<1> HIDE DEF ga, gb
<1>5. m = [a |-> ga, b |-> gb, inCU |-> cw.inCU, inCL |-> cw.inCL, outC |-> {}, pinC |-> p.pinC]
  BY DEF ModeSet, ga, gb
<1>6. m \in PpiState /\ m.a = ga /\ m.b = gb
  BY <1>1, <1>3, <1>5 DEF PpiState
<1> HIDE DEF m
<1>7. q.a = Shown(ga) /\ q.b = Shown(gb)
  BY <1>6, UpdateInterruptsType DEF Shown
<1>8. ~Request(ga) /\ ~Request(gb)
  BY <1>4 DEF Request, InputRequest, OutputRequest, Strobed, Acknowledged
<1> HIDE DEF q
<1>9. /\ q.a.mode = 1 /\ ~q.a.input /\ q.a.ack /\ ~q.a.acked /\ ~q.a.intr
      /\ q.b.mode = 1 /\ q.b.input /\ q.b.stb /\ ~q.b.ibf /\ ~q.b.intr
  BY <1>3, <1>4, <1>7, <1>8, ShownFields
<1>10. SettledPpi(q) /\ Programmed(q) /\ ~q.a.acked /\ ~q.b.ibf /\ ~q.a.intr /\ ~q.b.intr
  BY <1>2, <1>9 DEF Programmed
<1> QED BY <1>10 DEF q, m, WriteMode

(* and sets the INTE flip-flops of PB *)
LEMMA PbEnabled ==
  ASSUME NEW p, SettledPpi(p), Programmed(p), ~p.b.ibf, NEW set \in BOOLEAN
  PROVE  LET q == BitSetReset(p, 2, set)
         IN /\ SettledPpi(q) /\ Programmed(q) /\ q.a = p.a
            /\ q.b.inteIn = set /\ ~q.b.ibf /\ ~q.b.intr
<1> DEFINE g == [p.b EXCEPT !.inteIn = set, !.inteOut = set]
           q == BitSetReset(p, 2, set)
<1>1. p \in PpiState /\ p.b \in Group /\ p.a \in Group
  BY DEF SettledPpi, PpiState
<1>2. /\ g \in Group /\ g.inteIn = set /\ g.mode = 1 /\ g.input /\ g.stb /\ ~g.ibf
  BY <1>1 DEF Programmed, Group
<1>3. q = UpdateInterrupts([p EXCEPT !.b = g])
  <2>1. [p EXCEPT !.b.inteIn = set, !.b.inteOut = set] = [p EXCEPT !.b = g]
    BY <1>1 DEF PpiState, Group
  <2> QED BY <2>1 DEF BitSetReset, Programmed
<1>4. SettledPpi(q)
  BY CpuOperationsSettle DEF Bit
<1> HIDE DEF g, q
<1>5. q.b = Shown(g) /\ q.a = p.a
  BY <1>2, <1>3, OneGroup
<1>6. ~Request(g)
  BY <1>2 DEF Request, InputRequest, OutputRequest, Strobed, Acknowledged
<1>7. /\ q.b.mode = 1 /\ q.b.input /\ q.b.stb /\ ~q.b.ibf /\ ~q.b.intr /\ q.b.inteIn = set
  BY <1>2, <1>5, <1>6, ShownFields
<1> QED BY <1>4, <1>5, <1>7 DEF Programmed, q

(* and of PA before anything was transferred. *)
LEMMA PaEnabled ==
  ASSUME NEW p, SettledPpi(p), Programmed(p), ~p.a.acked, NEW set \in BOOLEAN
  PROVE  LET q == BitSetReset(p, 6, set)
         IN /\ SettledPpi(q) /\ Programmed(q) /\ q.b = p.b
            /\ q.a.inteOut = set /\ ~q.a.intr
<1> DEFINE g == [p.a EXCEPT !.inteOut = set]
           q == BitSetReset(p, 6, set)
<1>1. p \in PpiState /\ p.b \in Group /\ p.a \in Group
  BY DEF SettledPpi, PpiState
<1>2. /\ g \in Group /\ g.inteOut = set /\ g.mode = 1 /\ ~g.input /\ g.ack /\ ~g.acked
  BY <1>1 DEF Programmed, Group
<1>3. q = UpdateInterrupts([p EXCEPT !.a = g])
  <2>1. [p EXCEPT !.a.inteOut = set] = [p EXCEPT !.a = g]
    BY <1>1 DEF PpiState, Group
  <2> QED BY <2>1 DEF BitSetReset, Programmed, Acknowledged
<1>4. SettledPpi(q)
  BY CpuOperationsSettle DEF Bit
<1> HIDE DEF g, q
<1>5. q.a = Shown(g) /\ q.b = p.b
  BY <1>2, <1>3, OneGroup
<1>6. ~Request(g)
  BY <1>2 DEF Request, InputRequest, OutputRequest, Strobed, Acknowledged
<1>7. /\ q.a.mode = 1 /\ ~q.a.input /\ q.a.ack /\ ~q.a.intr /\ q.a.inteOut = set
  BY <1>2, <1>5, <1>6, ShownFields
<1> QED BY <1>4, <1>5, <1>7 DEF Programmed, q
=============================================================================
