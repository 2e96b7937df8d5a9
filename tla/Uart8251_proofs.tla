--------------------------- MODULE Uart8251_proofs ---------------------------
(***************************************************************************)
(* Proofs about the 8251: its state keeps its type, the worst-case reset   *)
(* works from every reachable state, hunting is exact, what is written is  *)
(* sent in time, what is received is whole, and the chip implements        *)
(* SerialPort, for every set of control words and bytes.                   *)
(***************************************************************************)
EXTENDS Uart8251Line, SequenceTheorems, TLAPS

----------------------------------------------------------------------------
(* Characters and frames. *)

LEMMA FunctionIsSeq ==
  ASSUME NEW S, NEW n \in Nat, NEW f \in [1 .. n -> S]
  PROVE  f \in Seq(S) /\ Len(f) = n
<1>1. f = [i \in 1 .. n |-> f[i]]
  OBVIOUS
<1>2. [i \in 1 .. n |-> f[i]] \in Seq(S)
  OBVIOUS
<1>3. Len([i \in 1 .. n |-> f[i]]) = n
  OBVIOUS
<1> QED BY <1>1, <1>2, <1>3

LEMMA OneIsSeq == \A b \in BOOLEAN : <<b>> \in Seq(BOOLEAN)
OBVIOUS

LEMMA OnesAreSeq == ASSUME NEW n \in Nat PROVE [i \in 1 .. n |-> TRUE] \in Seq(BOOLEAN)
OBVIOUS

LEMMA ByteType == Zero \in Byte /\ Reset40 \in Byte /\ Byte \subseteq Seq(BOOLEAN)
<1>1. Zero \in [1 .. 8 -> BOOLEAN]
  BY DEF Zero
<1>2. [Zero EXCEPT ![7] = TRUE] \in [1 .. 8 -> BOOLEAN]
  BY <1>1
<1>3. ASSUME NEW b \in [1 .. 8 -> BOOLEAN] PROVE b \in Seq(BOOLEAN)
  BY FunctionIsSeq, <1>3
<1> QED BY <1>1, <1>2, <1>3 DEF Byte, Reset40

LEMMA WordType ==
  ASSUME NEW u, u.mode \in Byte
  PROVE  /\ BaudFactor(u) \in Nat /\ BaudFactor(u) > 0
         /\ CharacterBits(u) \in 1 .. 8
         /\ StopBits(u) \in 1 .. 2
<1>1. ShortestCharacter \in 2 .. 5 /\ Factor16 \in Nat /\ Factor64 \in Nat
        /\ Factor16 > 1 /\ Factor64 > 1
  BY UartAssumption
<1> QED BY <1>1 DEF BaudFactor, CharacterBits, StopBits

LEMMA MaskedType ==
  ASSUME NEW u, u.mode \in Byte, NEW bits
  PROVE  Masked(u, bits) \in Seq(BOOLEAN) /\ Len(Masked(u, bits)) = CharacterBits(u)
<1>1. CharacterBits(u) \in Nat
  BY WordType
<1>2. Masked(u, bits) \in [1 .. CharacterBits(u) -> BOOLEAN]
  BY Zenon DEF Masked
<1> QED BY <1>1, <1>2, FunctionIsSeq

LEMMA FrameType ==
  ASSUME NEW u, u.mode \in Byte, NEW bits
  PROVE  Frame(u, bits) \in Seq(BOOLEAN) /\ Frame(u, bits) # <<>>
<1> DEFINE data == Masked(u, bits)
           start == IF Synchronous(u) THEN <<>> ELSE <<FALSE>>
           parity == IF ParityEnabled(u) THEN <<ParityBit(u, data)>> ELSE <<>>
           stop == IF Synchronous(u) THEN <<>> ELSE [i \in 1 .. StopBits(u) |-> TRUE]
<1>1. data \in Seq(BOOLEAN) /\ Len(data) > 0
  BY MaskedType, WordType
<1>2. start \in Seq(BOOLEAN)
  BY OneIsSeq, EmptySeq
<1>3. parity \in Seq(BOOLEAN)
  <2>1. ParityBit(u, data) \in BOOLEAN
    BY Zenon DEF ParityBit, Odd
  <2>2. <<ParityBit(u, data)>> \in Seq(BOOLEAN)
    BY <2>1, OneIsSeq, Zenon
  <2> QED BY <2>2, EmptySeq, Zenon
<1>4. stop \in Seq(BOOLEAN)
  <2>1. StopBits(u) \in Nat
    BY WordType
  <2>2. [i \in 1 .. StopBits(u) |-> TRUE] \in Seq(BOOLEAN)
    BY <2>1, OnesAreSeq
  <2> QED BY <2>2, EmptySeq, Zenon
<1>5. Frame(u, bits) = start \o data \o parity \o stop
  BY Zenon DEF Frame
<1> HIDE DEF start, data, parity, stop
<1>6. start \o data \in Seq(BOOLEAN) /\ Len(start \o data) > 0
  BY <1>1, <1>2, ConcatProperties, LenProperties
<1>7. start \o data \o parity \in Seq(BOOLEAN) /\ Len(start \o data \o parity) > 0
  BY <1>3, <1>6, ConcatProperties, LenProperties
<1>8. start \o data \o parity \o stop \in Seq(BOOLEAN)
        /\ Len(start \o data \o parity \o stop) > 0
  BY <1>4, <1>7, ConcatProperties, LenProperties
<1> QED BY <1>5, <1>8, EmptySeq

----------------------------------------------------------------------------
(* Every method keeps the type. *)

LEMMA FieldsOf ==
  ASSUME NEW u \in Chip
  PROVE  /\ u.mode \in Byte /\ u.command \in Byte /\ u.phase \in Phases
         /\ u.syncs \in Seq(Byte) /\ u.sync_transmit_index \in Nat
         /\ u.transmit_buffer \in Seq(Seq(BOOLEAN))
         /\ u.transmit_frame \in Seq(BOOLEAN) /\ u.transmit_character \in Seq(BOOLEAN)
         /\ u.transmitted \in Seq(Seq(BOOLEAN)) /\ u.shift \in Seq(BOOLEAN)
         /\ u.queue \in Seq(Byte) /\ u.line \in Seq(BOOLEAN)
BY DEF Chip

(* The control words and SYNC characters unchanged, the rest in bounds.    *)
LEMMA KeepsOK ==
  ASSUME NEW u, ChipOK(u), NEW v \in Chip,
         v.mode = u.mode, v.phase = u.phase, v.syncs = u.syncs,
         v.sync_transmit_index = u.sync_transmit_index,
         Len(v.transmit_buffer) <= 1, Len(v.queue) <= UartCapacity,
         Len(v.transmitted) <= UartCapacity, v.line = <<>> => v.rxd
  PROVE  ChipOK(v)
<1>1. SyncsLoaded(v)
  BY DEF ChipOK, SyncsLoaded, Synchronous
<1> QED BY <1>1 DEF ChipOK

LEMMA ResetType ==
  ASSUME NEW cts \in BOOLEAN, NEW dsr \in BOOLEAN
  PROVE  ChipOK(ResetChip(cts, dsr))
<1>1. ResetChip(cts, dsr) \in Chip
  BY ByteType DEF ResetChip, Chip, Phases, ReceivePhases
<1>2. UartCapacity \in Nat
  BY UartAssumption
<1> QED BY <1>1, <1>2 DEF ChipOK, SyncsLoaded, ResetChip

LEMMA FinishFrameType ==
  ASSUME NEW u, ChipOK(u)
  PROVE  ChipOK(FinishFrame(u))
         /\ (FinishFrame(u).transmit_active => FinishFrame(u).transmit_frame # <<>>)
<1>1. u \in Chip
  BY DEF ChipOK
<1>2. CASE ~(u.transmit_active /\ u.transmit_frame = <<>>)
  BY <1>2 DEF FinishFrame
<1>3. CASE u.transmit_active /\ u.transmit_frame = <<>>
  <2> DEFINE kept == IF u.transmit_payload /\ Len(u.transmitted) < UartCapacity
                     THEN Append(u.transmitted, u.transmit_character) ELSE u.transmitted
  <2>1. kept \in Seq(Seq(BOOLEAN)) /\ Len(kept) <= UartCapacity
    <3>1. /\ u.transmitted \in Seq(Seq(BOOLEAN)) /\ u.transmit_character \in Seq(BOOLEAN)
          /\ UartCapacity \in Nat
      BY <1>1, FieldsOf, UartAssumption
    <3>2. Len(u.transmitted) <= UartCapacity
      BY DEF ChipOK
    <3>3. CASE u.transmit_payload /\ Len(u.transmitted) < UartCapacity
      <4>1. kept = Append(u.transmitted, u.transmit_character)
        BY <3>3
      <4>2. /\ Append(u.transmitted, u.transmit_character) \in Seq(Seq(BOOLEAN))
            /\ Len(Append(u.transmitted, u.transmit_character)) = Len(u.transmitted) + 1
        BY <3>1, AppendProperties
      <4> QED BY <3>1, <3>3, <4>1, <4>2, LenProperties
    <3>4. CASE ~(u.transmit_payload /\ Len(u.transmitted) < UartCapacity)
      BY <3>1, <3>2, <3>4
    <3> QED BY <3>3, <3>4
  <2>2. FinishFrame(u) = [u EXCEPT !.transmit_active = FALSE, !.transmitted = kept]
    BY <1>3 DEF FinishFrame
  <2> HIDE DEF kept
  <2>3. FinishFrame(u) \in Chip
    <3> DEFINE w == [u EXCEPT !.transmit_active = FALSE]
    <3>1. w \in Chip
      BY <1>1, ZenonT(60) DEF Chip
    <3>2. FinishFrame(u) = [w EXCEPT !.transmitted = kept]
      BY <2>2
    <3> HIDE DEF w
    <3> QED BY <2>1, <3>1, <3>2, ZenonT(60) DEF Chip
  <2>4. /\ ~FinishFrame(u).transmit_active /\ FinishFrame(u).transmitted = kept
        /\ FinishFrame(u).mode = u.mode /\ FinishFrame(u).phase = u.phase
        /\ FinishFrame(u).syncs = u.syncs /\ FinishFrame(u).queue = u.queue
        /\ FinishFrame(u).sync_transmit_index = u.sync_transmit_index
        /\ FinishFrame(u).transmit_buffer = u.transmit_buffer
        /\ FinishFrame(u).line = u.line /\ FinishFrame(u).rxd = u.rxd
    BY <1>1, <2>2 DEF Chip
  <2>5. Len(u.transmit_buffer) <= 1 /\ Len(u.queue) <= UartCapacity
          /\ (u.line = <<>> => u.rxd)
    BY DEF ChipOK
  <2>6. ChipOK(FinishFrame(u))
    BY <2>1, <2>3, <2>4, <2>5, KeepsOK
  <2> QED BY <2>4, <2>6
<1> QED BY <1>2, <1>3

LEMMA Capacity == UartCapacity \in Nat /\ UartCapacity > 0
BY UartAssumption

LEMMA BoundsOf ==
  ASSUME NEW u, ChipOK(u)
  PROVE  /\ u \in Chip /\ Len(u.transmit_buffer) <= 1 /\ Len(u.queue) <= UartCapacity
         /\ Len(u.transmitted) <= UartCapacity /\ (u.line = <<>> => u.rxd)
BY DEF ChipOK

LEMMA LoadFrameType ==
  ASSUME NEW u, ChipOK(u), NEW bits \in Seq(BOOLEAN), NEW payload \in BOOLEAN
  PROVE  /\ ChipOK(LoadFrame(u, bits, payload))
         /\ LoadFrame(u, bits, payload).transmit_frame # <<>>
<1> DEFINE v == LoadFrame(u, bits, payload)
<1>1. u \in Chip /\ u.mode \in Byte
  BY BoundsOf, FieldsOf
<1>2. Frame(u, bits) \in Seq(BOOLEAN) /\ Frame(u, bits) # <<>>
  BY <1>1, FrameType
<1>3. v \in Chip
  BY <1>1, <1>2 DEF LoadFrame, Chip
<1>4. /\ v.mode = u.mode /\ v.phase = u.phase /\ v.syncs = u.syncs
      /\ v.sync_transmit_index = u.sync_transmit_index
      /\ v.transmit_buffer = u.transmit_buffer /\ v.queue = u.queue
      /\ v.transmitted = u.transmitted /\ v.line = u.line /\ v.rxd = u.rxd
      /\ v.transmit_frame = Frame(u, bits)
  BY <1>1 DEF LoadFrame, Chip
<1> HIDE DEF v
<1>5. ChipOK(v)
  BY <1>3, <1>4, BoundsOf, KeepsOK
<1> QED BY <1>2, <1>4, <1>5 DEF v

LEMMA BeginFrameType ==
  ASSUME NEW u, ChipOK(u), u.transmit_active => u.transmit_frame # <<>>
  PROVE  /\ ChipOK(BeginFrame(u))
         /\ BeginFrame(u).transmit_active => BeginFrame(u).transmit_frame # <<>>
<1>1. u \in Chip
  BY BoundsOf
<1>2. CASE u.transmit_active \/ ~(TransmitterEnabled(u) /\ u.cts)
  BY <1>2 DEF BeginFrame
<1>3. CASE /\ ~(u.transmit_active \/ ~(TransmitterEnabled(u) /\ u.cts))
           /\ u.transmit_buffer # <<>>
  <2> DEFINE v == [u EXCEPT !.transmit_buffer = <<>>]
  <2>1. u.transmit_buffer[1] \in Seq(BOOLEAN)
    BY <1>1, <1>3, FieldsOf, EmptySeq, ElementOfSeq
  <2>2. v \in Chip
    <3>1. <<>> \in Seq(Seq(BOOLEAN))
      BY EmptySeq
    <3> QED BY <1>1, <3>1 DEF Chip
  <2>3. /\ v.mode = u.mode /\ v.phase = u.phase /\ v.syncs = u.syncs
        /\ v.sync_transmit_index = u.sync_transmit_index
        /\ v.transmit_buffer = <<>> /\ v.queue = u.queue
        /\ v.transmitted = u.transmitted /\ v.line = u.line /\ v.rxd = u.rxd
    BY <1>1 DEF Chip
  <2>4. BeginFrame(u) = LoadFrame(v, u.transmit_buffer[1], TRUE)
    BY <1>3 DEF BeginFrame
  <2> HIDE DEF v
  <2>5. ChipOK(v)
    BY <2>2, <2>3, BoundsOf, KeepsOK, EmptySeq
  <2> QED BY <2>1, <2>4, <2>5, LoadFrameType
<1>4. CASE /\ ~(u.transmit_active \/ ~(TransmitterEnabled(u) /\ u.cts))
           /\ ~(u.transmit_buffer # <<>>) /\ Synchronous(u)
  <2> DEFINE v == [u EXCEPT !.sync_transmit_index = (@ + 1) % Len(u.syncs)]
             i == u.sync_transmit_index
  <2>1. i < Len(u.syncs) /\ i \in Nat /\ Len(u.syncs) \in Nat /\ u.phase = "command"
    BY <1>1, <1>4, FieldsOf, LenProperties DEF ChipOK, SyncsLoaded, TransmitterEnabled
  <2>2. u.syncs[i + 1] \in Seq(BOOLEAN)
    <3>1. u.syncs \in Seq(Byte) /\ i + 1 \in 1 .. Len(u.syncs)
      BY <1>1, <2>1, FieldsOf
    <3>2. u.syncs[i + 1] \in Byte
      BY <3>1, ElementOfSeq
    <3> QED BY <3>2, ByteType
  <2>3. (i + 1) % Len(u.syncs) \in Nat /\ (i + 1) % Len(u.syncs) < Len(u.syncs)
    BY <2>1
  <2>4. v \in Chip
    BY <1>1, <2>3 DEF Chip
  <2>5. /\ v.mode = u.mode /\ v.phase = u.phase /\ v.syncs = u.syncs
        /\ v.sync_transmit_index = (i + 1) % Len(u.syncs)
        /\ v.transmit_buffer = u.transmit_buffer /\ v.queue = u.queue
        /\ v.transmitted = u.transmitted /\ v.line = u.line /\ v.rxd = u.rxd
    BY <1>1 DEF Chip
  <2>6. BeginFrame(u) = LoadFrame(v, u.syncs[i + 1], FALSE)
    BY <1>4 DEF BeginFrame
  <2> HIDE DEF v, i
  <2>7. SyncsLoaded(v)
    BY <2>1, <2>3, <2>5 DEF SyncsLoaded, Synchronous
  <2>8. ChipOK(v)
    BY <2>4, <2>5, <2>7, BoundsOf DEF ChipOK
  <2> QED BY <2>2, <2>6, <2>8, LoadFrameType
<1>5. CASE /\ ~(u.transmit_active \/ ~(TransmitterEnabled(u) /\ u.cts))
           /\ ~(u.transmit_buffer # <<>>) /\ ~Synchronous(u)
  BY <1>5 DEF BeginFrame
<1> QED BY <1>2, <1>3, <1>4, <1>5

LEMMA ClockTransmitType ==
  ASSUME NEW u, ChipOK(u)
  PROVE  ChipOK(ClockTransmit(u))
<1>1. u \in Chip /\ BaudFactor(u) \in Nat /\ u.transmit_clocks \in Nat
  BY BoundsOf, FieldsOf, WordType DEF Chip
<1>2. ASSUME NEW clocks \in Nat PROVE ChipOK([u EXCEPT !.transmit_clocks = clocks])
  <2> DEFINE v == [u EXCEPT !.transmit_clocks = clocks]
  <2>1. v \in Chip
    BY <1>1 DEF Chip
  <2>2. /\ v.mode = u.mode /\ v.phase = u.phase /\ v.syncs = u.syncs
        /\ v.sync_transmit_index = u.sync_transmit_index
        /\ v.transmit_buffer = u.transmit_buffer /\ v.queue = u.queue
        /\ v.transmitted = u.transmitted /\ v.line = u.line /\ v.rxd = u.rxd
    BY <1>1 DEF Chip
  <2> HIDE DEF v
  <2>3. ChipOK(v)
    BY <2>1, <2>2, BoundsOf, KeepsOK
  <2> QED BY <2>3 DEF v
<1>3. ASSUME NEW w, ChipOK(w), NEW frame \in Seq(BOOLEAN), NEW level \in BOOLEAN
      PROVE  ChipOK([w EXCEPT !.txd = level, !.transmit_frame = frame])
  <2> DEFINE v == [w EXCEPT !.txd = level, !.transmit_frame = frame]
  <2>1. w \in Chip
    BY <1>3, BoundsOf
  <2>2. v \in Chip
    BY <2>1, <1>3 DEF Chip
  <2>3. /\ v.mode = w.mode /\ v.phase = w.phase /\ v.syncs = w.syncs
        /\ v.sync_transmit_index = w.sync_transmit_index
        /\ v.transmit_buffer = w.transmit_buffer /\ v.queue = w.queue
        /\ v.transmitted = w.transmitted /\ v.line = w.line /\ v.rxd = w.rxd
    BY <2>1 DEF Chip
  <2> HIDE DEF v
  <2>4. ChipOK(v)
    BY <1>3, <2>2, <2>3, BoundsOf, KeepsOK
  <2> QED BY <2>4 DEF v
<1>4. ASSUME NEW w, ChipOK(w), NEW level \in BOOLEAN
      PROVE  ChipOK([w EXCEPT !.txd = level])
  <2>1. w \in Chip /\ w.transmit_frame \in Seq(BOOLEAN)
    BY <1>4, BoundsOf, FieldsOf
  <2>2. [w EXCEPT !.txd = level]
          = [w EXCEPT !.txd = level, !.transmit_frame = w.transmit_frame]
    BY <2>1 DEF Chip
  <2> QED BY <1>3, <1>4, <2>1, <2>2
<1>5. ASSUME NEW w, ChipOK(w) PROVE ChipOK(AdvanceTransmitter(w))
  <2> DEFINE v == BeginFrame(FinishFrame(w))
  <2>1. ChipOK(v) /\ (v.transmit_active => v.transmit_frame # <<>>)
    BY <1>5, FinishFrameType, BeginFrameType
  <2>2. v \in Chip /\ v.transmit_frame \in Seq(BOOLEAN)
    BY <2>1, BoundsOf, FieldsOf
  <2>3. CASE v.transmit_active
    <3>1. /\ Head(v.transmit_frame) \in BOOLEAN /\ Tail(v.transmit_frame) \in Seq(BOOLEAN)
      BY <2>1, <2>2, <2>3, HeadTailProperties
    <3>2. AdvanceTransmitter(w)
            = [v EXCEPT !.txd = Head(v.transmit_frame),
                        !.transmit_frame = Tail(v.transmit_frame)]
      BY <2>3 DEF AdvanceTransmitter
    <3> DEFINE level == Head(v.transmit_frame)
               frame == Tail(v.transmit_frame)
    <3> HIDE DEF v, level, frame
    <3>3. ChipOK([v EXCEPT !.txd = level, !.transmit_frame = frame])
      BY <1>3, <2>1, <3>1, Zenon DEF level, frame
    <3> QED BY <3>2, <3>3 DEF level, frame
  <2>4. CASE ~v.transmit_active
    <3>1. AdvanceTransmitter(w) = [v EXCEPT !.txd = TRUE]
      BY <2>4 DEF AdvanceTransmitter
    <3> QED BY <1>4, <2>1, <3>1
  <2> QED BY <2>3, <2>4
<1>6. CASE SendsBreak(u)
  BY <1>4, <1>6 DEF ClockTransmit
<1>7. CASE ~SendsBreak(u) /\ u.transmit_clocks + 1 < BaudFactor(u)
  BY <1>1, <1>2, <1>7 DEF ClockTransmit
<1>8. CASE ~SendsBreak(u) /\ ~(u.transmit_clocks + 1 < BaudFactor(u))
  <2>1. ClockTransmit(u) = AdvanceTransmitter([u EXCEPT !.transmit_clocks = 0])
    BY <1>8 DEF ClockTransmit
  <2> QED BY <1>2, <1>5, <2>1
<1> QED BY <1>6, <1>7, <1>8

----------------------------------------------------------------------------
(* RxC: the receiver touches nothing the transmitter or the line uses.     *)

Outside(u, v) ==
  /\ v.mode = u.mode /\ v.command = u.command /\ v.phase = u.phase /\ v.syncs = u.syncs
  /\ v.sync_transmit_index = u.sync_transmit_index
  /\ v.transmit_buffer = u.transmit_buffer /\ v.queue = u.queue
  /\ v.transmitted = u.transmitted /\ v.line = u.line /\ v.rxd = u.rxd
  /\ v.transmit_active = u.transmit_active /\ v.transmit_payload = u.transmit_payload
  /\ v.transmit_character = u.transmit_character /\ v.cts = u.cts /\ v.dsr = u.dsr
  /\ v.transmit_clocks = u.transmit_clocks /\ v.transmit_frame = u.transmit_frame
ReceiverStep(u, v) == v \in Chip /\ Outside(u, v)

LEMMA ReceiverKeepsOK ==
  ASSUME NEW u, ChipOK(u), NEW v, ReceiverStep(u, v)
  PROVE  ChipOK(v)
<1>1. /\ v \in Chip
      /\ v.mode = u.mode /\ v.phase = u.phase /\ v.syncs = u.syncs
      /\ v.sync_transmit_index = u.sync_transmit_index
      /\ v.transmit_buffer = u.transmit_buffer /\ v.queue = u.queue
      /\ v.transmitted = u.transmitted /\ v.line = u.line /\ v.rxd = u.rxd
  BY DEF ReceiverStep, Outside
<1> QED BY <1>1, BoundsOf, KeepsOK

LEMMA ReceiverStepsCompose ==
  ASSUME NEW u, NEW v, NEW w, ReceiverStep(u, v), ReceiverStep(v, w)
  PROVE  ReceiverStep(u, w)
BY DEF ReceiverStep, Outside

LEMMA ReceiverSets ==
  ASSUME NEW u \in Chip
  PROVE  /\ \A phase \in ReceivePhases :
              ReceiverStep(u, [u EXCEPT !.receive_phase = phase])
         /\ \A phase \in ReceivePhases, bits \in Seq(BOOLEAN), b \in BOOLEAN :
              ReceiverStep(u, [u EXCEPT !.receive_phase = phase, !.shift = bits, !.pending_parity_error = b])
         /\ \A bits \in Seq(BOOLEAN), phase \in ReceivePhases :
              ReceiverStep(u, [u EXCEPT !.shift = bits, !.receive_phase = phase])
         /\ \A b \in BOOLEAN, phase \in ReceivePhases :
              ReceiverStep(u, [u EXCEPT !.pending_parity_error = b, !.receive_phase = phase])
         /\ \A b \in BOOLEAN :
              ReceiverStep(u, [u EXCEPT !.pending_parity_error = b])
         /\ \A bits \in Seq(BOOLEAN) :
              ReceiverStep(u, [u EXCEPT !.shift = bits])
         /\ \A phase \in ReceivePhases, bits \in Seq(BOOLEAN) :
              ReceiverStep(u, [u EXCEPT !.receive_phase = phase, !.shift = bits])
         /\ \A phase \in ReceivePhases, n \in Nat :
              ReceiverStep(u, [u EXCEPT !.receive_phase = phase, !.receive_clocks = n])
         /\ \A n \in Nat :
              ReceiverStep(u, [u EXCEPT !.receive_clocks = n])
         /\ \A n \in Nat :
              ReceiverStep(u, [u EXCEPT !.sync_hunt_index = n])
         /\ \A b \in BOOLEAN, c \in BOOLEAN, n \in Nat :
              ReceiverStep(u, [u EXCEPT !.sync_detected = b, !.sync_hunt = c, !.sync_hunt_index = n])
<1>1. ASSUME NEW phase \in ReceivePhases
      PROVE  ReceiverStep(u, [u EXCEPT !.receive_phase = phase])
  <2> DEFINE v == [u EXCEPT !.receive_phase = phase]
  <2>1. v \in Chip
    BY <1>1 DEF Chip
  <2>2. Outside(u, v)
    BY DEF Chip, Outside
  <2> QED BY <2>1, <2>2 DEF ReceiverStep
<1>2. ASSUME NEW phase \in ReceivePhases, NEW bits \in Seq(BOOLEAN), NEW b \in BOOLEAN
      PROVE  ReceiverStep(u, [u EXCEPT !.receive_phase = phase, !.shift = bits, !.pending_parity_error = b])
  <2> DEFINE v == [u EXCEPT !.receive_phase = phase, !.shift = bits, !.pending_parity_error = b]
  <2>1. v \in Chip
    BY <1>2 DEF Chip
  <2>2. Outside(u, v)
    BY DEF Chip, Outside
  <2> QED BY <2>1, <2>2 DEF ReceiverStep
<1>3. ASSUME NEW bits \in Seq(BOOLEAN), NEW phase \in ReceivePhases
      PROVE  ReceiverStep(u, [u EXCEPT !.shift = bits, !.receive_phase = phase])
  <2> DEFINE v == [u EXCEPT !.shift = bits, !.receive_phase = phase]
  <2>1. v \in Chip
    BY <1>3 DEF Chip
  <2>2. Outside(u, v)
    BY DEF Chip, Outside
  <2> QED BY <2>1, <2>2 DEF ReceiverStep
<1>4. ASSUME NEW b \in BOOLEAN, NEW phase \in ReceivePhases
      PROVE  ReceiverStep(u, [u EXCEPT !.pending_parity_error = b, !.receive_phase = phase])
  <2> DEFINE v == [u EXCEPT !.pending_parity_error = b, !.receive_phase = phase]
  <2>1. v \in Chip
    BY <1>4 DEF Chip
  <2>2. Outside(u, v)
    BY DEF Chip, Outside
  <2> QED BY <2>1, <2>2 DEF ReceiverStep
<1>5. ASSUME NEW b \in BOOLEAN
      PROVE  ReceiverStep(u, [u EXCEPT !.pending_parity_error = b])
  <2> DEFINE v == [u EXCEPT !.pending_parity_error = b]
  <2>1. v \in Chip
    BY <1>5 DEF Chip
  <2>2. Outside(u, v)
    BY DEF Chip, Outside
  <2> QED BY <2>1, <2>2 DEF ReceiverStep
<1>6. ASSUME NEW bits \in Seq(BOOLEAN)
      PROVE  ReceiverStep(u, [u EXCEPT !.shift = bits])
  <2> DEFINE v == [u EXCEPT !.shift = bits]
  <2>1. v \in Chip
    BY <1>6 DEF Chip
  <2>2. Outside(u, v)
    BY DEF Chip, Outside
  <2> QED BY <2>1, <2>2 DEF ReceiverStep
<1>7. ASSUME NEW phase \in ReceivePhases, NEW bits \in Seq(BOOLEAN)
      PROVE  ReceiverStep(u, [u EXCEPT !.receive_phase = phase, !.shift = bits])
  <2> DEFINE v == [u EXCEPT !.receive_phase = phase, !.shift = bits]
  <2>1. v \in Chip
    BY <1>7 DEF Chip
  <2>2. Outside(u, v)
    BY DEF Chip, Outside
  <2> QED BY <2>1, <2>2 DEF ReceiverStep
<1>8. ASSUME NEW phase \in ReceivePhases, NEW n \in Nat
      PROVE  ReceiverStep(u, [u EXCEPT !.receive_phase = phase, !.receive_clocks = n])
  <2> DEFINE v == [u EXCEPT !.receive_phase = phase, !.receive_clocks = n]
  <2>1. v \in Chip
    BY <1>8 DEF Chip
  <2>2. Outside(u, v)
    BY DEF Chip, Outside
  <2> QED BY <2>1, <2>2 DEF ReceiverStep
<1>9. ASSUME NEW n \in Nat
      PROVE  ReceiverStep(u, [u EXCEPT !.receive_clocks = n])
  <2> DEFINE v == [u EXCEPT !.receive_clocks = n]
  <2>1. v \in Chip
    BY <1>9 DEF Chip
  <2>2. Outside(u, v)
    BY DEF Chip, Outside
  <2> QED BY <2>1, <2>2 DEF ReceiverStep
<1>10. ASSUME NEW n \in Nat
      PROVE  ReceiverStep(u, [u EXCEPT !.sync_hunt_index = n])
  <2> DEFINE v == [u EXCEPT !.sync_hunt_index = n]
  <2>1. v \in Chip
    BY <1>10 DEF Chip
  <2>2. Outside(u, v)
    BY DEF Chip, Outside
  <2> QED BY <2>1, <2>2 DEF ReceiverStep
<1>11. ASSUME NEW b \in BOOLEAN, NEW c \in BOOLEAN, NEW n \in Nat
      PROVE  ReceiverStep(u, [u EXCEPT !.sync_detected = b, !.sync_hunt = c, !.sync_hunt_index = n])
  <2> DEFINE v == [u EXCEPT !.sync_detected = b, !.sync_hunt = c, !.sync_hunt_index = n]
  <2>1. v \in Chip
    BY <1>11 DEF Chip
  <2>2. Outside(u, v)
    BY DEF Chip, Outside
  <2> QED BY <2>1, <2>2 DEF ReceiverStep
<1> QED BY <1>1, <1>2, <1>3, <1>4, <1>5, <1>6, <1>7, <1>8, <1>9, <1>10, <1>11

LEMMA PhaseNames == {"idle", "start", "data", "parity", "stop", "sync_data", "sync_parity"}
                      \subseteq ReceivePhases
BY DEF ReceivePhases

LEMMA ReceiveByteType ==
  ASSUME NEW u \in Chip, NEW bits \in Seq(BOOLEAN),
         NEW pe \in BOOLEAN, NEW fe \in BOOLEAN
  PROVE  ReceiverStep(u, ReceiveByte(u, bits, pe, fe))
<1>1. CASE ~ReceiverEnabled(u)
  BY <1>1 DEF ReceiveByte, ReceiverStep, Outside
<1>2. CASE ReceiverEnabled(u) /\ u.receive_ready
  <2>1. ReceiveByte(u, bits, pe, fe) = [u EXCEPT !.overrun_error = TRUE]
    BY <1>2 DEF ReceiveByte
  <2>2. [u EXCEPT !.overrun_error = TRUE] \in Chip
    BY DEF Chip
  <2>3. Outside(u, [u EXCEPT !.overrun_error = TRUE])
    BY DEF Chip, Outside
  <2> QED BY <2>1, <2>2, <2>3 DEF ReceiverStep
<1>3. CASE ReceiverEnabled(u) /\ ~u.receive_ready
  <2> DEFINE masked == Masked(u, bits)
             parity == u.parity_error \/ pe
             framing == u.framing_error \/ fe
             break == u.break_detected \/ (fe /\ \A i \in 1 .. Len(bits) : ~bits[i])
             v == [u EXCEPT !.receive_buffer = masked, !.receive_ready = TRUE,
                            !.parity_error = parity, !.framing_error = framing,
                            !.break_detected = break]
  <2>1. masked \in Seq(BOOLEAN)
    BY FieldsOf, MaskedType
  <2>2. parity \in BOOLEAN /\ framing \in BOOLEAN /\ break \in BOOLEAN
    OBVIOUS
  <2>3. ReceiveByte(u, bits, pe, fe) = v
    BY <1>3 DEF ReceiveByte
  <2> HIDE DEF masked, parity, framing, break
  <2>4. v \in Chip
    BY <2>1, <2>2 DEF Chip
  <2>5. Outside(u, v)
    BY DEF Chip, Outside
  <2> QED BY <2>3, <2>4, <2>5 DEF ReceiverStep
<1> QED BY <1>1, <1>2, <1>3

LEMMA SampleAsyncType ==
  ASSUME NEW u \in Chip
  PROVE  ReceiverStep(u, SampleAsync(u))
<1>0. u.shift \in Seq(BOOLEAN) /\ u.rxd \in BOOLEAN /\ u.pending_parity_error \in BOOLEAN
        /\ <<>> \in Seq(BOOLEAN)
  BY EmptySeq DEF Chip
<1>1. CASE u.receive_phase = "start" /\ u.rxd
  <2>1. SampleAsync(u) = [u EXCEPT !.receive_phase = "idle"]
    BY <1>1 DEF SampleAsync
  <2>9. ReceiverStep(u, [u EXCEPT !.receive_phase = "idle"])
    BY <1>0, ReceiverSets, PhaseNames, Zenon
  <2> QED BY <2>1, <2>9
<1>2. CASE u.receive_phase = "start" /\ ~u.rxd
  <2>1. SampleAsync(u) = [u EXCEPT !.receive_phase = "data", !.shift = <<>>,
                                   !.pending_parity_error = FALSE]
    BY <1>2 DEF SampleAsync
  <2>9. ReceiverStep(u, [u EXCEPT !.receive_phase = "data", !.shift = <<>>,
                                   !.pending_parity_error = FALSE])
    BY <1>0, ReceiverSets, PhaseNames, Zenon
  <2> QED BY <2>1, <2>9
<1>3. CASE u.receive_phase = "data"
  <2> DEFINE shift == Append(u.shift, u.rxd)
             next == IF Len(u.shift) + 1 >= CharacterBits(u) THEN AfterData(u) ELSE u.receive_phase
  <2>1. SampleAsync(u) = [u EXCEPT !.shift = shift, !.receive_phase = next]
    BY <1>3 DEF SampleAsync
  <2>2. shift \in Seq(BOOLEAN)
    BY <1>0, AppendProperties
  <2>3. next \in ReceivePhases
    BY <1>3 DEF AfterData, ReceivePhases
  <2> HIDE DEF shift, next
  <2>9. ReceiverStep(u, [u EXCEPT !.shift = shift, !.receive_phase = next])
    BY <2>2, <2>3, <1>0, ReceiverSets, PhaseNames, Zenon
  <2> QED BY <2>1, <2>9
<1>4. CASE u.receive_phase = "parity"
  <2> DEFINE wrong == u.rxd # ParityBit(u, u.shift)
  <2>1. SampleAsync(u) = [u EXCEPT !.pending_parity_error = wrong, !.receive_phase = "stop"]
    BY <1>4 DEF SampleAsync
  <2>2. wrong \in BOOLEAN
    BY Zenon
  <2> HIDE DEF wrong
  <2>9. ReceiverStep(u, [u EXCEPT !.pending_parity_error = wrong, !.receive_phase = "stop"])
    BY <2>2, <1>0, ReceiverSets, PhaseNames, Zenon
  <2> QED BY <2>1, <2>9
<1>5. CASE u.receive_phase = "stop"
  <2> DEFINE v == ReceiveByte(u, u.shift, u.pending_parity_error, ~u.rxd)
  <2>1. SampleAsync(u) = [v EXCEPT !.receive_phase = "idle"]
    BY <1>5 DEF SampleAsync
  <2>2. (~u.rxd) \in BOOLEAN
    OBVIOUS
  <2>3. ReceiverStep(u, v)
    BY <1>0, <2>2, ReceiveByteType
  <2> HIDE DEF v
  <2>4. v \in Chip
    BY <2>3 DEF ReceiverStep
  <2>5. ReceiverStep(v, [v EXCEPT !.receive_phase = "idle"])
    BY <1>0, <2>4, ReceiverSets, PhaseNames, Zenon
  <2> QED BY <2>1, <2>3, <2>5, ReceiverStepsCompose
<1>6. CASE u.receive_phase \notin {"start", "data", "parity", "stop"}
  <2>1. SampleAsync(u) = [u EXCEPT !.receive_phase = "idle"]
    BY <1>6 DEF SampleAsync
  <2>9. ReceiverStep(u, [u EXCEPT !.receive_phase = "idle"])
    BY <1>0, ReceiverSets, PhaseNames, Zenon
  <2> QED BY <2>1, <2>9
<1> QED BY <1>1, <1>2, <1>3, <1>4, <1>5, <1>6

LEMMA ReceiveAsyncType ==
  ASSUME NEW u \in Chip
  PROVE  ReceiverStep(u, ReceiveAsync(u))
<1>0. <<>> \in Seq(BOOLEAN)
  BY EmptySeq
<1>1. BaudFactor(u) \in Nat /\ BaudFactor(u) \div 2 \in Nat
  BY FieldsOf, WordType
<1>2. StartDelay(u) \in Nat
  BY <1>1 DEF StartDelay
<1>3. CASE u.receive_phase = "idle" /\ u.rxd
  <2>1. ReceiveAsync(u) = u
    BY <1>3 DEF ReceiveAsync
  <2> QED BY <2>1 DEF ReceiverStep, Outside
<1>4. CASE u.receive_phase = "idle" /\ ~u.rxd
  <2>1. ReceiveAsync(u) = [u EXCEPT !.receive_phase = "start", !.receive_clocks = StartDelay(u)]
    BY <1>4 DEF ReceiveAsync
  <2>9. ReceiverStep(u, [u EXCEPT !.receive_phase = "start", !.receive_clocks = StartDelay(u)])
    BY <1>2, <1>0, ReceiverSets, PhaseNames, Zenon
  <2> QED BY <2>1, <2>9
<1>5. CASE u.receive_phase # "idle" /\ u.receive_clocks > 1
  <2>1. u.receive_clocks - 1 \in Nat
    BY <1>5 DEF Chip
  <2>2. ReceiveAsync(u) = [u EXCEPT !.receive_clocks = u.receive_clocks - 1]
    BY <1>5 DEF ReceiveAsync
  <2>9. ReceiverStep(u, [u EXCEPT !.receive_clocks = u.receive_clocks - 1])
    BY <2>1, <1>0, ReceiverSets, PhaseNames, Zenon
  <2> QED BY <2>2, <2>9
<1>6. CASE u.receive_phase # "idle" /\ ~(u.receive_clocks > 1)
  <2> DEFINE v == [u EXCEPT !.receive_clocks = BaudFactor(u)]
  <2>1. ReceiverStep(u, v)
    BY <1>0, <1>1, ReceiverSets, PhaseNames, Zenon
  <2>2. ReceiveAsync(u) = SampleAsync(v)
    BY <1>6 DEF ReceiveAsync
  <2> HIDE DEF v
  <2>3. ReceiverStep(v, SampleAsync(v))
    BY <2>1, SampleAsyncType DEF ReceiverStep
  <2> QED BY <2>1, <2>2, <2>3, ReceiverStepsCompose
<1> QED BY <1>3, <1>4, <1>5, <1>6

LEMMA HuntOnType ==
  ASSUME NEW u \in Chip
  PROVE  ReceiverStep(u, HuntOn(u))
<1>0. u.sync_hunt_index + 1 \in Nat
  BY DEF Chip
<1>1. \A n \in Nat : ReceiverStep(u, [u EXCEPT !.sync_hunt_index = n])
  BY ReceiverSets, Zenon
<1>2. ReceiverStep(u, [u EXCEPT !.sync_detected = TRUE, !.sync_hunt = FALSE,
                                !.sync_hunt_index = 0])
  <2>1. 0 \in Nat
    OBVIOUS
  <2> QED BY <2>1, ReceiverSets, Zenon
<1>3. HuntOn(u) \in {[u EXCEPT !.sync_hunt_index = 1], [u EXCEPT !.sync_hunt_index = 0],
                     [u EXCEPT !.sync_hunt_index = u.sync_hunt_index + 1],
                     [u EXCEPT !.sync_detected = TRUE, !.sync_hunt = FALSE,
                               !.sync_hunt_index = 0]}
  BY DEF HuntOn
<1>4. 0 \in Nat /\ 1 \in Nat
  OBVIOUS
<1> QED BY <1>0, <1>1, <1>2, <1>3, <1>4, Zenon

LEMMA FinishSyncCharacterType ==
  ASSUME NEW u \in Chip
  PROVE  ReceiverStep(u, FinishSyncCharacter(u))
<1> DEFINE v == IF u.sync_hunt THEN HuntOn(u)
                ELSE ReceiveByte(u, u.shift, u.pending_parity_error, FALSE)
<1>0. u.shift \in Seq(BOOLEAN) /\ u.pending_parity_error \in BOOLEAN
  BY DEF Chip
<1>1. ReceiverStep(u, HuntOn(u))
  BY HuntOnType
<1>2. ReceiverStep(u, ReceiveByte(u, u.shift, u.pending_parity_error, FALSE))
  BY <1>0, ReceiveByteType
<1>3. ReceiverStep(u, v)
  BY <1>1, <1>2
<1>4. FinishSyncCharacter(u) = [v EXCEPT !.receive_phase = "sync_data", !.shift = <<>>,
                                         !.pending_parity_error = FALSE]
  BY DEF FinishSyncCharacter
<1> HIDE DEF v
<1>5. v \in Chip
  BY <1>3 DEF ReceiverStep
<1>6. ReceiverStep(v, [v EXCEPT !.receive_phase = "sync_data", !.shift = <<>>,
                                !.pending_parity_error = FALSE])
  <2>1. <<>> \in Seq(BOOLEAN)
    BY EmptySeq
  <2> QED BY <1>5, <2>1, ReceiverSets, PhaseNames, Zenon
<1> QED BY <1>3, <1>4, <1>6, ReceiverStepsCompose

LEMMA SampleSyncType ==
  ASSUME NEW u \in Chip
  PROVE  ReceiverStep(u, SampleSync(u))
<1>0. u.shift \in Seq(BOOLEAN) /\ u.rxd \in BOOLEAN
  BY DEF Chip
<1>1. ASSUME NEW w \in Chip PROVE ReceiverStep(w, SampleSyncData(w))
  <2> DEFINE shift == Append(w.shift, w.rxd)
             v == [w EXCEPT !.shift = shift]
  <2>1. shift \in Seq(BOOLEAN)
    BY <1>1, AppendProperties DEF Chip
  <2>2. SampleSyncData(w) \in {v, [v EXCEPT !.receive_phase = "sync_parity"],
                               FinishSyncCharacter(v)}
    BY DEF SampleSyncData
  <2> HIDE DEF shift
  <2>3. ReceiverStep(w, v)
    BY <1>1, <2>1, ReceiverSets, Zenon
  <2> HIDE DEF v
  <2>4. v \in Chip
    BY <2>3 DEF ReceiverStep
  <2>5. ReceiverStep(v, [v EXCEPT !.receive_phase = "sync_parity"])
    BY <2>4, ReceiverSets, PhaseNames, Zenon
  <2>6. ReceiverStep(v, FinishSyncCharacter(v))
    BY <2>4, FinishSyncCharacterType
  <2>7. ReceiverStep(w, [v EXCEPT !.receive_phase = "sync_parity"])
    BY <2>3, <2>5, ReceiverStepsCompose
  <2>8. ReceiverStep(w, FinishSyncCharacter(v))
    BY <2>3, <2>6, ReceiverStepsCompose
  <2> QED BY <2>2, <2>3, <2>7, <2>8, Zenon
<1>2. CASE u.receive_phase = "sync_data"
  <2>1. SampleSync(u) = SampleSyncData(u)
    BY <1>2 DEF SampleSync
  <2> QED BY <1>1, <2>1
<1>3. CASE u.receive_phase = "sync_parity"
  <2> DEFINE wrong == u.rxd # ParityBit(u, u.shift)
             v == [u EXCEPT !.pending_parity_error = wrong]
  <2>1. wrong \in BOOLEAN
    BY Zenon
  <2>2. SampleSync(u) = FinishSyncCharacter(v)
    BY <1>3 DEF SampleSync
  <2> HIDE DEF wrong
  <2>3. ReceiverStep(u, v)
    BY <2>1, ReceiverSets, Zenon
  <2> HIDE DEF v
  <2>4. ReceiverStep(v, FinishSyncCharacter(v))
    BY <2>3, FinishSyncCharacterType DEF ReceiverStep
  <2> QED BY <2>2, <2>3, <2>4, ReceiverStepsCompose
<1>4. CASE u.receive_phase \notin {"sync_data", "sync_parity"}
  <2> DEFINE v == [u EXCEPT !.receive_phase = "sync_data", !.shift = <<>>]
  <2>1. SampleSync(u) = SampleSyncData(v)
    BY <1>4 DEF SampleSync
  <2>2. <<>> \in Seq(BOOLEAN)
    BY EmptySeq
  <2>3. ReceiverStep(u, v)
    BY <2>2, ReceiverSets, PhaseNames, Zenon
  <2> HIDE DEF v
  <2>4. ReceiverStep(v, SampleSyncData(v))
    BY <1>1, <2>3 DEF ReceiverStep
  <2> QED BY <2>1, <2>3, <2>4, ReceiverStepsCompose
<1> QED BY <1>2, <1>3, <1>4

LEMMA ReceiveClockEdgeType ==
  ASSUME NEW u \in Chip
  PROVE  ReceiverStep(u, ReceiveClockEdge(u))
<1>1. ReceiveClockEdge(u) \in {u, SampleSync(u), ReceiveAsync(u)}
  BY DEF ReceiveClockEdge
<1>2. ReceiverStep(u, u)
  BY DEF ReceiverStep, Outside
<1> QED BY <1>1, <1>2, SampleSyncType, ReceiveAsyncType, Zenon

(* The line: one frame of the host's queue after the other. *)
LEMMA StartQueuedFrameType ==
  ASSUME NEW u, ChipOK(u)
  PROVE  ChipOK(StartQueuedFrame(u))
<1>1. CASE ~StartsFrame(u)
  BY <1>1 DEF StartQueuedFrame
<1>2. CASE StartsFrame(u)
  <2> DEFINE frame == Frame(u, Head(u.queue))
             v == [u EXCEPT !.queue = Tail(@), !.line = frame, !.line_clocks = BaudFactor(u)]
  <2>1. u \in Chip /\ u.queue \in Seq(Byte) /\ u.queue # <<>> /\ BaudFactor(u) \in Nat
    BY <1>2, BoundsOf, FieldsOf, WordType DEF StartsFrame
  <2>2. Tail(u.queue) \in Seq(Byte) /\ Len(Tail(u.queue)) = Len(u.queue) - 1
          /\ Len(u.queue) \in Nat
    BY <2>1, HeadTailProperties, LenProperties
  <2>3. frame \in Seq(BOOLEAN) /\ frame # <<>>
    BY <2>1, FieldsOf, FrameType
  <2> HIDE DEF frame
  <2>4. v \in Chip
    BY <2>1, <2>2, <2>3 DEF Chip
  <2>5. /\ v.mode = u.mode /\ v.phase = u.phase /\ v.syncs = u.syncs
        /\ v.sync_transmit_index = u.sync_transmit_index
        /\ v.transmit_buffer = u.transmit_buffer /\ v.queue = Tail(u.queue)
        /\ v.transmitted = u.transmitted /\ v.line = frame
    BY <2>1 DEF Chip
  <2>6. StartQueuedFrame(u) = v
    BY <1>2 DEF StartQueuedFrame, frame
  <2> HIDE DEF v
  <2>7. Len(v.queue) <= UartCapacity
    BY <2>2, <2>5, BoundsOf, Capacity
  <2>8. ChipOK(v)
    BY <2>3, <2>4, <2>5, <2>7, BoundsOf, KeepsOK
  <2> QED BY <2>6, <2>8
<1> QED BY <1>1, <1>2

LEMMA DriveLineType ==
  ASSUME NEW u, ChipOK(u)
  PROVE  ChipOK(DriveLine(u))
<1>1. CASE u.line = <<>>
  BY <1>1 DEF DriveLine
<1>2. CASE u.line # <<>>
  <2> DEFINE level == Head(u.line)
             v == [u EXCEPT !.rxd = level]
  <2>1. u \in Chip /\ level \in BOOLEAN
    BY <1>2, BoundsOf, FieldsOf, HeadTailProperties
  <2> HIDE DEF level
  <2>2. v \in Chip
    BY <2>1 DEF Chip
  <2>3. /\ v.mode = u.mode /\ v.phase = u.phase /\ v.syncs = u.syncs
        /\ v.sync_transmit_index = u.sync_transmit_index
        /\ v.transmit_buffer = u.transmit_buffer /\ v.queue = u.queue
        /\ v.transmitted = u.transmitted /\ v.line = u.line
    BY <2>1 DEF Chip
  <2>4. DriveLine(u) = v
    BY <1>2 DEF DriveLine, level
  <2> HIDE DEF v
  <2>5. ChipOK(v)
    BY <1>2, <2>2, <2>3, BoundsOf, KeepsOK
  <2> QED BY <2>4, <2>5
<1> QED BY <1>1, <1>2

LEMMA AdvanceLineType ==
  ASSUME NEW u, ChipOK(u)
  PROVE  ChipOK(AdvanceLine(u))
<1>0. u \in Chip /\ u.line \in Seq(BOOLEAN) /\ BaudFactor(u) \in Nat /\ u.line_clocks \in Nat
        /\ <<>> \in Seq(BOOLEAN)
  BY BoundsOf, FieldsOf, WordType, EmptySeq DEF Chip
<1>1. ASSUME NEW line \in Seq(BOOLEAN), NEW clocks \in Nat, NEW level \in BOOLEAN,
             line = <<>> => level
      PROVE  ChipOK([u EXCEPT !.line = line, !.line_clocks = clocks, !.rxd = level])
  <2> DEFINE v == [u EXCEPT !.line = line, !.line_clocks = clocks, !.rxd = level]
  <2>1. v \in Chip
    BY <1>0, <1>1 DEF Chip
  <2>2. /\ v.mode = u.mode /\ v.phase = u.phase /\ v.syncs = u.syncs
        /\ v.sync_transmit_index = u.sync_transmit_index
        /\ v.transmit_buffer = u.transmit_buffer /\ v.queue = u.queue
        /\ v.transmitted = u.transmitted /\ v.line = line /\ v.rxd = level
    BY <1>0 DEF Chip
  <2> HIDE DEF v
  <2>3. ChipOK(v)
    BY <1>1, <2>1, <2>2, BoundsOf, KeepsOK
  <2> QED BY <2>3 DEF v
<1>2. CASE u.line = <<>>
  BY <1>2 DEF AdvanceLine
<1>3. CASE u.line # <<>> /\ u.line_clocks > 1
  <2> DEFINE v == [u EXCEPT !.line_clocks = @ - 1]
  <2>1. u.line_clocks - 1 \in Nat
    BY <1>0, <1>3
  <2>2. v \in Chip
    BY <1>0, <2>1 DEF Chip
  <2>3. /\ v.mode = u.mode /\ v.phase = u.phase /\ v.syncs = u.syncs
        /\ v.sync_transmit_index = u.sync_transmit_index
        /\ v.transmit_buffer = u.transmit_buffer /\ v.queue = u.queue
        /\ v.transmitted = u.transmitted /\ v.line = u.line /\ v.rxd = u.rxd
    BY <1>0 DEF Chip
  <2>4. AdvanceLine(u) = v
    BY <1>0, <1>3 DEF AdvanceLine
  <2> HIDE DEF v
  <2>5. ChipOK(v)
    BY <2>2, <2>3, BoundsOf, KeepsOK
  <2> QED BY <2>4, <2>5
<1>4. CASE u.line # <<>> /\ u.line_clocks <= 1 /\ Len(u.line) > 1
  <2> DEFINE v == [u EXCEPT !.line = Tail(@), !.line_clocks = BaudFactor(u)]
  <2>1. Tail(u.line) \in Seq(BOOLEAN) /\ Tail(u.line) # <<>>
    <3>1. Tail(u.line) \in Seq(BOOLEAN) /\ Len(Tail(u.line)) = Len(u.line) - 1
      BY <1>0, <1>4, HeadTailProperties
    <3>2. Len(u.line) \in Nat
      BY <1>0, LenProperties
    <3> QED BY <1>4, <3>1, <3>2, EmptySeq
  <2>2. v \in Chip
    BY <1>0, <2>1 DEF Chip
  <2>3. /\ v.mode = u.mode /\ v.phase = u.phase /\ v.syncs = u.syncs
        /\ v.sync_transmit_index = u.sync_transmit_index
        /\ v.transmit_buffer = u.transmit_buffer /\ v.queue = u.queue
        /\ v.transmitted = u.transmitted /\ v.line = Tail(u.line)
    BY <1>0 DEF Chip
  <2>4. AdvanceLine(u) = v
    BY <1>0, <1>4 DEF AdvanceLine
  <2> HIDE DEF v
  <2>5. ChipOK(v)
    BY <2>1, <2>2, <2>3, BoundsOf, KeepsOK
  <2> QED BY <2>4, <2>5
<1>5. CASE u.line # <<>> /\ ~(u.line_clocks > 1) /\ ~(Len(u.line) > 1)
  <2>1. AdvanceLine(u) = [u EXCEPT !.line = <<>>, !.line_clocks = 0, !.rxd = TRUE]
    BY <1>0, <1>5 DEF AdvanceLine
  <2>2. 0 \in Nat
    OBVIOUS
  <2>3. ChipOK([u EXCEPT !.line = <<>>, !.line_clocks = 0, !.rxd = TRUE])
    BY <1>0, <1>1, <2>2, Zenon
  <2> QED BY <2>1, <2>3
<1> QED BY <1>0, <1>2, <1>3, <1>4, <1>5

LEMMA ClockReceiveType ==
  ASSUME NEW u, ChipOK(u)
  PROVE  ChipOK(ClockReceive(u))
<1> DEFINE v == DriveLine(StartQueuedFrame(u))
<1>1. ChipOK(v)
  BY StartQueuedFrameType, DriveLineType
<1> HIDE DEF v
<1>2. ReceiverStep(v, ReceiveClockEdge(v))
  BY <1>1, BoundsOf, ReceiveClockEdgeType
<1>3. ChipOK(ReceiveClockEdge(v))
  BY <1>1, <1>2, ReceiverKeepsOK
<1>4. ChipOK(AdvanceLine(ReceiveClockEdge(v)))
  BY <1>3, AdvanceLineType
<1> QED BY <1>4 DEF ClockReceive, v

----------------------------------------------------------------------------
(* The CPU and the host. *)

LEMMA AcceptModeType ==
  ASSUME NEW u, ChipOK(u), u.phase = "mode", NEW value \in Byte
  PROVE  /\ ChipOK(AcceptMode(u, value))
         /\ AcceptMode(u, value).cts = u.cts /\ AcceptMode(u, value).dsr = u.dsr
         /\ AcceptMode(u, Zero).phase = "sync1"
<1> DEFINE v(b) == [u EXCEPT !.mode = b, !.command = Zero, !.transmit_buffer = <<>>,
                             !.transmit_active = FALSE, !.receive_ready = FALSE,
                             !.receive_phase = "idle", !.sync_detected = FALSE,
                             !.sync_hunt = FALSE, !.syncs = <<>>]
           phase(b) == IF Synchronous(v(b)) THEN "sync1" ELSE "command"
<1>1. u \in Chip /\ Zero \in Byte /\ u.sync_transmit_index = 0
  BY BoundsOf, ByteType DEF ChipOK, SyncsLoaded
<1>2. <<>> \in Seq(Seq(BOOLEAN)) /\ <<>> \in Seq(Byte) /\ Len(<<>>) = 0
  BY EmptySeq
<1>3. ASSUME NEW b \in Byte
      PROVE  /\ v(b) \in Chip /\ v(b).mode = b
             /\ v(b).syncs = <<>> /\ v(b).transmit_buffer = <<>>
             /\ v(b).sync_transmit_index = 0 /\ v(b).queue = u.queue
             /\ v(b).transmitted = u.transmitted /\ v(b).line = u.line
             /\ v(b).rxd = u.rxd /\ v(b).cts = u.cts /\ v(b).dsr = u.dsr
  BY <1>1, <1>2, <1>3, PhaseNames, ZenonT(60) DEF Chip
<1>4. \A b \in Byte : AcceptMode(u, b) = [v(b) EXCEPT !.phase = phase(b)]
  BY DEF AcceptMode
<1> HIDE DEF v
<1>5. ASSUME NEW b \in Byte
      PROVE  /\ ChipOK([v(b) EXCEPT !.phase = phase(b)])
             /\ [v(b) EXCEPT !.phase = phase(b)].cts = u.cts
             /\ [v(b) EXCEPT !.phase = phase(b)].dsr = u.dsr
  <2> DEFINE w == [v(b) EXCEPT !.phase = phase(b)]
  <2>1. phase(b) \in Phases
    BY DEF Phases
  <2>2. w \in Chip
    <3>1. v(b) \in Chip
      BY <1>3, <1>5
    <3> HIDE DEF phase
    <3> QED BY <2>1, <3>1 DEF Chip
  <2>3. /\ w.phase = phase(b) /\ w.mode = b
        /\ w.syncs = <<>> /\ w.transmit_buffer = <<>>
        /\ w.sync_transmit_index = 0 /\ w.queue = u.queue
        /\ w.transmitted = u.transmitted /\ w.line = u.line
        /\ w.rxd = u.rxd /\ w.cts = u.cts /\ w.dsr = u.dsr
    BY <1>3, <1>5 DEF Chip
  <2>4. Synchronous(w) <=> Synchronous(v(b))
    BY <1>3, <1>5, <2>3 DEF Synchronous
  <2> HIDE DEF w
  <2>5. SyncsLoaded(w)
    BY <2>3, <2>4 DEF SyncsLoaded
  <2>6. ChipOK(w)
    BY <1>2, <2>2, <2>3, <2>5, BoundsOf DEF ChipOK
  <2> QED BY <2>3, <2>6 DEF w
<1>6. [v(Zero) EXCEPT !.phase = phase(Zero)].phase = "sync1"
  <2>1. Synchronous(v(Zero))
    BY <1>1, <1>3 DEF Synchronous, Zero
  <2> QED BY <1>1, <1>3, <2>1 DEF Chip
<1> QED BY <1>1, <1>4, <1>5, <1>6

LEMMA InternalResetIsReset ==
  ASSUME NEW u, ChipOK(u)
  PROVE  InternalReset(u) = ResetChip(u.cts, u.dsr)
<1>1. (IF u.line # <<>> THEN TRUE ELSE u.rxd) = TRUE
  BY BoundsOf DEF Chip
<1>2. [ResetChip(u.cts, u.dsr) EXCEPT !.rxd = TRUE] = ResetChip(u.cts, u.dsr)
  <2>1. ResetChip(u.cts, u.dsr) \in Chip
    <3>1. u.cts \in BOOLEAN /\ u.dsr \in BOOLEAN
      BY BoundsOf DEF Chip
    <3>2. ChipOK(ResetChip(u.cts, u.dsr))
      BY <3>1, ResetType
    <3> QED BY <3>2 DEF ChipOK
  <2>2. ResetChip(u.cts, u.dsr).rxd = TRUE
    BY DEF ResetChip
  <2> QED BY <2>1, <2>2 DEF Chip
<1> QED BY <1>1, <1>2 DEF InternalReset

LEMMA AcceptCommandType ==
  ASSUME NEW u, ChipOK(u), NEW value \in Byte
  PROVE  /\ ChipOK(AcceptCommand(u, value))
         /\ AcceptCommand(u, value).cts = u.cts /\ AcceptCommand(u, value).dsr = u.dsr
         /\ value[7] => AcceptCommand(u, value) = ResetChip(u.cts, u.dsr)
         /\ ~value[7] => Outside([u EXCEPT !.command = value], AcceptCommand(u, value))
<1> DEFINE stored == [u EXCEPT !.command = value]
           cleared == IF value[5] THEN ResetErrors(stored) ELSE stored
           hunting == IF Synchronous(u) /\ value[8] THEN EnterHunt(cleared) ELSE cleared
           marking == IF value[1] THEN hunting ELSE [hunting EXCEPT !.txd = TRUE]
           idle == IF value[3] THEN marking ELSE [marking EXCEPT !.receive_phase = "idle"]
<1>1. u \in Chip /\ u.cts \in BOOLEAN /\ u.dsr \in BOOLEAN
  BY BoundsOf DEF Chip
<1>2. CASE value[7]
  <2>1. AcceptCommand(u, value) = ResetChip(u.cts, u.dsr)
    BY <1>2, InternalResetIsReset DEF AcceptCommand
  <2>2. ResetChip(u.cts, u.dsr).cts = u.cts /\ ResetChip(u.cts, u.dsr).dsr = u.dsr
    BY DEF ResetChip
  <2> QED BY <1>1, <1>2, <2>1, <2>2, ResetType
<1>3. CASE ~value[7]
  <2>1. stored \in Chip
    BY <1>1 DEF Chip
  <2>2. AcceptCommand(u, value) = idle
    BY <1>3 DEF AcceptCommand
  <2>3. /\ stored.mode = u.mode /\ stored.phase = u.phase /\ stored.syncs = u.syncs
        /\ stored.sync_transmit_index = u.sync_transmit_index
        /\ stored.transmit_buffer = u.transmit_buffer /\ stored.queue = u.queue
        /\ stored.transmitted = u.transmitted /\ stored.line = u.line
        /\ stored.rxd = u.rxd /\ stored.cts = u.cts /\ stored.dsr = u.dsr
    BY <1>1 DEF Chip
  <2> HIDE DEF stored
  <2>4. ReceiverStep(stored, cleared)
    <3>1. ResetErrors(stored) \in Chip
      BY <2>1, ZenonT(60) DEF ResetErrors, Chip
    <3>2. Outside(stored, ResetErrors(stored))
      BY <2>1 DEF ResetErrors, Chip, Outside
    <3>3. ReceiverStep(stored, stored)
      BY <2>1 DEF ReceiverStep, Outside
    <3> QED BY <3>1, <3>2, <3>3 DEF ReceiverStep
  <2> HIDE DEF cleared
  <2>5. ReceiverStep(cleared, hunting)
    <3>0. cleared \in Chip /\ <<>> \in Seq(BOOLEAN)
      BY <2>4, EmptySeq DEF ReceiverStep
    <3>1. EnterHunt(cleared) \in Chip
      BY <3>0, PhaseNames, ZenonT(60) DEF EnterHunt, Chip
    <3>2. Outside(cleared, EnterHunt(cleared))
      BY <3>0 DEF EnterHunt, Chip, Outside
    <3>3. ReceiverStep(cleared, cleared)
      BY <3>0 DEF ReceiverStep, Outside
    <3> QED BY <3>1, <3>2, <3>3 DEF ReceiverStep
  <2> HIDE DEF hunting
  <2>6. ReceiverStep(hunting, marking)
    <3>0. hunting \in Chip
      BY <2>5 DEF ReceiverStep
    <3>1. [hunting EXCEPT !.txd = TRUE] \in Chip
      BY <3>0 DEF Chip
    <3>2. Outside(hunting, [hunting EXCEPT !.txd = TRUE])
      BY <3>0 DEF Chip, Outside
    <3>3. ReceiverStep(hunting, hunting)
      BY <3>0 DEF ReceiverStep, Outside
    <3> QED BY <3>1, <3>2, <3>3 DEF ReceiverStep
  <2> HIDE DEF marking
  <2>7. ReceiverStep(marking, idle)
    <3>0. marking \in Chip
      BY <2>6 DEF ReceiverStep
    <3>1. ReceiverStep(marking, [marking EXCEPT !.receive_phase = "idle"])
      BY <3>0, ReceiverSets, PhaseNames, Zenon
    <3>2. ReceiverStep(marking, marking)
      BY <3>0 DEF ReceiverStep, Outside
    <3> QED BY <3>1, <3>2
  <2> HIDE DEF idle
  <2>8. ReceiverStep(stored, idle)
    BY <2>4, <2>5, <2>6, <2>7, ReceiverStepsCompose
  <2>9. ChipOK(stored)
    BY <2>1, <2>3, BoundsOf, KeepsOK
  <2>10. ChipOK(idle)
    BY <2>8, <2>9, ReceiverKeepsOK
  <2>11. Outside(stored, idle)
    BY <2>8 DEF ReceiverStep
  <2>12. idle.cts = u.cts /\ idle.dsr = u.dsr
    BY <2>3, <2>11 DEF Outside
  <2> QED BY <1>3, <2>2, <2>10, <2>11, <2>12 DEF stored
<1> QED BY <1>2, <1>3

LEMMA WriteControlType ==
  ASSUME NEW u, ChipOK(u), NEW value \in Byte
  PROVE  /\ ChipOK(WriteControl(u, value))
         /\ WriteControl(u, value).cts = u.cts /\ WriteControl(u, value).dsr = u.dsr
         /\ u.phase = "sync1" => WriteControl(u, value).phase \in {"sync2", "command"}
         /\ u.phase = "sync2" => WriteControl(u, value).phase = "command"
<1>0. u \in Chip /\ u.phase \in Phases /\ u.syncs \in Seq(Byte)
  BY BoundsOf, FieldsOf
<1>1. CASE u.phase = "mode"
  <2>1. WriteControl(u, value) = AcceptMode(u, value)
    BY <1>1 DEF WriteControl
  <2> QED BY <1>1, <2>1, AcceptModeType
<1>2. ASSUME NEW syncs \in Seq(Byte), Len(syncs) > 0, NEW phase \in {"sync2", "command"},
             phase = "sync2" => Len(syncs) = 1, u.phase \in {"sync1", "sync2"}
      PROVE  LET v == [u EXCEPT !.syncs = syncs, !.phase = phase]
             IN ChipOK(v) /\ v.cts = u.cts /\ v.dsr = u.dsr /\ v.phase = phase
  <2> DEFINE v == [u EXCEPT !.syncs = syncs, !.phase = phase]
  <2>1. v \in Chip
    BY <1>0, <1>2 DEF Chip, Phases
  <2>2. /\ v.syncs = syncs /\ v.phase = phase /\ v.cts = u.cts /\ v.dsr = u.dsr
        /\ v.sync_transmit_index = u.sync_transmit_index
        /\ v.transmit_buffer = u.transmit_buffer /\ v.queue = u.queue
        /\ v.transmitted = u.transmitted /\ v.line = u.line /\ v.rxd = u.rxd
    BY <1>0 DEF Chip
  <2>3. u.sync_transmit_index = 0
    BY <1>2 DEF ChipOK, SyncsLoaded
  <2> HIDE DEF v
  <2>4. SyncsLoaded(v)
    BY <1>2, <2>2, <2>3 DEF SyncsLoaded
  <2>5. ChipOK(v)
    BY <2>1, <2>2, <2>4, BoundsOf DEF ChipOK
  <2> QED BY <2>2, <2>5 DEF v
<1>3. CASE u.phase = "sync1"
  <2> DEFINE phase == IF OneSync(u) THEN "command" ELSE "sync2"
  <2>1. WriteControl(u, value) = [u EXCEPT !.syncs = <<value>>, !.phase = phase]
    BY <1>3 DEF WriteControl
  <2>2. <<value>> \in Seq(Byte) /\ Len(<<value>>) = 1
    OBVIOUS
  <2>3. phase \in {"sync2", "command"}
    OBVIOUS
  <2> HIDE DEF phase
  <2>4. LET v == [u EXCEPT !.syncs = <<value>>, !.phase = phase]
        IN ChipOK(v) /\ v.cts = u.cts /\ v.dsr = u.dsr /\ v.phase = phase
    <3>1. /\ Len(<<value>>) > 0 /\ u.phase \in {"sync1", "sync2"}
          /\ phase = "sync2" => Len(<<value>>) = 1
      BY <1>3, <2>2
    <3> QED BY <1>2, <2>2, <2>3, <3>1, Zenon
  <2> QED BY <1>3, <2>1, <2>3, <2>4
<1>4. CASE u.phase = "sync2"
  <2>1. WriteControl(u, value) = [u EXCEPT !.syncs = <<u.syncs[1], value>>, !.phase = "command"]
    BY <1>4 DEF WriteControl
  <2>2. u.syncs[1] \in Byte
    <3>1. Len(u.syncs) = 1
      BY <1>4 DEF ChipOK, SyncsLoaded
    <3> QED BY <1>0, <3>1, ElementOfSeq
  <2>3. <<u.syncs[1], value>> \in Seq(Byte) /\ Len(<<u.syncs[1], value>>) = 2
    BY <2>2
  <2>4. LET v == [u EXCEPT !.syncs = <<u.syncs[1], value>>, !.phase = "command"]
        IN ChipOK(v) /\ v.cts = u.cts /\ v.dsr = u.dsr /\ v.phase = "command"
    <3>1. /\ Len(<<u.syncs[1], value>>) > 0 /\ u.phase \in {"sync1", "sync2"}
          /\ "command" \in {"sync2", "command"}
          /\ "command" = "sync2" => Len(<<u.syncs[1], value>>) = 1
      BY <1>4, <2>3
    <3> QED BY <1>2, <2>3, <3>1, Zenon
  <2> QED BY <1>4, <2>1, <2>4
<1>5. CASE u.phase = "command"
  <2>1. WriteControl(u, value) = AcceptCommand(u, value)
    BY <1>5 DEF WriteControl
  <2> QED BY <1>5, <2>1, AcceptCommandType
<1> QED BY <1>0, <1>1, <1>3, <1>4, <1>5 DEF Phases

LEMMA ZeroWrite ==
  ASSUME NEW u, ChipOK(u)
  PROVE  LET v == WriteControl(u, Zero)
         IN /\ ChipOK(v) /\ v.cts = u.cts /\ v.dsr = u.dsr
            /\ u.phase = "mode" => v.phase = "sync1"
            /\ u.phase = "sync1" => v.phase \in {"sync2", "command"}
            /\ u.phase \in {"sync2", "command"} => v.phase = "command"
<1> DEFINE v == WriteControl(u, Zero)
<1>1. /\ ChipOK(v) /\ v.cts = u.cts /\ v.dsr = u.dsr
      /\ u.phase = "sync1" => v.phase \in {"sync2", "command"}
      /\ u.phase = "sync2" => v.phase = "command"
  BY ByteType, WriteControlType
<1>2. u.phase = "mode" => v.phase = "sync1"
  <2>1. SUFFICES ASSUME u.phase = "mode" PROVE v.phase = "sync1"
    OBVIOUS
  <2>2. v = AcceptMode(u, Zero)
    BY <2>1 DEF WriteControl
  <2> QED BY <2>1, <2>2, AcceptModeType, ByteType
<1>3. u.phase = "command" => v.phase = "command"
  <2>1. SUFFICES ASSUME u.phase = "command" PROVE v.phase = "command"
    OBVIOUS
  <2>2. v = AcceptCommand(u, Zero)
    BY <2>1 DEF WriteControl
  <2>3. ~Zero[7] /\ Zero \in Byte
    BY ByteType DEF Zero
  <2>4. Outside([u EXCEPT !.command = Zero], v)
    BY <2>2, <2>3, AcceptCommandType
  <2>5. [u EXCEPT !.command = Zero].phase = u.phase
    BY BoundsOf DEF Chip
  <2> QED BY <2>1, <2>4, <2>5 DEF Outside
<1> QED BY <1>1, <1>2, <1>3

LEMMA WorstCaseResets ==
  ASSUME NEW u, ChipOK(u)
  PROVE  AfterWorstCase(u) = ResetChip(u.cts, u.dsr)
<1> DEFINE v1 == WriteControl(u, Zero)
           v2 == WriteControl(v1, Zero)
           v3 == WriteControl(v2, Zero)
<1>1. u.phase \in Phases
  BY BoundsOf, FieldsOf
<1>2. /\ ChipOK(v1) /\ v1.cts = u.cts /\ v1.dsr = u.dsr
      /\ v1.phase \in {"sync1", "sync2", "command"}
  BY <1>1, ZeroWrite DEF Phases
<1> HIDE DEF v1
<1>3. /\ ChipOK(v2) /\ v2.cts = u.cts /\ v2.dsr = u.dsr
      /\ v2.phase \in {"sync2", "command"}
  BY <1>2, ZeroWrite
<1> HIDE DEF v2
<1>4. ChipOK(v3) /\ v3.cts = u.cts /\ v3.dsr = u.dsr /\ v3.phase = "command"
  BY <1>3, ZeroWrite
<1> HIDE DEF v3
<1>5. Reset40 \in Byte /\ Reset40[7]
  BY ByteType DEF Reset40, Zero
<1>6. WriteControl(v3, Reset40) = AcceptCommand(v3, Reset40)
  BY <1>4 DEF WriteControl
<1>7. AcceptCommand(v3, Reset40) = ResetChip(v3.cts, v3.dsr)
  BY <1>4, <1>5, AcceptCommandType
<1> QED BY <1>4, <1>6, <1>7 DEF AfterWorstCase, v1, v2, v3

----------------------------------------------------------------------------
(* The chip seen as a serial port. *)

LEMMA ReceiverKeepsPort ==
  ASSUME NEW u, NEW v, ReceiverStep(u, v)
  PROVE  PortOf(v) = PortOf(u)
BY DEF ReceiverStep, Outside, PortOf

LEMMA PortRecord ==
  ASSUME NEW rx, NEW tx, NEW buffer, NEW shift, NEW cts, NEW t, NEW s, NEW p,
         p = [rx |-> rx, tx |-> tx, buffer |-> buffer, shift |-> shift, cts |-> cts]
  PROVE  [p EXCEPT !.tx = t, !.shift = s]
           = [rx |-> rx, tx |-> t, buffer |-> buffer, shift |-> s, cts |-> cts]
<1>1. [p EXCEPT !.tx = t, !.shift = s] = [[p EXCEPT !.tx = t] EXCEPT !.shift = s]
  OBVIOUS
<1>2. [p EXCEPT !.tx = t]
        = [rx |-> rx, tx |-> t, buffer |-> buffer, shift |-> shift, cts |-> cts]
  OBVIOUS
<1>3. [[rx |-> rx, tx |-> t, buffer |-> buffer, shift |-> shift, cts |-> cts] EXCEPT !.shift = s]
        = [rx |-> rx, tx |-> t, buffer |-> buffer, shift |-> s, cts |-> cts]
  OBVIOUS
<1> QED BY <1>1, <1>2, <1>3

LEMMA Singleton ==
  ASSUME NEW S, NEW s \in Seq(S), Len(s) <= 1, s # <<>>
  PROVE  s = <<s[1]>>
<1>1. Len(s) \in Nat /\ Len(s) # 0
  BY LenProperties, EmptySeq
<1>2. Len(s) = 1
  BY <1>1, SMTT(60)
<1> QED BY <1>2

LEMMA FinishFramePort ==
  ASSUME NEW u, ChipOK(u)
  PROVE  LET v == FinishFrame(u)
         IN /\ v.phase = u.phase /\ v.transmit_buffer = u.transmit_buffer
            /\ v.cts = u.cts /\ v.mode = u.mode /\ v.command = u.command
            /\ v.transmit_active => /\ u.transmit_active /\ PortOf(v) = PortOf(u)
            /\ ~v.transmit_active => PortOf(v) = Port!Finished(PortOf(u))
<1>1. u \in Chip /\ u.transmitted \in Seq(Seq(BOOLEAN)) /\ u.transmit_character \in Seq(BOOLEAN)
  BY BoundsOf, FieldsOf
<1>2. /\ u.transmitted \o <<u.transmit_character>> = Append(u.transmitted, u.transmit_character)
      /\ u.transmitted \o <<>> = u.transmitted
  BY <1>1, AppendIsConcat, ConcatEmptySeq
<1> DEFINE p == PortOf(u)
<1>3. /\ p.tx = u.transmitted /\ p.rx = u.queue /\ p.buffer = u.transmit_buffer /\ p.cts = u.cts
      /\ p.shift = IF u.transmit_active /\ u.transmit_payload THEN <<u.transmit_character>>
                   ELSE <<>>
  BY DEF PortOf
<1>4. Port!Finished(p) =
        [rx |-> u.queue,
         tx |-> IF Len(u.transmitted) < UartCapacity THEN u.transmitted \o p.shift
                ELSE u.transmitted,
         buffer |-> u.transmit_buffer, shift |-> <<>>, cts |-> u.cts]
  <2>1. Port!Finished(p) =
          [p EXCEPT !.tx = IF Len(p.tx) < UartCapacity THEN p.tx \o p.shift ELSE p.tx,
                    !.shift = <<>>]
    BY DEF Port!Finished
  <2>2. p = [rx |-> u.queue, tx |-> u.transmitted, buffer |-> u.transmit_buffer,
             shift |-> p.shift, cts |-> u.cts]
    BY DEF PortOf
  <2> HIDE DEF p
  <2> QED BY <1>3, <2>1, <2>2, PortRecord
<1>5. CASE ~u.transmit_active
  <2>1. FinishFrame(u) = u /\ p.shift = <<>>
    BY <1>3, <1>5 DEF FinishFrame
  <2>2. PortOf(u) = Port!Finished(p)
    BY <1>2, <1>4, <1>5, <2>1 DEF PortOf
  <2> QED BY <1>5, <2>1, <2>2
<1>6. CASE u.transmit_active /\ u.transmit_frame # <<>>
  <2>1. FinishFrame(u) = u
    BY <1>6 DEF FinishFrame
  <2> QED BY <1>6, <2>1
<1>7. CASE u.transmit_active /\ u.transmit_frame = <<>>
  <2> DEFINE v == FinishFrame(u)
             kept == IF u.transmit_payload /\ Len(u.transmitted) < UartCapacity
                     THEN Append(u.transmitted, u.transmit_character) ELSE u.transmitted
  <2>1. v = [u EXCEPT !.transmit_active = FALSE, !.transmitted = kept]
    BY <1>7 DEF FinishFrame
  <2>2. kept = IF Len(u.transmitted) < UartCapacity THEN u.transmitted \o p.shift
               ELSE u.transmitted
    BY <1>2, <1>3, <1>7
  <2> HIDE DEF kept
  <2>3. /\ v.phase = u.phase /\ v.transmit_buffer = u.transmit_buffer
        /\ v.cts = u.cts /\ ~v.transmit_active /\ v.transmitted = kept /\ v.queue = u.queue
        /\ v.mode = u.mode /\ v.command = u.command
    BY <1>1, <2>1 DEF Chip
  <2> HIDE DEF v
  <2>4. PortOf(v) = Port!Finished(p)
    BY <1>4, <2>2, <2>3 DEF PortOf
  <2> QED BY <2>3, <2>4 DEF v
<1> QED BY <1>5, <1>6, <1>7

LEMMA BeginFramePort ==
  ASSUME NEW u, ChipOK(u), ~u.transmit_active
  PROVE  LET v == BeginFrame(u)
         IN /\ v.phase = u.phase
            /\ u.phase # "command" => v = u
            /\ PortOf(v) \in {Port!Loaded(PortOf(u)), PortOf(u)}
<1>1. u \in Chip /\ u.transmit_buffer \in Seq(Seq(BOOLEAN)) /\ Len(u.transmit_buffer) <= 1
  BY BoundsOf, FieldsOf
<1> DEFINE p == PortOf(u)
<1>3. /\ p.tx = u.transmitted /\ p.rx = u.queue /\ p.buffer = u.transmit_buffer /\ p.cts = u.cts
      /\ p.shift = <<>>
  BY DEF PortOf
<1>4. CASE ~(TransmitterEnabled(u) /\ u.cts)
  <2>1. BeginFrame(u) = u
    BY <1>4 DEF BeginFrame
  <2> QED BY <2>1
<1>5. CASE TransmitterEnabled(u) /\ u.cts /\ u.transmit_buffer # <<>>
  <2> DEFINE w == [u EXCEPT !.transmit_buffer = <<>>]
             v == LoadFrame(w, u.transmit_buffer[1], TRUE)
  <2>1. BeginFrame(u) = v
    BY <1>5 DEF BeginFrame
  <2>2. u.transmit_buffer = <<u.transmit_buffer[1]>>
    BY <1>1, <1>5, Singleton
  <2>3. /\ v.phase = u.phase /\ v.queue = u.queue /\ v.transmitted = u.transmitted
        /\ v.cts = u.cts /\ v.transmit_buffer = <<>>
        /\ v.transmit_active /\ v.transmit_payload
        /\ v.transmit_character = u.transmit_buffer[1]
    BY <1>1 DEF LoadFrame, Chip
  <2> HIDE DEF v
  <2>4. PortOf(v) = [p EXCEPT !.shift = u.transmit_buffer, !.buffer = <<>>]
    <3>1. PortOf(v) = [rx |-> u.queue, tx |-> u.transmitted, buffer |-> <<>>,
                       shift |-> u.transmit_buffer, cts |-> u.cts]
      BY <2>2, <2>3 DEF PortOf
    <3>2. p = [rx |-> u.queue, tx |-> u.transmitted, buffer |-> u.transmit_buffer,
               shift |-> p.shift, cts |-> u.cts]
      BY DEF PortOf
    <3> DEFINE s == u.transmit_buffer
    <3> HIDE DEF p, s
    <3> DEFINE q == [p EXCEPT !.shift = s]
    <3>3. [p EXCEPT !.shift = s, !.buffer = <<>>] = [q EXCEPT !.buffer = <<>>]
      OBVIOUS
    <3>4. q = [rx |-> u.queue, tx |-> u.transmitted,
               buffer |-> u.transmit_buffer, shift |-> s, cts |-> u.cts]
      BY <3>2
    <3> HIDE DEF q
    <3>5. [q EXCEPT !.buffer = <<>>]
            = [rx |-> u.queue, tx |-> u.transmitted, buffer |-> <<>>, shift |-> s, cts |-> u.cts]
      BY <3>4
    <3> QED BY <3>1, <3>3, <3>5 DEF s
  <2>5. Port!Loaded(p) = [p EXCEPT !.shift = p.buffer, !.buffer = <<>>]
    BY <1>3, <1>5 DEF Port!Loaded, Port!Loads
  <2>6. u.phase = "command"
    BY <1>5 DEF TransmitterEnabled
  <2> QED BY <1>3, <2>1, <2>3, <2>4, <2>5, <2>6
<1>6. CASE TransmitterEnabled(u) /\ u.cts /\ u.transmit_buffer = <<>> /\ Synchronous(u)
  <2> DEFINE w == [u EXCEPT !.sync_transmit_index = (@ + 1) % Len(u.syncs)]
             v == LoadFrame(w, u.syncs[u.sync_transmit_index + 1], FALSE)
  <2>1. BeginFrame(u) = v
    BY <1>6 DEF BeginFrame
  <2>3. /\ v.phase = u.phase /\ v.queue = u.queue /\ v.transmitted = u.transmitted
        /\ v.cts = u.cts /\ v.transmit_buffer = u.transmit_buffer
        /\ ~v.transmit_payload
    BY <1>1 DEF LoadFrame, Chip
  <2> HIDE DEF v
  <2>4. PortOf(v) = p
    BY <2>3 DEF PortOf
  <2>6. u.phase = "command"
    BY <1>6 DEF TransmitterEnabled
  <2> QED BY <2>1, <2>3, <2>4, <2>6
<1>7. CASE TransmitterEnabled(u) /\ u.cts /\ u.transmit_buffer = <<>> /\ ~Synchronous(u)
  <2>1. BeginFrame(u) = u
    BY <1>7 DEF BeginFrame
  <2> QED BY <2>1
<1> QED BY <1>4, <1>5, <1>6, <1>7

(* The members a port shows, and the ones Fresh names.                     *)
SamePort(u, v) ==
  /\ v.phase = u.phase /\ v.transmit_active = u.transmit_active
  /\ v.transmit_buffer = u.transmit_buffer /\ v.transmit_payload = u.transmit_payload
  /\ v.transmit_character = u.transmit_character /\ v.transmitted = u.transmitted
  /\ v.queue = u.queue /\ v.cts = u.cts

LEMMA SamePortIsPort ==
  ASSUME NEW u, NEW v, SamePort(u, v)
  PROVE  PortOf(v) = PortOf(u) /\ (Fresh(u) => Fresh(v))
BY DEF SamePort, PortOf, Fresh

LEMMA TransmitMembers ==
  ASSUME NEW u \in Chip, NEW level, NEW frame, NEW clocks
  PROVE  /\ SamePort(u, [u EXCEPT !.txd = level, !.transmit_frame = frame])
         /\ SamePort(u, [u EXCEPT !.txd = level])
         /\ SamePort(u, [u EXCEPT !.transmit_clocks = clocks])
BY DEF SamePort, Chip

LEMMA AdvanceTransmitterPort ==
  ASSUME NEW u, ChipOK(u)
  PROVE  LET v == AdvanceTransmitter(u)
             p == PortOf(u)
         IN /\ PortOf(v) \in {p, Port!Finished(p), Port!Loaded(Port!Finished(p))}
            /\ Fresh(u) => Fresh(v)
<1> DEFINE f == FinishFrame(u)
           b == BeginFrame(f)
           v == AdvanceTransmitter(u)
           p == PortOf(u)
<1>1. /\ ChipOK(f) /\ f.phase = u.phase /\ f.transmit_buffer = u.transmit_buffer
      /\ f.transmit_active => u.transmit_active /\ PortOf(f) = p
      /\ ~f.transmit_active => PortOf(f) = Port!Finished(p)
      /\ f.transmit_active => f.transmit_frame # <<>>
  BY FinishFrameType, FinishFramePort
<1>2. ChipOK(b)
  BY <1>1, BeginFrameType
<1>3. \/ v = [b EXCEPT !.txd = Head(b.transmit_frame), !.transmit_frame = Tail(b.transmit_frame)]
      \/ v = [b EXCEPT !.txd = TRUE]
  BY DEF AdvanceTransmitter
<1> HIDE DEF f
<1>4. /\ PortOf(b) \in {p, Port!Finished(p), Port!Loaded(Port!Finished(p))}
      /\ Fresh(u) => Fresh(b)
  <2>1. CASE f.transmit_active
    <3>1. b = f
      BY <2>1 DEF BeginFrame
    <3> QED BY <1>1, <2>1, <3>1 DEF Fresh
  <2>2. CASE ~f.transmit_active
    <3>1. /\ b.phase = f.phase /\ (f.phase # "command" => b = f)
          /\ PortOf(b) \in {Port!Loaded(PortOf(f)), PortOf(f)}
      BY <1>1, <2>2, BeginFramePort
    <3> HIDE DEF b
    <3>2. PortOf(b) \in {p, Port!Finished(p), Port!Loaded(Port!Finished(p))}
      BY <1>1, <2>2, <3>1
    <3>3. Fresh(u) => Fresh(b)
      BY <1>1, <2>2, <3>1 DEF Fresh
    <3> QED BY <3>2, <3>3
  <2> QED BY <2>1, <2>2
<1> HIDE DEF b
<1>5. SamePort(b, v)
  <2>1. b \in Chip
    BY <1>2, BoundsOf
  <2>2. /\ SamePort(b, [b EXCEPT !.txd = Head(b.transmit_frame),
                                !.transmit_frame = Tail(b.transmit_frame)])
        /\ SamePort(b, [b EXCEPT !.txd = TRUE])
    BY <2>1, TransmitMembers, Zenon
  <2> QED BY <1>3, <2>2
<1> HIDE DEF v
<1>6. PortOf(v) = PortOf(b) /\ (Fresh(b) => Fresh(v))
  BY <1>5, SamePortIsPort
<1>7. PortOf(v) \in {p, Port!Finished(p), Port!Loaded(Port!Finished(p))}
  BY <1>4, <1>6
<1> QED BY <1>4, <1>6, <1>7 DEF v

LEMMA ClockTransmitPort ==
  ASSUME NEW u, ChipOK(u)
  PROVE  LET v == ClockTransmit(u)
             p == PortOf(u)
         IN /\ PortOf(v) \in {p, Port!Finished(p), Port!Loaded(Port!Finished(p))}
            /\ Fresh(u) => Fresh(v)
<1> DEFINE w == [u EXCEPT !.transmit_clocks = 0]
           v == ClockTransmit(u)
<1>1. u \in Chip
  BY BoundsOf
<1>2. ChipOK(w)
  <2>1. w \in Chip
    BY <1>1 DEF Chip
  <2>2. /\ w.mode = u.mode /\ w.phase = u.phase /\ w.syncs = u.syncs
        /\ w.sync_transmit_index = u.sync_transmit_index
        /\ w.transmit_buffer = u.transmit_buffer /\ w.queue = u.queue
        /\ w.transmitted = u.transmitted /\ w.line = u.line /\ w.rxd = u.rxd
    BY <1>1 DEF Chip
  <2> HIDE DEF w
  <2> QED BY <2>1, <2>2, BoundsOf, KeepsOK
<1>3. SamePort(u, w)
  BY <1>1, TransmitMembers
<1>4. \/ v = [u EXCEPT !.txd = FALSE]
      \/ v = [u EXCEPT !.transmit_clocks = @ + 1]
      \/ v = AdvanceTransmitter(w)
  BY DEF ClockTransmit
<1>5. SamePort(u, v) \/ v = AdvanceTransmitter(w)
  BY <1>1, <1>4, TransmitMembers
<1> HIDE DEF v, w
<1>6. CASE SamePort(u, v)
  BY <1>6, SamePortIsPort DEF v
<1>7. CASE v = AdvanceTransmitter(w)
  <2>1. PortOf(w) = PortOf(u) /\ (Fresh(u) => Fresh(w))
    BY <1>3, SamePortIsPort
  <2> QED BY <1>2, <1>7, <2>1, AdvanceTransmitterPort DEF v
<1> QED BY <1>5, <1>6, <1>7

LEMMA ReceiverKeepsFresh ==
  ASSUME NEW u, NEW v, ReceiverStep(u, v)
  PROVE  SamePort(u, v)
BY DEF ReceiverStep, Outside, SamePort

LEMMA LineMembers ==
  ASSUME NEW u \in Chip, NEW level, NEW line, NEW clocks
  PROVE  /\ SamePort(u, [u EXCEPT !.rxd = level])
         /\ SamePort(u, [u EXCEPT !.line_clocks = clocks])
         /\ SamePort(u, [u EXCEPT !.line = line, !.line_clocks = clocks])
         /\ SamePort(u, [u EXCEPT !.line = line, !.line_clocks = clocks, !.rxd = level])
BY DEF SamePort, Chip

LEMMA AdvanceLinePort ==
  ASSUME NEW u, ChipOK(u)
  PROVE  SamePort(u, DriveLine(u)) /\ SamePort(u, AdvanceLine(u))
<1>1. u \in Chip
  BY BoundsOf
<1>2. SamePort(u, u)
  BY DEF SamePort
<1>3. DriveLine(u) = [u EXCEPT !.rxd = Head(u.line)] \/ DriveLine(u) = u
  BY DEF DriveLine
<1>4. SamePort(u, DriveLine(u))
  BY <1>1, <1>2, <1>3, LineMembers
<1>5. \/ AdvanceLine(u) = u
      \/ AdvanceLine(u) = [u EXCEPT !.line_clocks = u.line_clocks - 1]
      \/ AdvanceLine(u) = [u EXCEPT !.line = Tail(u.line), !.line_clocks = BaudFactor(u)]
      \/ AdvanceLine(u) = [u EXCEPT !.line = <<>>, !.line_clocks = 0, !.rxd = TRUE]
  BY DEF AdvanceLine
<1>6. /\ SamePort(u, [u EXCEPT !.line_clocks = u.line_clocks - 1])
      /\ SamePort(u, [u EXCEPT !.line = Tail(u.line), !.line_clocks = BaudFactor(u)])
      /\ SamePort(u, [u EXCEPT !.line = <<>>, !.line_clocks = 0, !.rxd = TRUE])
  BY <1>1, LineMembers, Zenon
<1>7. SamePort(u, AdvanceLine(u))
  BY <1>2, <1>5, <1>6
<1> QED BY <1>4, <1>7

LEMMA ClockReceivePort ==
  ASSUME NEW u, ChipOK(u)
  PROVE  LET v == ClockReceive(u)
             p == PortOf(u)
         IN /\ \/ PortOf(v) = p
               \/ p.rx # <<>> /\ PortOf(v) = [p EXCEPT !.rx = Tail(p.rx)]
            /\ Fresh(u) => Fresh(v)
<1> DEFINE q == StartQueuedFrame(u)
           d == DriveLine(q)
           e == ReceiveClockEdge(d)
           v == ClockReceive(u)
           p == PortOf(u)
<1>1. ChipOK(q) /\ ChipOK(d)
  BY StartQueuedFrameType, DriveLineType
<1>2. /\ \/ PortOf(q) = p
         \/ p.rx # <<>> /\ PortOf(q) = [p EXCEPT !.rx = Tail(p.rx)]
      /\ Fresh(u) => Fresh(q)
  <2>1. CASE ~StartsFrame(u)
    <3>1. q = u
      BY <2>1 DEF StartQueuedFrame
    <3> QED BY <3>1
  <2>2. CASE StartsFrame(u)
    <3>1. q = [u EXCEPT !.queue = Tail(u.queue), !.line = Frame(u, Head(u.queue)),
                        !.line_clocks = BaudFactor(u)]
      BY <2>2 DEF StartQueuedFrame
    <3>2. u \in Chip
      BY BoundsOf
    <3>3. /\ q.queue = Tail(u.queue) /\ q.phase = u.phase
          /\ q.transmit_active = u.transmit_active /\ q.transmit_payload = u.transmit_payload
          /\ q.transmit_buffer = u.transmit_buffer /\ q.cts = u.cts
          /\ q.transmit_character = u.transmit_character /\ q.transmitted = u.transmitted
      BY <3>1, <3>2 DEF Chip
    <3>4. p.rx = u.queue /\ u.queue # <<>>
      BY <2>2 DEF PortOf, StartsFrame
    <3> HIDE DEF q
    <3>5. PortOf(q) = [p EXCEPT !.rx = Tail(u.queue)]
      <4> DEFINE rest == Tail(u.queue)
                 shift == p.shift
      <4>1. PortOf(q) = [rx |-> rest, tx |-> u.transmitted,
                         buffer |-> u.transmit_buffer, shift |-> shift, cts |-> u.cts]
        BY <3>3 DEF PortOf
      <4>2. p = [rx |-> u.queue, tx |-> u.transmitted, buffer |-> u.transmit_buffer,
                 shift |-> shift, cts |-> u.cts]
        BY DEF PortOf
      <4> HIDE DEF p, shift, rest
      <4>3. [p EXCEPT !.rx = rest] = [rx |-> rest, tx |-> u.transmitted,
                         buffer |-> u.transmit_buffer, shift |-> shift, cts |-> u.cts]
        BY <4>2
      <4> QED BY <4>1, <4>3 DEF rest
    <3>6. Fresh(u) => Fresh(q)
      BY <3>3 DEF Fresh
    <3> QED BY <3>4, <3>5, <3>6
  <2> QED BY <2>1, <2>2
<1>3. SamePort(q, d)
  BY <1>1, AdvanceLinePort
<1>4. ReceiverStep(d, e)
  BY <1>1, BoundsOf, ReceiveClockEdgeType
<1>5. SamePort(d, e) /\ ChipOK(e)
  BY <1>1, <1>4, ReceiverKeepsFresh, ReceiverKeepsOK
<1>6. v = AdvanceLine(e)
  BY DEF ClockReceive
<1>7. SamePort(e, v)
  BY <1>5, <1>6, AdvanceLinePort
<1> HIDE DEF q, d, e, v, p
<1>8. PortOf(v) = PortOf(q) /\ (Fresh(q) => Fresh(v))
  BY <1>3, <1>5, <1>7, SamePortIsPort
<1> QED BY <1>2, <1>8 DEF v, p

LEMMA ResetPort ==
  ASSUME NEW cts, NEW dsr
  PROVE  PortOf(ResetChip(cts, dsr)) = Port!Empty(cts) /\ Fresh(ResetChip(cts, dsr))
<1> DEFINE v == ResetChip(cts, dsr)
<1>1. /\ v.queue = <<>> /\ v.transmitted = <<>> /\ v.transmit_buffer = <<>>
      /\ v.transmit_active = FALSE /\ v.cts = cts
  BY DEF ResetChip
<1> HIDE DEF v
<1>2. PortOf(v) = Port!Empty(cts) /\ Fresh(v)
  BY <1>1 DEF PortOf, Port!Empty, Fresh
<1> QED BY <1>2 DEF v

LEMMA WriteControlPort ==
  ASSUME NEW u, ChipOK(u), Fresh(u), NEW value \in Byte
  PROVE  /\ PortOf(WriteControl(u, value)) \in {PortOf(u), Port!Empty(u.cts)}
         /\ Fresh(WriteControl(u, value))
<1> DEFINE v == WriteControl(u, value)
<1>1. u \in Chip /\ u.phase \in Phases
  BY BoundsOf, FieldsOf
<1>2. CASE u.phase = "mode"
  <2>1. v = AcceptMode(u, value)
    BY <1>2 DEF WriteControl
  <2>2. /\ v.transmit_buffer = <<>> /\ v.transmit_active = FALSE
        /\ v.transmitted = u.transmitted /\ v.queue = u.queue /\ v.cts = u.cts
    BY <1>1, <2>1 DEF AcceptMode, Chip
  <2>3. u.transmit_buffer = <<>> /\ u.transmit_active = FALSE
    BY <1>1, <1>2 DEF Fresh, Chip
  <2> HIDE DEF v
  <2>4. PortOf(v) = PortOf(u) /\ Fresh(v)
    BY <2>2, <2>3 DEF PortOf, Fresh
  <2> QED BY <2>4 DEF v
<1>3. CASE u.phase \in {"sync1", "sync2"}
  <2> DEFINE next == IF OneSync(u) THEN "command" ELSE "sync2"
  <2>1. \/ v = [u EXCEPT !.syncs = <<value>>, !.phase = next]
        \/ v = [u EXCEPT !.syncs = <<u.syncs[1], value>>, !.phase = "command"]
    BY <1>3 DEF WriteControl
  <2>2. /\ v.transmit_buffer = u.transmit_buffer /\ v.transmit_active = u.transmit_active
        /\ v.transmit_payload = u.transmit_payload /\ v.phase \in {next, "command"}
        /\ v.transmit_character = u.transmit_character
        /\ v.transmitted = u.transmitted /\ v.queue = u.queue /\ v.cts = u.cts
    BY <1>1, <2>1, ZenonT(60) DEF Chip
  <2> HIDE DEF v
  <2>3. PortOf(v) = PortOf(u) /\ Fresh(v)
    BY <2>2 DEF PortOf, Fresh
  <2> QED BY <2>3 DEF v
<1>4. CASE u.phase = "command"
  <2>1. v = AcceptCommand(u, value)
    BY <1>4 DEF WriteControl
  <2>2. CASE value[7]
    <3>1. v = ResetChip(u.cts, u.dsr)
      BY <2>1, <2>2, AcceptCommandType
    <3> QED BY <3>1, ResetPort
  <2>3. CASE ~value[7]
    <3> DEFINE w == [u EXCEPT !.command = value]
    <3>1. Outside(w, v)
      BY <2>1, <2>3, AcceptCommandType
    <3>2. SamePort(u, w)
      BY <1>1 DEF SamePort, Chip
    <3>3. SamePort(w, v)
      BY <3>1 DEF Outside, SamePort
    <3> HIDE DEF w, v
    <3>4. PortOf(v) = PortOf(u) /\ Fresh(v)
      BY <3>2, <3>3, SamePortIsPort
    <3> QED BY <3>4 DEF v
  <2> QED BY <2>2, <2>3
<1> QED BY <1>1, <1>2, <1>3, <1>4 DEF Phases

----------------------------------------------------------------------------
(* The data register, the host's queues and the plug. *)

(* Characters are what Masked makes of a byte, and whole bytes.            *)
LEMMA CharacterType ==
  ASSUME NEW u, u.mode \in Byte, NEW byte \in Data
  PROVE  Masked(u, byte) \in Characters /\ byte \in Characters
<1>1. byte \in [1 .. 8 -> BOOLEAN] /\ CharacterBits(u) \in 1 .. 8
  BY LineAssumption, WordType DEF Byte
<1>2. Len(byte) = 8
  BY <1>1, FunctionIsSeq
<1>3. Masked(u, byte) = [i \in 1 .. CharacterBits(u) |-> byte[i]]
  <2> DEFINE n == CharacterBits(u)
  <2>1. n \in 1 .. 8
    BY <1>1
  <2>2. Masked(u, byte) = [i \in 1 .. n |-> i <= Len(byte) /\ byte[i]]
    BY DEF Masked
  <2> HIDE DEF n
  <2>3. \A i \in 1 .. n : i <= 8 /\ i \in 1 .. 8
    BY <2>1
  <2>4. \A i \in 1 .. n : i <= Len(byte)
    BY <1>2, <2>3
  <2>5. \A i \in 1 .. n : byte[i] \in BOOLEAN
    BY <1>1, <2>3
  <2>6. \A i \in 1 .. n : (i <= Len(byte) /\ byte[i]) = byte[i]
    BY <2>4, <2>5
  <2> QED BY <2>2, <2>6, Zenon DEF n
<1>4. byte = [i \in 1 .. 8 |-> byte[i]] /\ 8 \in 1 .. 8
  BY <1>1
<1>5. Masked(u, byte) \in FirstBits(byte) /\ byte \in FirstBits(byte)
  BY <1>1, <1>3, <1>4, Zenon DEF FirstBits
<1> QED BY <1>5, Zenon DEF Characters

LEMMA WriteDataStep ==
  ASSUME NEW u, ChipOK(u), TxReady(u), NEW byte \in Data
  PROVE  LET v == WriteData(u, byte)
         IN /\ ChipOK(v) /\ Fresh(v)
            /\ PortOf(v) = [PortOf(u) EXCEPT !.buffer = <<Masked(u, byte)>>]
<1> DEFINE v == WriteData(u, byte)
           bits == Masked(u, byte)
           buffer == <<bits>>
           p == PortOf(u)
           shift == p.shift
<1>1. u \in Chip /\ u.mode \in Byte /\ u.phase = "command"
  BY BoundsOf, FieldsOf DEF TxReady, TransmitterEnabled
<1>2. bits \in Seq(BOOLEAN)
  BY <1>1, MaskedType
<1>3. v = [u EXCEPT !.transmit_buffer = buffer]
  BY DEF WriteData
<1>4. PortOf(u) = [rx |-> u.queue, tx |-> u.transmitted, buffer |-> u.transmit_buffer,
                   shift |-> shift, cts |-> u.cts]
  BY DEF PortOf
<1>11. buffer \in Seq(Seq(BOOLEAN)) /\ Len(buffer) <= 1
  BY <1>2
<1> HIDE DEF bits, buffer
<1>12. v \in Chip
  BY <1>1, <1>3, <1>11, ZenonT(60) DEF Chip
<1>5. /\ v.transmit_buffer = buffer
      /\ v.mode = u.mode /\ v.phase = u.phase /\ v.syncs = u.syncs
      /\ v.sync_transmit_index = u.sync_transmit_index /\ v.queue = u.queue
      /\ v.transmitted = u.transmitted /\ v.line = u.line /\ v.rxd = u.rxd
      /\ v.transmit_active = u.transmit_active /\ v.transmit_payload = u.transmit_payload
      /\ v.transmit_character = u.transmit_character /\ v.cts = u.cts
  BY <1>1, <1>3 DEF Chip
<1> HIDE DEF v
<1>7. ChipOK(v)
  BY <1>5, <1>11, <1>12, BoundsOf, KeepsOK
<1>8. Fresh(v)
  BY <1>1, <1>5 DEF Fresh
<1>9. PortOf(v) = [rx |-> u.queue, tx |-> u.transmitted, buffer |-> buffer,
                   shift |-> shift, cts |-> u.cts]
  BY <1>5 DEF PortOf
<1> HIDE DEF shift, p
<1>10. [p EXCEPT !.buffer = buffer]
         = [rx |-> u.queue, tx |-> u.transmitted, buffer |-> buffer,
            shift |-> shift, cts |-> u.cts]
  BY <1>4 DEF p
<1> QED BY <1>7, <1>8, <1>9, <1>10 DEF v, bits, buffer, p

LEMMA ReadDataStep ==
  ASSUME NEW u, ChipOK(u)
  PROVE  ChipOK(ReadData(u)) /\ SamePort(u, ReadData(u))
<1>1. u \in Chip
  BY BoundsOf
<1>2. ReceiverStep(u, ReadData(u))
  BY <1>1 DEF ReceiverStep, Outside, ReadData, Chip
<1> QED BY <1>2, ReceiverKeepsOK, ReceiverKeepsFresh

LEMMA QueueIsAField ==
  ASSUME NEW u \in Chip, NEW rx \in Seq(Byte), NEW v, v = [u EXCEPT !.queue = rx]
  PROVE  v \in Chip
BY ZenonT(60) DEF Chip

LEMMA TransmittedIsAField ==
  ASSUME NEW u \in Chip, NEW tx \in Seq(Seq(BOOLEAN)), NEW v,
         v = [u EXCEPT !.transmitted = tx]
  PROVE  v \in Chip
BY ZenonT(60) DEF Chip

LEMMA QueueStep ==
  ASSUME NEW u, ChipOK(u), Fresh(u), NEW byte \in Byte,
         Len(u.queue) < UartCapacity
  PROVE  LET v == QueueReceivedByte(u, byte)
         IN /\ ChipOK(v) /\ Fresh(v)
            /\ PortOf(v) = [PortOf(u) EXCEPT !.rx = Append(u.queue, byte)]
<1> DEFINE v == QueueReceivedByte(u, byte)
           p == PortOf(u)
           rx == Append(u.queue, byte)
           shift == p.shift
<1>1. u \in Chip /\ u.queue \in Seq(Byte) /\ Len(u.queue) \in Nat /\ UartCapacity \in Nat
  BY BoundsOf, FieldsOf, LenProperties, Capacity
<1>2. v = [u EXCEPT !.queue = rx]
  BY DEF QueueReceivedByte
<1>3. rx \in Seq(Byte) /\ Len(rx) = Len(u.queue) + 1
  BY <1>1, AppendProperties
<1>4. PortOf(u) = [rx |-> u.queue, tx |-> u.transmitted, buffer |-> u.transmit_buffer,
                   shift |-> shift, cts |-> u.cts]
  BY DEF PortOf
<1> HIDE DEF rx
<1>11. v \in Chip
  BY <1>1, <1>2, <1>3, QueueIsAField
<1>5. /\ v.queue = rx /\ v.transmit_buffer = u.transmit_buffer
      /\ v.mode = u.mode /\ v.phase = u.phase /\ v.syncs = u.syncs
      /\ v.sync_transmit_index = u.sync_transmit_index
      /\ v.transmitted = u.transmitted /\ v.line = u.line /\ v.rxd = u.rxd
      /\ v.transmit_active = u.transmit_active /\ v.transmit_payload = u.transmit_payload
      /\ v.transmit_character = u.transmit_character /\ v.cts = u.cts
  BY <1>1, <1>2 DEF Chip
<1> HIDE DEF v
<1>6. Len(rx) <= UartCapacity
  BY <1>1, <1>3
<1>7. ChipOK(v)
  BY <1>5, <1>6, <1>11, BoundsOf, KeepsOK
<1>8. Fresh(v)
  BY <1>5 DEF Fresh
<1>9. PortOf(v) = [rx |-> rx, tx |-> u.transmitted, buffer |-> u.transmit_buffer,
                   shift |-> shift, cts |-> u.cts]
  BY <1>5 DEF PortOf
<1> HIDE DEF shift, p
<1>10. [p EXCEPT !.rx = rx]
         = [rx |-> rx, tx |-> u.transmitted, buffer |-> u.transmit_buffer,
            shift |-> shift, cts |-> u.cts]
  BY <1>4 DEF p
<1> QED BY <1>7, <1>8, <1>9, <1>10 DEF v, rx, p

LEMMA TakeStep ==
  ASSUME NEW u, ChipOK(u), Fresh(u), u.transmitted # <<>>
  PROVE  LET v == TakeTransmittedByte(u)
         IN /\ ChipOK(v) /\ Fresh(v)
            /\ PortOf(v) = [PortOf(u) EXCEPT !.tx = Tail(u.transmitted)]
<1> DEFINE v == TakeTransmittedByte(u)
           p == PortOf(u)
           tx == Tail(u.transmitted)
           shift == p.shift
<1>1. /\ u \in Chip /\ u.transmitted \in Seq(Seq(BOOLEAN)) /\ UartCapacity \in Nat
      /\ Len(u.transmitted) \in Nat /\ Len(u.transmitted) <= UartCapacity
  BY BoundsOf, FieldsOf, LenProperties, Capacity
<1>2. v = [u EXCEPT !.transmitted = tx]
  BY DEF TakeTransmittedByte
<1>3. tx \in Seq(Seq(BOOLEAN)) /\ Len(tx) = Len(u.transmitted) - 1
  BY <1>1, HeadTailProperties
<1>4. PortOf(u) = [rx |-> u.queue, tx |-> u.transmitted, buffer |-> u.transmit_buffer,
                   shift |-> shift, cts |-> u.cts]
  BY DEF PortOf
<1> HIDE DEF tx
<1>11. v \in Chip
  BY <1>1, <1>2, <1>3, TransmittedIsAField
<1>5. /\ v.transmitted = tx /\ v.transmit_buffer = u.transmit_buffer
      /\ v.mode = u.mode /\ v.phase = u.phase /\ v.syncs = u.syncs
      /\ v.sync_transmit_index = u.sync_transmit_index
      /\ v.queue = u.queue /\ v.line = u.line /\ v.rxd = u.rxd
      /\ v.transmit_active = u.transmit_active /\ v.transmit_payload = u.transmit_payload
      /\ v.transmit_character = u.transmit_character /\ v.cts = u.cts
  BY <1>1, <1>2 DEF Chip
<1> HIDE DEF v
<1>6. Len(tx) <= UartCapacity
  BY <1>1, <1>3
<1>7. ChipOK(v)
  BY <1>5, <1>6, <1>11, BoundsOf, KeepsOK
<1>8. Fresh(v)
  BY <1>5 DEF Fresh
<1>9. PortOf(v) = [rx |-> u.queue, tx |-> tx, buffer |-> u.transmit_buffer,
                   shift |-> shift, cts |-> u.cts]
  BY <1>5 DEF PortOf
<1> HIDE DEF shift, p
<1>10. [p EXCEPT !.tx = tx]
         = [rx |-> u.queue, tx |-> tx, buffer |-> u.transmit_buffer,
            shift |-> shift, cts |-> u.cts]
  BY <1>4 DEF p
<1> QED BY <1>7, <1>8, <1>9, <1>10 DEF v, tx, p

LEMMA InputsStep ==
  ASSUME NEW u, ChipOK(u), Fresh(u), NEW cts \in BOOLEAN, NEW dsr \in BOOLEAN
  PROVE  LET v == [u EXCEPT !.cts = cts, !.dsr = dsr]
         IN /\ ChipOK(v) /\ Fresh(v)
            /\ PortOf(v) = [PortOf(u) EXCEPT !.cts = cts]
<1> DEFINE v == [u EXCEPT !.cts = cts, !.dsr = dsr]
           p == PortOf(u)
           shift == p.shift
<1>1. u \in Chip
  BY BoundsOf
<1>2. PortOf(u) = [rx |-> u.queue, tx |-> u.transmitted, buffer |-> u.transmit_buffer,
                   shift |-> shift, cts |-> u.cts]
  BY DEF PortOf
<1>3. v \in Chip
  BY <1>1 DEF Chip
<1>4. /\ v.transmitted = u.transmitted /\ v.transmit_buffer = u.transmit_buffer
      /\ v.mode = u.mode /\ v.phase = u.phase /\ v.syncs = u.syncs
      /\ v.sync_transmit_index = u.sync_transmit_index
      /\ v.queue = u.queue /\ v.line = u.line /\ v.rxd = u.rxd
      /\ v.transmit_active = u.transmit_active /\ v.transmit_payload = u.transmit_payload
      /\ v.transmit_character = u.transmit_character /\ v.cts = cts
  BY <1>1 DEF Chip
<1> HIDE DEF v
<1>5. ChipOK(v)
  BY <1>3, <1>4, BoundsOf, KeepsOK
<1>6. Fresh(v)
  BY <1>4 DEF Fresh
<1>7. PortOf(v) = [rx |-> u.queue, tx |-> u.transmitted, buffer |-> u.transmit_buffer,
                   shift |-> shift, cts |-> cts]
  BY <1>4 DEF PortOf
<1> HIDE DEF shift, p
<1>8. [p EXCEPT !.cts = cts]
        = [rx |-> u.queue, tx |-> u.transmitted, buffer |-> u.transmit_buffer,
           shift |-> shift, cts |-> cts]
  BY <1>2 DEF p
<1> QED BY <1>5, <1>6, <1>7, <1>8 DEF v, p

LEMMA UnpluggedStep ==
  ASSUME NEW u, ChipOK(u), Fresh(u)
  PROVE  LET v == [ClearQueuedReceiveBytes(u) EXCEPT !.transmitted = <<>>]
         IN /\ ChipOK(v) /\ Fresh(v)
            /\ PortOf(v) = [PortOf(u) EXCEPT !.rx = <<>>, !.tx = <<>>]
<1> DEFINE w == ClearQueuedReceiveBytes(u)
           v == [w EXCEPT !.transmitted = <<>>]
           p == PortOf(u)
           shift == p.shift
           q == [p EXCEPT !.rx = <<>>]
<1>1. /\ u \in Chip /\ UartCapacity \in Nat /\ Len(<<>>) = 0
      /\ <<>> \in Seq(Byte) /\ <<>> \in Seq(BOOLEAN) /\ <<>> \in Seq(Seq(BOOLEAN))
  BY BoundsOf, Capacity, EmptySeq
<1>2. w \in Chip
  <2>1. "idle" \in ReceivePhases
    BY DEF ReceivePhases
  <2> QED BY <1>1, <2>1, ZenonT(60) DEF ClearQueuedReceiveBytes, Chip
<1>3. /\ w.transmit_buffer = u.transmit_buffer
      /\ w.mode = u.mode /\ w.phase = u.phase /\ w.syncs = u.syncs
      /\ w.sync_transmit_index = u.sync_transmit_index
      /\ w.queue = <<>> /\ w.rxd = TRUE
      /\ w.transmit_active = u.transmit_active /\ w.transmit_payload = u.transmit_payload
      /\ w.transmit_character = u.transmit_character /\ w.cts = u.cts
  BY <1>1 DEF ClearQueuedReceiveBytes, Chip
<1>4. PortOf(u) = [rx |-> u.queue, tx |-> u.transmitted, buffer |-> u.transmit_buffer,
                   shift |-> shift, cts |-> u.cts]
  BY DEF PortOf
<1> HIDE DEF w
<1>5. v \in Chip
  BY <1>1, <1>2 DEF Chip
<1>6. /\ v.transmitted = <<>> /\ v.transmit_buffer = w.transmit_buffer
      /\ v.mode = w.mode /\ v.phase = w.phase /\ v.syncs = w.syncs
      /\ v.sync_transmit_index = w.sync_transmit_index
      /\ v.queue = w.queue /\ v.rxd = w.rxd
      /\ v.transmit_active = w.transmit_active /\ v.transmit_payload = w.transmit_payload
      /\ v.transmit_character = w.transmit_character /\ v.cts = w.cts
  BY <1>2 DEF Chip
<1> HIDE DEF v
<1>7. ChipOK(v)
  <2>1. /\ Len(v.queue) <= UartCapacity /\ Len(v.transmitted) <= UartCapacity
        /\ v.line = <<>> => v.rxd
    BY <1>1, <1>3, <1>6
  <2> QED BY <1>3, <1>5, <1>6, <2>1, BoundsOf, KeepsOK
<1>8. Fresh(v)
  BY <1>3, <1>6 DEF Fresh
<1>9. PortOf(v) = [rx |-> <<>>, tx |-> <<>>, buffer |-> u.transmit_buffer,
                   shift |-> shift, cts |-> u.cts]
  BY <1>3, <1>6 DEF PortOf
<1> HIDE DEF shift, p
<1>10. q = [rx |-> <<>>, tx |-> u.transmitted, buffer |-> u.transmit_buffer,
            shift |-> shift, cts |-> u.cts]
  BY <1>4 DEF p
<1>11. [p EXCEPT !.rx = <<>>, !.tx = <<>>] = [q EXCEPT !.tx = <<>>]
  OBVIOUS
<1> HIDE DEF q
<1>12. [q EXCEPT !.tx = <<>>] = [rx |-> <<>>, tx |-> <<>>, buffer |-> u.transmit_buffer,
                                 shift |-> shift, cts |-> u.cts]
  BY <1>10
<1> QED BY <1>7, <1>8, <1>9, <1>11, <1>12 DEF v, w, p

LEMMA PlugStep ==
  ASSUME NEW u, ChipOK(u), Fresh(u), NEW on \in BOOLEAN
  PROVE  LET v == SetSerialConnected(u, on)
         IN /\ ChipOK(v) /\ Fresh(v)
            /\ PortOf(v) = Port!Connected(PortOf(u), on)
<1> DEFINE w == [u EXCEPT !.cts = on, !.dsr = on]
           p == PortOf(u)
<1>1. ChipOK(w) /\ Fresh(w) /\ PortOf(w) = [p EXCEPT !.cts = on]
  BY InputsStep
<1>2. CASE on
  <2>1. SetSerialConnected(u, on) = w /\ on = TRUE
    BY <1>2 DEF SetSerialConnected
  <2> HIDE DEF p
  <2>2. Port!Connected(p, on) = [p EXCEPT !.cts = TRUE]
    BY <1>2 DEF Port!Connected
  <2> QED BY <1>1, <2>1, <2>2 DEF p
<1>3. CASE ~on
  <2> DEFINE v == [ClearQueuedReceiveBytes(w) EXCEPT !.transmitted = <<>>]
             q == [p EXCEPT !.cts = on]
  <2>1. SetSerialConnected(u, on) = v /\ on = FALSE
    BY <1>3 DEF SetSerialConnected
  <2> HIDE DEF w
  <2>2. ChipOK(v) /\ Fresh(v) /\ PortOf(v) = [PortOf(w) EXCEPT !.rx = <<>>, !.tx = <<>>]
    BY <1>1, UnpluggedStep
  <2> HIDE DEF p, v
  <2>3. Port!Connected(p, on) = [p EXCEPT !.cts = FALSE, !.rx = <<>>, !.tx = <<>>]
    BY <1>3 DEF Port!Connected
  <2>4. [p EXCEPT !.cts = FALSE, !.rx = <<>>, !.tx = <<>>] = [q EXCEPT !.rx = <<>>, !.tx = <<>>]
    BY <2>1
  <2> HIDE DEF q
  <2>5. PortOf(v) = Port!Connected(p, on)
    BY <1>1, <2>2, <2>3, <2>4 DEF q
  <2> QED BY <2>1, <2>2, <2>5 DEF p
<1> QED BY <1>2, <1>3

----------------------------------------------------------------------------
(* The theorems. *)

LEMMA ControlWordsAreBytes ==
  ASSUME NEW phase, traffic \in {"send", "receive"}, NEW value \in ControlWords(phase),
         phase \in Phases
  PROVE  value \in Byte
<1>1. Modes \subseteq Byte /\ Syncs \subseteq Byte /\ Commands[traffic] \subseteq Byte
  BY LineAssumption
<1>2. ControlWords(phase) \in {Modes, Syncs, Commands[traffic]}
  BY DEF ControlWords, Phases
<1> QED BY <1>1, <1>2

(* The inductive invariant: with TypeOK alone a mode word could discard a  *)
(* character the port holds.                                               *)
ChipInv == TypeOK /\ Fresh(chip)

LEMMA InitChip == Init => ChipInv /\ Port!Init
<1> SUFFICES ASSUME Init PROVE ChipInv /\ Port!Init
  OBVIOUS
<1>1. chip = ResetChip(TRUE, FALSE)
  BY DEF Init
<1>2. ChipInv
  BY <1>1, ResetType, ResetPort DEF ChipInv, TypeOK, Init
<1>3. PortOf(chip) = Port!Empty(TRUE)
  BY <1>1, ResetPort
<1> QED BY <1>2, <1>3 DEF Port!Init

LEMMA StepChip == ChipInv /\ [Next]_vars => ChipInv' /\ [Port!Next]_(PortOf(chip))
<1> SUFFICES ASSUME ChipInv, [Next]_vars
             PROVE  ChipInv' /\ [Port!Next]_(PortOf(chip))
  OBVIOUS
<1> DEFINE p == PortOf(chip)
<1>1. /\ ChipOK(chip) /\ Fresh(chip) /\ traffic \in {"send", "receive"} /\ chip \in Chip
      /\ chip.cts \in BOOLEAN /\ chip.dsr \in BOOLEAN /\ chip.phase \in Phases
      /\ chip.mode \in Byte
  BY BoundsOf DEF ChipInv, TypeOK, Chip
<1>2. SUFFICES ASSUME Next
               PROVE  /\ ChipOK(chip') /\ Fresh(chip') /\ traffic' = traffic
                      /\ PortOf(chip') = p \/ Port!Next
  <2>1. CASE Next
    BY <1>1, <1>2, <2>1 DEF ChipInv, TypeOK
  <2>2. CASE UNCHANGED vars
    BY <1>1, <2>2 DEF ChipInv, TypeOK, vars
  <2> QED BY <2>1, <2>2
<1>3. CASE WriteControlWord
  <2>1. PICK value \in ControlWords(chip.phase) : chip' = WriteControl(chip, value)
    BY <1>3 DEF WriteControlWord
  <2>2. value \in Byte
    BY <1>1, <2>1, ControlWordsAreBytes
  <2>3. ChipOK(chip') /\ Fresh(chip') /\ PortOf(chip') \in {p, Port!Empty(chip.cts)}
    BY <1>1, <2>1, <2>2, WriteControlType, WriteControlPort
  <2>4. PortOf(chip') = p \/ Port!Reset
    BY <1>1, <2>3 DEF Port!Reset
  <2> QED BY <1>3, <2>3, <2>4 DEF WriteControlWord, Port!Next
<1>4. CASE WriteDataByte
  <2>1. PICK byte \in Data : chip' = WriteData(chip, byte)
    BY <1>4 DEF WriteDataByte
  <2>2. /\ ChipOK(chip') /\ Fresh(chip')
        /\ PortOf(chip') = [p EXCEPT !.buffer = <<Masked(chip, byte)>>]
    BY <1>1, <1>4, <2>1, WriteDataStep DEF WriteDataByte
  <2>3. Masked(chip, byte) \in Characters
    BY <1>1, CharacterType
  <2>4. Port!Write
    BY <2>2, <2>3 DEF Port!Write
  <2> QED BY <1>4, <2>2, <2>4 DEF WriteDataByte, Port!Next
<1>5. CASE ReadDataByte
  <2>1. chip' = ReadData(chip) /\ traffic' = traffic
    BY <1>5 DEF ReadDataByte
  <2> QED BY <1>1, <2>1, ReadDataStep, SamePortIsPort
<1>6. CASE TransmitEdge
  <2>1. chip' = ClockTransmit(chip) /\ traffic' = traffic
    BY <1>6 DEF TransmitEdge
  <2>2. /\ ChipOK(chip') /\ Fresh(chip')
        /\ PortOf(chip') \in {p, Port!Finished(p), Port!Loaded(Port!Finished(p))}
    BY <1>1, <2>1, ClockTransmitType, ClockTransmitPort
  <2>3. PortOf(chip') = p \/ Port!Advance
    BY <2>2 DEF Port!Advance
  <2> QED BY <2>1, <2>2, <2>3 DEF Port!Next
<1>7. CASE ReceiveEdge
  <2>1. chip' = ClockReceive(chip) /\ traffic' = traffic
    BY <1>7 DEF ReceiveEdge
  <2>2. /\ ChipOK(chip') /\ Fresh(chip')
        /\ \/ PortOf(chip') = p
           \/ p.rx # <<>> /\ PortOf(chip') = [p EXCEPT !.rx = Tail(p.rx)]
    BY <1>1, <2>1, ClockReceiveType, ClockReceivePort
  <2>3. PortOf(chip') = p \/ Port!Receive
    BY <2>2 DEF Port!Receive
  <2> QED BY <2>1, <2>2, <2>3 DEF Port!Next
<1>8. CASE QueueByte
  <2>1. PICK byte \in Data : chip' = QueueReceivedByte(chip, byte)
    BY <1>8 DEF QueueByte
  <2>2. byte \in Byte /\ byte \in Characters
    BY <1>1, LineAssumption, CharacterType
  <2>3. CASE Len(chip.queue) < UartCapacity
    <3>1. /\ ChipOK(chip') /\ Fresh(chip')
          /\ PortOf(chip') = [p EXCEPT !.rx = Append(chip.queue, byte)]
      BY <1>1, <2>1, <2>2, <2>3, QueueStep
    <3>2. p.rx = chip.queue
      BY DEF PortOf
    <3>3. Port!Queue
      BY <2>2, <2>3, <3>1, <3>2 DEF Port!Queue
    <3> QED BY <1>8, <3>1, <3>3 DEF QueueByte, Port!Next
  <2>4. CASE ~(Len(chip.queue) < UartCapacity)
    <3>1. chip' = chip
      BY <2>1, <2>4 DEF QueueReceivedByte
    <3> QED BY <1>1, <1>8, <3>1 DEF QueueByte
  <2> QED BY <2>3, <2>4
<1>9. CASE TakeByte
  <2>1. chip.transmitted # <<>> /\ chip' = TakeTransmittedByte(chip) /\ traffic' = traffic
    BY <1>9 DEF TakeByte
  <2>2. /\ ChipOK(chip') /\ Fresh(chip')
        /\ PortOf(chip') = [p EXCEPT !.tx = Tail(chip.transmitted)]
    BY <1>1, <2>1, TakeStep
  <2>3. p.tx = chip.transmitted
    BY DEF PortOf
  <2>4. Port!Take
    BY <2>1, <2>2, <2>3 DEF Port!Take
  <2> QED BY <2>1, <2>2, <2>4 DEF Port!Next
<1>10. CASE Plug
  <2> DEFINE on == ~chip.dsr
  <2>1. chip' = SetSerialConnected(chip, on) /\ traffic' = traffic /\ on \in BOOLEAN
    BY <1>1, <1>10 DEF Plug
  <2> HIDE DEF on
  <2>2. ChipOK(chip') /\ Fresh(chip') /\ PortOf(chip') = Port!Connected(p, on)
    BY <1>1, <2>1, PlugStep
  <2>3. Port!SetConnected
    BY <2>1, <2>2 DEF Port!SetConnected
  <2> QED BY <2>1, <2>2, <2>3 DEF Port!Next
<1>11. CASE ClearToSend
  <2> DEFINE clear == chip.dsr /\ ~chip.cts
  <2>1. /\ chip' = [chip EXCEPT !.cts = clear] /\ clear \in BOOLEAN /\ traffic' = traffic
    BY <1>1, <1>11 DEF ClearToSend, SetSerialClearToSend
  <2> HIDE DEF clear
  <2>2. chip' = [chip EXCEPT !.cts = clear, !.dsr = chip.dsr]
    BY <1>1, <2>1 DEF Chip
  <2>3. ChipOK(chip') /\ Fresh(chip') /\ PortOf(chip') = [p EXCEPT !.cts = clear]
    <3> DEFINE dsr == chip.dsr
               v == [chip EXCEPT !.cts = clear, !.dsr = dsr]
    <3>1. dsr \in BOOLEAN
      BY <1>1
    <3> HIDE DEF dsr
    <3>2. ChipOK(v) /\ Fresh(v) /\ PortOf(v) = [p EXCEPT !.cts = clear]
      BY <1>1, <2>1, <3>1, InputsStep
    <3>3. chip' = v
      BY <2>2 DEF dsr
    <3> HIDE DEF v
    <3> QED BY <3>2, <3>3
  <2>4. Port!SetClearToSend
    BY <2>1, <2>3 DEF Port!SetClearToSend
  <2> QED BY <2>1, <2>3, <2>4 DEF Port!Next
<1>12. CASE MachineReset
  <2>1. chip' = ResetChip(chip.cts, chip.dsr) /\ traffic' = traffic
    BY <1>12 DEF MachineReset
  <2>2. ChipOK(chip') /\ Fresh(chip') /\ PortOf(chip') = Port!Empty(chip.cts)
    BY <1>1, <2>1, ResetType, ResetPort
  <2>3. Port!Reset
    BY <1>1, <2>2 DEF Port!Reset
  <2> QED BY <2>1, <2>2, <2>3 DEF Port!Next
<1> QED BY <1>2, <1>3, <1>4, <1>5, <1>6, <1>7, <1>8, <1>9, <1>10, <1>11, <1>12 DEF Next

THEOREM TypeCorrect == Spec => []TypeOK
<1>1. Init => ChipInv
  BY InitChip
<1>2. ChipInv /\ [Next]_vars => ChipInv'
  BY StepChip
<1>3. ChipInv => TypeOK
  BY DEF ChipInv
<1> QED BY <1>1, <1>2, <1>3, PTL DEF Spec

(* The worst-case sequence resets the chip in every reachable state, with  *)
(* any words and bytes, characters of any length and queues of any size.   *)
THEOREM AlwaysWorstCaseReset == Spec => []WorstCaseReset
<1>1. TypeOK => WorstCaseReset
  BY WorstCaseResets DEF TypeOK, WorstCaseReset
<1> QED BY <1>1, TypeCorrect, PTL

(* Bit by bit, the chip does what SerialPort says of whole characters.     *)
THEOREM Implements == Spec => IsSerialPort
<1>1. Init => ChipInv /\ Port!Init
  BY InitChip
<1>2. ChipInv /\ [Next]_vars => ChipInv' /\ [Port!Next]_(PortOf(chip))
  BY StepChip
<1> QED BY <1>1, <1>2, PTL DEF Spec, IsSerialPort, Port!Spec

----------------------------------------------------------------------------
(* The hunt: what the receiver must be in for HuntIsExact to last.         *)

(* There are one or two SYNC characters, and a hunt and its success belong *)
(* to a synchronous chip that has been programmed; ...                     *)
HuntSet(u) ==
  /\ Len(u.syncs) <= 2
  /\ u.sync_hunt \/ u.sync_detected => u.phase = "command" /\ Synchronous(u)
  /\ ~(u.sync_hunt /\ u.sync_detected)
(* ... and a character is never longer than the mode says.                 *)
HuntOK(u) ==
  /\ HuntSet(u)
  /\ u.receive_phase = "sync_data" => Len(u.shift) < CharacterBits(u)
  /\ u.receive_phase = "sync_parity" => ParityEnabled(u)

(* HuntIsExact of a chip and the characters it has assembled.              *)
Exact(u, s) ==
  /\ u.sync_hunt =>
       u.sync_hunt_index =
         (IF Len(u.syncs) = 2 /\ s # <<>> /\ SameNumber(s[1], u.syncs[1]) THEN 1 ELSE 0)
  /\ u.sync_detected =>
       /\ SameNumber(s[1], u.syncs[Len(u.syncs)])
       /\ Len(u.syncs) = 2 => SameNumber(s[2], u.syncs[1])

SameHunt(u, v) ==
  /\ v.sync_hunt = u.sync_hunt /\ v.sync_hunt_index = u.sync_hunt_index
  /\ v.sync_detected = u.sync_detected
SameReceiver(u, v) ==
  /\ v.mode = u.mode /\ v.command = u.command /\ v.phase = u.phase /\ v.syncs = u.syncs
  /\ v.receive_phase = u.receive_phase /\ v.shift = u.shift
  /\ SameHunt(u, v)

LEMMA SameReceiverHunts ==
  ASSUME NEW u, NEW v, SameReceiver(u, v), NEW s
  PROVE  (HuntOK(u) => HuntOK(v)) /\ (Exact(u, s) => Exact(v, s))
BY DEF SameReceiver, SameHunt, HuntOK, HuntSet, Exact, Synchronous, CharacterBits, ParityEnabled

(* A chip that is not hunting has nothing to be exact about.               *)
LEMMA NotHunting ==
  ASSUME NEW u, ~u.sync_hunt, ~u.sync_detected, NEW s
  PROVE  Exact(u, s)
BY DEF Exact

LEMMA ReceiveByteHunts ==
  ASSUME NEW u \in Chip, NEW bits \in Seq(BOOLEAN), NEW pe \in BOOLEAN, NEW fe \in BOOLEAN
  PROVE  SameHunt(u, ReceiveByte(u, bits, pe, fe))
<1> DEFINE masked == Masked(u, bits)
           parity == u.parity_error \/ pe
           framing == u.framing_error \/ fe
           break == u.break_detected \/ (fe /\ \A i \in 1 .. Len(bits) : ~bits[i])
           v == [u EXCEPT !.receive_buffer = masked, !.receive_ready = TRUE,
                          !.parity_error = parity, !.framing_error = framing,
                          !.break_detected = break]
<1>1. ReceiveByte(u, bits, pe, fe) \in {u, [u EXCEPT !.overrun_error = TRUE], v}
  BY DEF ReceiveByte
<1> HIDE DEF masked, parity, framing, break
<1>2. SameHunt(u, v)
  BY DEF Chip, SameHunt
<1>3. SameHunt(u, u) /\ SameHunt(u, [u EXCEPT !.overrun_error = TRUE])
  BY DEF Chip, SameHunt
<1> QED BY <1>1, <1>2, <1>3

LEMMA SampleAsyncHunts ==
  ASSUME NEW u \in Chip
  PROVE  LET v == SampleAsync(u)
         IN SameHunt(u, v) /\ v.receive_phase \in {"idle", "data", "parity", "stop"}
<1> DEFINE v == SampleAsync(u)
<1>0. u.shift \in Seq(BOOLEAN) /\ u.rxd \in BOOLEAN /\ u.pending_parity_error \in BOOLEAN
  BY DEF Chip
<1>1. CASE u.receive_phase = "start"
  <2>1. v \in {[u EXCEPT !.receive_phase = "idle"],
               [u EXCEPT !.receive_phase = "data", !.shift = <<>>, !.pending_parity_error = FALSE]}
    BY <1>1 DEF SampleAsync
  <2> QED BY <2>1 DEF Chip, SameHunt
<1>2. CASE u.receive_phase = "data"
  <2> DEFINE shift == Append(u.shift, u.rxd)
             next == IF Len(u.shift) + 1 >= CharacterBits(u) THEN AfterData(u) ELSE u.receive_phase
  <2>1. v = [u EXCEPT !.shift = shift, !.receive_phase = next]
    BY <1>2 DEF SampleAsync
  <2>2. next \in {"data", "parity", "stop"}
    BY <1>2 DEF AfterData
  <2> HIDE DEF shift, next
  <2> QED BY <2>1, <2>2 DEF Chip, SameHunt
<1>3. CASE u.receive_phase = "parity"
  <2> DEFINE wrong == u.rxd # ParityBit(u, u.shift)
  <2>1. v = [u EXCEPT !.pending_parity_error = wrong, !.receive_phase = "stop"]
    BY <1>3 DEF SampleAsync
  <2> HIDE DEF wrong
  <2> QED BY <2>1 DEF Chip, SameHunt
<1>4. CASE u.receive_phase = "stop"
  <2> DEFINE w == ReceiveByte(u, u.shift, u.pending_parity_error, ~u.rxd)
  <2>1. v = [w EXCEPT !.receive_phase = "idle"]
    BY <1>4 DEF SampleAsync
  <2>2. (~u.rxd) \in BOOLEAN
    OBVIOUS
  <2>3. SameHunt(u, w) /\ w \in Chip
    BY <1>0, <2>2, ReceiveByteHunts, ReceiveByteType DEF ReceiverStep
  <2> HIDE DEF w
  <2> QED BY <2>1, <2>3 DEF Chip, SameHunt
<1>5. CASE u.receive_phase \notin {"start", "data", "parity", "stop"}
  <2>1. v = [u EXCEPT !.receive_phase = "idle"]
    BY <1>5 DEF SampleAsync
  <2> QED BY <2>1 DEF Chip, SameHunt
<1> QED BY <1>1, <1>2, <1>3, <1>4, <1>5

LEMMA ReceiveAsyncHunts ==
  ASSUME NEW u \in Chip, HuntOK(u), ~Synchronous(u)
  PROVE  HuntOK(ReceiveAsync(u)) /\ \A s : Exact(ReceiveAsync(u), s)
<1> DEFINE v == ReceiveAsync(u)
<1>1. /\ SameHunt(u, v)
      /\ \/ v.receive_phase = u.receive_phase /\ v.shift = u.shift
         \/ v.receive_phase \in {"idle", "start", "data", "parity", "stop"}
  <2>1. CASE u.receive_phase = "idle"
    <3> DEFINE delay == StartDelay(u)
    <3>1. v \in {u, [u EXCEPT !.receive_phase = "start", !.receive_clocks = delay]}
      BY <2>1 DEF ReceiveAsync
    <3> HIDE DEF delay
    <3> QED BY <3>1 DEF Chip, SameHunt
  <2>2. CASE u.receive_phase # "idle" /\ u.receive_clocks > 1
    <3> DEFINE clocks == u.receive_clocks - 1
    <3>1. v = [u EXCEPT !.receive_clocks = clocks]
      BY <2>2 DEF ReceiveAsync
    <3> HIDE DEF clocks
    <3> QED BY <3>1 DEF Chip, SameHunt
  <2>3. CASE u.receive_phase # "idle" /\ ~(u.receive_clocks > 1)
    <3> DEFINE factor == BaudFactor(u)
               w == [u EXCEPT !.receive_clocks = factor]
    <3>1. v = SampleAsync(w)
      BY <2>3 DEF ReceiveAsync
    <3>2. factor \in Nat
      BY FieldsOf, WordType
    <3> HIDE DEF factor
    <3>3. w \in Chip /\ SameHunt(u, w)
      BY <3>2 DEF Chip, SameHunt
    <3> HIDE DEF w
    <3>4. SameHunt(w, v) /\ v.receive_phase \in {"idle", "data", "parity", "stop"}
      BY <3>1, <3>3, SampleAsyncHunts
    <3> QED BY <3>3, <3>4 DEF SameHunt
  <2> QED BY <2>1, <2>2, <2>3
<1>2. v.mode = u.mode /\ v.phase = u.phase /\ v.syncs = u.syncs
  BY ReceiveAsyncType DEF ReceiverStep, Outside
<1>3. ~u.sync_hunt /\ ~u.sync_detected
  BY DEF HuntOK, HuntSet
<1> HIDE DEF v
<1>4. ~v.sync_hunt /\ ~v.sync_detected
  BY <1>1, <1>3 DEF SameHunt
<1>5. HuntOK(v)
  BY <1>1, <1>2, <1>4 DEF HuntOK, HuntSet, CharacterBits, ParityEnabled
<1>6. \A s : Exact(v, s)
  BY <1>4, NotHunting
<1> QED BY <1>5, <1>6 DEF v

(* One more character in a hunt; seen in ReceiveEdge.                      *)
SeenNext(s, bits) == <<bits>> \o (IF s = <<>> THEN <<>> ELSE <<s[1]>>)

LEMMA SeenNextIs ==
  ASSUME NEW s, NEW bits
  PROVE  /\ SeenNext(s, bits) # <<>> /\ SeenNext(s, bits)[1] = bits
         /\ s # <<>> => SeenNext(s, bits)[2] = s[1]
<1>1. CASE s = <<>>
  <2>1. SeenNext(s, bits) = <<bits>> \o <<>>
    BY <1>1 DEF SeenNext
  <2>2. <<bits>> \o <<>> = <<bits>>
    OBVIOUS
  <2> QED BY <1>1, <2>1, <2>2
<1>2. CASE s # <<>>
  <2> DEFINE first == s[1]
  <2>1. SeenNext(s, bits) = <<bits>> \o <<first>>
    BY <1>2 DEF SeenNext
  <2> HIDE DEF first
  <2> DEFINE S == {bits, first}
             a == <<bits>>
             b == <<first>>
  <2>2. a \in Seq(S) /\ b \in Seq(S) /\ Len(a) = 1 /\ Len(b) = 1 /\ a[1] = bits /\ b[1] = first
    OBVIOUS
  <2>3. SeenNext(s, bits) = a \o b
    BY <2>1
  <2> HIDE DEF S, a, b
  <2>4. /\ Len(a \o b) = 2 /\ (a \o b)[1] = a[1] /\ (a \o b)[2] = b[1]
    BY <2>2, ConcatProperties
  <2>5. Len(<<>>) = 0
    BY EmptySeq
  <2>6. SeenNext(s, bits) # <<>>
    BY <2>3, <2>4, <2>5
  <2> QED BY <2>2, <2>3, <2>4, <2>6 DEF first
<1> QED BY <1>1, <1>2

LEMMA HuntOnIsExact ==
  ASSUME NEW u, ChipOK(u), HuntSet(u), u.sync_hunt, NEW s, Exact(u, s)
  PROVE  LET v == HuntOn(u)
         IN Exact(v, SeenNext(s, u.shift)) /\ ~(v.sync_hunt /\ v.sync_detected)
<1> DEFINE t == SeenNext(s, u.shift)
           v == HuntOn(u)
           n == Len(u.syncs)
           k == u.sync_hunt_index
           first == SameNumber(u.shift, u.syncs[1])
<1> SUFFICES Exact(v, t) /\ ~(v.sync_hunt /\ v.sync_detected)
  OBVIOUS
<1>1. /\ u \in Chip /\ n \in 1 .. 2 /\ ~u.sync_detected
  <2>1. /\ u \in Chip /\ u.phase = "command" /\ Synchronous(u) /\ n <= 2 /\ ~u.sync_detected
    BY BoundsOf DEF HuntSet
  <2>2. u.sync_transmit_index \in Nat /\ n \in Nat
    BY <2>1, FieldsOf, LenProperties
  <2>3. u.sync_transmit_index < n
    BY <2>1 DEF ChipOK, SyncsLoaded
  <2> HIDE DEF n
  <2>4. n \in 1 .. 2
    BY <2>1, <2>2, <2>3
  <2> QED BY <2>1, <2>4
<1>2. t # <<>> /\ t[1] = u.shift /\ (s # <<>> => t[2] = s[1])
  BY SeenNextIs
<1>3. k = (IF n = 2 /\ s # <<>> /\ SameNumber(s[1], u.syncs[1]) THEN 1 ELSE 0)
  BY DEF Exact
<1> HIDE DEF t
<1>4. ASSUME NEW i \in Nat
      PROVE  LET w == [u EXCEPT !.sync_hunt_index = i]
             IN /\ w.sync_hunt_index = i /\ w.sync_hunt /\ ~w.sync_detected
                /\ w.syncs = u.syncs
  BY <1>1 DEF Chip
<1>5. ASSUME NEW i \in Nat, v = [u EXCEPT !.sync_hunt_index = i],
             i = (IF n = 2 /\ first THEN 1 ELSE 0)
      PROVE  Exact(v, t) /\ ~(v.sync_hunt /\ v.sync_detected)
  <2>1. /\ v.sync_hunt_index = i /\ v.sync_hunt /\ ~v.sync_detected
        /\ v.syncs = u.syncs
    BY <1>4, <1>5
  <2> HIDE DEF v
  <2> QED BY <1>2, <1>5, <2>1 DEF Exact
<1>6. CASE ~SameNumber(u.shift, u.syncs[k + 1])
  <2> DEFINE i == IF first THEN 1 ELSE 0
  <2>1. v = [u EXCEPT !.sync_hunt_index = i]
    BY <1>6 DEF HuntOn
  <2>2. i = (IF n = 2 /\ first THEN 1 ELSE 0)
    <3>1. CASE n = 2
      BY <3>1
    <3>2. CASE n = 1
      <4>1. k + 1 = 1
        BY <1>3, <3>2
      <4>2. ~first
        BY <1>6, <4>1
      <4> QED BY <4>2
    <3> QED BY <1>1, <3>1, <3>2
  <2>3. i \in Nat
    OBVIOUS
  <2> HIDE DEF i, v, n, first
  <2> QED BY <1>5, <2>1, <2>2, <2>3
<1>7. CASE SameNumber(u.shift, u.syncs[k + 1]) /\ k + 1 < n
  <2>1. k = 0 /\ n = 2
    <3>1. k \in {0, 1} /\ k + 1 < n /\ n \in 1 .. 2
      BY <1>1, <1>3, <1>7
    <3> HIDE DEF k, n
    <3> QED BY <3>1
  <2>2. k + 1 = 1
    BY <2>1
  <2>3. first
    BY <1>7, <2>2
  <2>4. v = [u EXCEPT !.sync_hunt_index = 1]
    BY <1>7, <2>1 DEF HuntOn
  <2> DEFINE i == 1
  <2>5. i \in Nat /\ i = (IF n = 2 /\ first THEN 1 ELSE 0) /\ v = [u EXCEPT !.sync_hunt_index = i]
    BY <2>1, <2>3, <2>4
  <2> HIDE DEF v, first, n, i
  <2> QED BY <1>5, <2>5
<1>8. CASE SameNumber(u.shift, u.syncs[k + 1]) /\ ~(k + 1 < n)
  <2> DEFINE w == [u EXCEPT !.sync_detected = TRUE, !.sync_hunt = FALSE, !.sync_hunt_index = 0]
  <2>1. v = w
    BY <1>8 DEF HuntOn
  <2>2. w.sync_detected /\ ~w.sync_hunt /\ w.syncs = u.syncs
    BY <1>1 DEF Chip
  <2>3. k + 1 = n
    BY <1>1, <1>3, <1>8
  <2>4. SameNumber(t[1], u.syncs[n])
    BY <1>2, <1>8, <2>3
  <2>5. n = 2 => SameNumber(t[2], u.syncs[1])
    BY <1>2, <1>3, <2>3
  <2>6. Len(w.syncs) = n
    BY <2>2
  <2> HIDE DEF w, v, n
  <2>7. /\ SameNumber(t[1], w.syncs[Len(w.syncs)])
        /\ Len(w.syncs) = 2 => SameNumber(t[2], w.syncs[1])
    BY <2>2, <2>4, <2>5, <2>6
  <2> QED BY <2>1, <2>2, <2>7 DEF Exact
<1> QED BY <1>6, <1>7, <1>8

(* The characters a hunting receiver has assembled after this edge.        *)
SeenAfter(u, s) ==
  IF u.sync_hunt /\ ReceiverEnabled(u) /\ SamplesLast(u)
  THEN SeenNext(s, IF ParityEnabled(u) THEN u.shift ELSE Append(u.shift, u.rxd))
  ELSE s

LEMMA FinishSyncHunts ==
  ASSUME NEW u, ChipOK(u), HuntSet(u), NEW s, Exact(u, s)
  PROVE  LET v == FinishSyncCharacter(u)
         IN HuntOK(v) /\ Exact(v, IF u.sync_hunt THEN SeenNext(s, u.shift) ELSE s)
<1> DEFINE w == IF u.sync_hunt THEN HuntOn(u)
                ELSE ReceiveByte(u, u.shift, u.pending_parity_error, FALSE)
           v == FinishSyncCharacter(u)
           t == IF u.sync_hunt THEN SeenNext(s, u.shift) ELSE s
<1>1. u \in Chip /\ u.shift \in Seq(BOOLEAN) /\ u.pending_parity_error \in BOOLEAN
  BY BoundsOf DEF Chip
<1>2. ReceiverStep(u, w) /\ Exact(w, t) /\ ~(w.sync_hunt /\ w.sync_detected)
  <2>1. CASE u.sync_hunt
    BY <1>1, <2>1, HuntOnType, HuntOnIsExact
  <2>2. CASE ~u.sync_hunt
    <3> DEFINE ok == FALSE
    <3>1. ok \in BOOLEAN
      BY DEF ok
    <3>2. w = ReceiveByte(u, u.shift, u.pending_parity_error, ok) /\ t = s
      BY <2>2
    <3> HIDE DEF ok, w, t
    <3>3. ReceiverStep(u, w) /\ SameHunt(u, w)
      BY <1>1, <3>1, <3>2, ReceiveByteType, ReceiveByteHunts
    <3> QED BY <3>2, <3>3 DEF ReceiverStep, Outside, SameHunt, Exact, HuntSet
  <2> QED BY <2>1, <2>2
<1>3. v = [w EXCEPT !.receive_phase = "sync_data", !.shift = <<>>,
                    !.pending_parity_error = FALSE]
  BY DEF FinishSyncCharacter
<1>4. u.sync_hunt \/ u.sync_detected \/ ~(w.sync_hunt \/ w.sync_detected)
  <2>1. CASE ~u.sync_hunt
    <3> DEFINE ok == FALSE
    <3>1. ok \in BOOLEAN
      BY DEF ok
    <3>2. w = ReceiveByte(u, u.shift, u.pending_parity_error, ok)
      BY <2>1
    <3> HIDE DEF ok, w
    <3>3. SameHunt(u, w)
      BY <1>1, <3>1, <3>2, ReceiveByteHunts
    <3> QED BY <3>3 DEF SameHunt
  <2> QED BY <2>1
<1> HIDE DEF w, v, t
<1>5. w \in Chip /\ w.mode = u.mode /\ w.phase = u.phase /\ w.syncs = u.syncs
  BY <1>2 DEF ReceiverStep, Outside
<1>6. /\ v.mode = u.mode /\ v.phase = u.phase /\ v.syncs = u.syncs
      /\ v.receive_phase = "sync_data" /\ v.shift = <<>> /\ SameHunt(w, v)
  BY <1>3, <1>5 DEF Chip, SameHunt
<1>7. Exact(v, t)
  BY <1>2, <1>5, <1>6 DEF Exact, SameHunt
<1>8. HuntSet(v)
  BY <1>2, <1>4, <1>6 DEF HuntSet, SameHunt, Synchronous
<1>9. CharacterBits(v) \in Nat /\ CharacterBits(v) > 0
  <2>1. v.mode \in Byte
    BY <1>1, <1>6, FieldsOf
  <2>2. CharacterBits(v) \in 1 .. 8
    BY <2>1, WordType
  <2> QED BY <2>2
<1>10. HuntOK(v)
  BY <1>6, <1>8, <1>9, EmptySeq DEF HuntOK
<1> QED BY <1>7, <1>10 DEF v, t

LEMMA SampleSyncDataHunts ==
  ASSUME NEW u, ChipOK(u), HuntSet(u), u.receive_phase = "sync_data", NEW s, Exact(u, s)
  PROVE  LET v == SampleSyncData(u)
             bits == Append(u.shift, u.rxd)
         IN /\ HuntOK(v)
            /\ Exact(v, IF /\ u.sync_hunt /\ ~ParityEnabled(u)
                           /\ Len(u.shift) + 1 >= CharacterBits(u)
                        THEN SeenNext(s, bits) ELSE s)
<1> DEFINE bits == Append(u.shift, u.rxd)
           w == [u EXCEPT !.shift = bits]
           v == SampleSyncData(u)
           size == CharacterBits(u)
           length == Len(u.shift)
           t == IF u.sync_hunt /\ ~ParityEnabled(u) /\ length + 1 >= size
                THEN SeenNext(s, bits) ELSE s
<1> SUFFICES HuntOK(v) /\ Exact(v, t)
  OBVIOUS
<1>1. u \in Chip /\ u.shift \in Seq(BOOLEAN) /\ u.rxd \in BOOLEAN
  BY BoundsOf DEF Chip
<1>2. bits \in Seq(BOOLEAN) /\ Len(bits) = length + 1 /\ length \in Nat
  BY <1>1, AppendProperties, LenProperties
<1>3. size \in Nat
  <2>1. size \in 1 .. 8
    BY <1>1, FieldsOf, WordType
  <2> QED BY <2>1
<1>4. /\ v = IF Len(w.shift) < CharacterBits(w) THEN w
             ELSE IF ParityEnabled(w) THEN [w EXCEPT !.receive_phase = "sync_parity"]
             ELSE FinishSyncCharacter(w)
  <2>1. CharacterBits(w) = CharacterBits(u) /\ ParityEnabled(w) = ParityEnabled(u)
    BY <1>1 DEF Chip, CharacterBits, ParityEnabled
  <2> HIDE DEF bits
  <2> QED BY <2>1 DEF SampleSyncData, bits
<1> HIDE DEF bits
<1>5. /\ w.shift = bits /\ w.receive_phase = "sync_data" /\ SameHunt(u, w)
      /\ w.mode = u.mode /\ w.phase = u.phase /\ w.syncs = u.syncs
  BY <1>1 DEF Chip, SameHunt
<1>6. ChipOK(w)
  <2>1. ReceiverStep(u, w)
    BY <1>1, <1>2, ReceiverSets, Zenon
  <2> HIDE DEF w
  <2> QED BY <2>1, ReceiverKeepsOK
<1> HIDE DEF w, v
<1>7. HuntSet(w) /\ Exact(w, s)
  BY <1>5 DEF SameHunt, HuntSet, Exact, Synchronous
<1>8. CharacterBits(w) = size /\ ParityEnabled(w) = ParityEnabled(u)
  BY <1>5 DEF CharacterBits, ParityEnabled
<1>9. CASE length + 1 < size
  <2>1. v = w /\ t = s
    <3> HIDE DEF length, size
    <3>1. Len(w.shift) < CharacterBits(w) /\ ~(length + 1 >= size)
      BY <1>2, <1>3, <1>5, <1>8, <1>9
    <3> QED BY <1>4, <3>1
  <2>2. Len(w.shift) < CharacterBits(w)
    BY <1>2, <1>5, <1>8, <1>9
  <2> HIDE DEF t
  <2> QED BY <1>5, <1>7, <2>1, <2>2 DEF HuntOK
<1>10. ASSUME ~(length + 1 < size) PROVE length + 1 >= size /\ ~(Len(w.shift) < CharacterBits(w))
  <2> HIDE DEF length, size
  <2> QED BY <1>2, <1>3, <1>5, <1>8, <1>10
<1>11. CASE ~(length + 1 < size) /\ ParityEnabled(u)
  <2>1. v = [w EXCEPT !.receive_phase = "sync_parity"] /\ t = s
    BY <1>4, <1>8, <1>10, <1>11
  <2>2. w \in Chip
    BY <1>6, BoundsOf
  <2>3. /\ v.receive_phase = "sync_parity" /\ SameHunt(w, v)
        /\ v.mode = w.mode /\ v.phase = w.phase /\ v.syncs = w.syncs
    BY <2>1, <2>2 DEF Chip, SameHunt
  <2>4. HuntSet(v) /\ Exact(v, s)
    BY <1>7, <2>3 DEF SameHunt, HuntSet, Exact, Synchronous
  <2>5. ParityEnabled(v)
    BY <1>5, <1>11, <2>3 DEF ParityEnabled
  <2>6. HuntOK(v)
    BY <2>3, <2>4, <2>5 DEF HuntOK
  <2> HIDE DEF t
  <2> QED BY <2>1, <2>4, <2>6
<1>12. CASE ~(length + 1 < size) /\ ~ParityEnabled(u)
  <2>1. v = FinishSyncCharacter(w)
    BY <1>4, <1>8, <1>10, <1>12
  <2>2. t = IF w.sync_hunt THEN SeenNext(s, w.shift) ELSE s
    <3>1. w.sync_hunt = u.sync_hunt
      BY <1>5 DEF SameHunt
    <3> QED BY <1>5, <1>10, <1>12, <3>1
  <2> HIDE DEF t
  <2> QED BY <1>6, <1>7, <2>1, <2>2, FinishSyncHunts
<1> QED BY <1>9, <1>11, <1>12

LEMMA SampleSyncHunts ==
  ASSUME NEW u, ChipOK(u), HuntOK(u), ReceiverEnabled(u), NEW s, Exact(u, s)
  PROVE  HuntOK(SampleSync(u)) /\ Exact(SampleSync(u), SeenAfter(u, s))
<1> DEFINE v == SampleSync(u)
           size == CharacterBits(u)
           length == Len(u.shift)
<1>1. u \in Chip /\ u.shift \in Seq(BOOLEAN) /\ u.rxd \in BOOLEAN /\ HuntSet(u)
  BY BoundsOf DEF Chip, HuntOK
<1>2. size \in Nat /\ size > 1 /\ length \in Nat
  <2>1. ShortestCharacter \in 2 .. 5
    BY UartAssumption
  <2>2. size \in Nat /\ size > 1
    BY <2>1 DEF CharacterBits
  <2> QED BY <1>1, <2>2, LenProperties
<1>3. CASE u.receive_phase = "sync_data"
  <2> DEFINE bits == Append(u.shift, u.rxd)
             t == IF u.sync_hunt /\ ~ParityEnabled(u) /\ length + 1 >= size
                  THEN SeenNext(s, bits) ELSE s
  <2>1. v = SampleSyncData(u)
    BY <1>3 DEF SampleSync
  <2>2. HuntOK(v) /\ Exact(v, t)
    BY <1>1, <1>3, <2>1, SampleSyncDataHunts
  <2>3. length < size
    BY <1>3 DEF HuntOK
  <2> HIDE DEF bits
  <2>4. SamplesLast(u) <=> ~ParityEnabled(u) /\ length + 1 = size
    BY <1>3 DEF SamplesLast
  <2>5. length + 1 >= size <=> length + 1 = size
    <3> HIDE DEF length, size
    <3> QED BY <1>2, <2>3
  <2>6. t = SeenAfter(u, s)
    <3> HIDE DEF length, size
    <3> QED BY <2>4, <2>5 DEF SeenAfter, bits
  <2> HIDE DEF t, v
  <2> QED BY <2>2, <2>6 DEF v
<1>4. CASE u.receive_phase = "sync_parity"
  <2> DEFINE wrong == u.rxd # ParityBit(u, u.shift)
             w == [u EXCEPT !.pending_parity_error = wrong]
  <2>1. wrong \in BOOLEAN
    BY Zenon
  <2>2. v = FinishSyncCharacter(w)
    BY <1>4 DEF SampleSync
  <2> HIDE DEF wrong
  <2>3. ReceiverStep(u, w)
    BY <1>1, <2>1, ReceiverSets, Zenon
  <2>4. w.shift = u.shift /\ SameHunt(u, w)
    BY <1>1 DEF Chip, SameHunt
  <2> HIDE DEF w, v
  <2>5. ChipOK(w)
    BY <2>3, ReceiverKeepsOK
  <2>6. HuntSet(w) /\ Exact(w, s)
    BY <1>1, <2>3, <2>4 DEF ReceiverStep, Outside, SameHunt, HuntSet, Exact, Synchronous
  <2>7. HuntOK(v) /\ Exact(v, IF w.sync_hunt THEN SeenNext(s, w.shift) ELSE s)
    BY <2>2, <2>5, <2>6, FinishSyncHunts
  <2>8. ParityEnabled(u)
    BY <1>4 DEF HuntOK
  <2>9. SeenAfter(u, s) = IF w.sync_hunt THEN SeenNext(s, w.shift) ELSE s
    BY <1>4, <2>4, <2>8 DEF SeenAfter, SamplesLast, SameHunt
  <2> QED BY <2>7, <2>9 DEF v
<1>5. CASE u.receive_phase \notin {"sync_data", "sync_parity"}
  <2> DEFINE w == [u EXCEPT !.receive_phase = "sync_data", !.shift = <<>>]
  <2>1. v = SampleSyncData(w)
    BY <1>5 DEF SampleSync
  <2>2. ReceiverStep(u, w)
    BY <1>1, EmptySeq, ReceiverSets, PhaseNames, Zenon
  <2>3. w.shift = <<>> /\ w.receive_phase = "sync_data" /\ SameHunt(u, w) /\ w.mode = u.mode
    BY <1>1 DEF Chip, SameHunt
  <2> HIDE DEF w, v
  <2>4. ChipOK(w)
    BY <2>2, ReceiverKeepsOK
  <2>5. HuntSet(w) /\ Exact(w, s)
    BY <1>1, <2>2, <2>3 DEF ReceiverStep, Outside, SameHunt, HuntSet, Exact, Synchronous
  <2>6. CharacterBits(w) = size
    BY <2>3 DEF CharacterBits
  <2>7. ~(Len(w.shift) + 1 >= CharacterBits(w))
    <3>1. Len(w.shift) = 0
      BY <2>3, EmptySeq
    <3> HIDE DEF size
    <3> QED BY <1>2, <2>6, <3>1
  <2>8. HuntOK(v) /\ Exact(v, s)
    BY <2>1, <2>3, <2>4, <2>5, <2>7, SampleSyncDataHunts
  <2>9. SeenAfter(u, s) = s
    BY <1>5 DEF SeenAfter, SamplesLast
  <2> QED BY <2>8, <2>9 DEF v
<1> QED BY <1>3, <1>4, <1>5

LEMMA LineKeepsReceiver ==
  ASSUME NEW u, ChipOK(u)
  PROVE  /\ SameReceiver(u, StartQueuedFrame(u)) /\ SameReceiver(u, DriveLine(u))
         /\ SameReceiver(u, AdvanceLine(u))
<1>1. u \in Chip
  BY BoundsOf
<1>2. ASSUME NEW queue, NEW line, NEW clocks, NEW level
      PROVE  /\ SameReceiver(u, [u EXCEPT !.queue = queue, !.line = line, !.line_clocks = clocks])
             /\ SameReceiver(u, [u EXCEPT !.rxd = level])
             /\ SameReceiver(u, [u EXCEPT !.line_clocks = clocks])
             /\ SameReceiver(u, [u EXCEPT !.line = line, !.line_clocks = clocks])
             /\ SameReceiver(u, [u EXCEPT !.line = line, !.line_clocks = clocks, !.rxd = level])
  BY <1>1 DEF SameReceiver, SameHunt, Chip
<1>3. SameReceiver(u, u)
  BY DEF SameReceiver, SameHunt
<1>4. \/ StartQueuedFrame(u) = u
      \/ StartQueuedFrame(u) = [u EXCEPT !.queue = Tail(u.queue), !.line = Frame(u, Head(u.queue)),
                                         !.line_clocks = BaudFactor(u)]
  BY DEF StartQueuedFrame
<1>5. DriveLine(u) = u \/ DriveLine(u) = [u EXCEPT !.rxd = Head(u.line)]
  BY DEF DriveLine
<1>6. \/ AdvanceLine(u) = u
      \/ AdvanceLine(u) = [u EXCEPT !.line_clocks = u.line_clocks - 1]
      \/ AdvanceLine(u) = [u EXCEPT !.line = Tail(u.line), !.line_clocks = BaudFactor(u)]
      \/ AdvanceLine(u) = [u EXCEPT !.line = <<>>, !.line_clocks = 0, !.rxd = TRUE]
  BY DEF AdvanceLine
<1>7. SameReceiver(u, [u EXCEPT !.queue = Tail(u.queue), !.line = Frame(u, Head(u.queue)),
                                !.line_clocks = BaudFactor(u)])
  BY <1>2, Zenon
<1>8. SameReceiver(u, [u EXCEPT !.rxd = Head(u.line)])
  BY <1>2, Zenon
<1>9. /\ SameReceiver(u, [u EXCEPT !.line_clocks = u.line_clocks - 1])
      /\ SameReceiver(u, [u EXCEPT !.line = Tail(u.line), !.line_clocks = BaudFactor(u)])
      /\ SameReceiver(u, [u EXCEPT !.line = <<>>, !.line_clocks = 0, !.rxd = TRUE])
  BY <1>2, Zenon
<1> QED BY <1>3, <1>4, <1>5, <1>6, <1>7, <1>8, <1>9, Zenon

LEMMA ClockReceiveHunts ==
  ASSUME NEW u, ChipOK(u), HuntOK(u), NEW s, Exact(u, s)
  PROVE  LET d == DriveLine(StartQueuedFrame(u))
             v == ClockReceive(u)
         IN SameReceiver(u, d) /\ HuntOK(v) /\ Exact(v, SeenAfter(d, s))
<1> DEFINE q == StartQueuedFrame(u)
           d == DriveLine(q)
           e == ReceiveClockEdge(d)
           v == ClockReceive(u)
<1> SUFFICES SameReceiver(u, d) /\ HuntOK(v) /\ Exact(v, SeenAfter(d, s))
  OBVIOUS
<1>1. ChipOK(q) /\ ChipOK(d) /\ v = AdvanceLine(e)
  BY StartQueuedFrameType, DriveLineType DEF ClockReceive
<1>2. SameReceiver(u, q) /\ SameReceiver(q, d)
  BY <1>1, LineKeepsReceiver
<1> HIDE DEF q, d, v
<1>3. SameReceiver(u, d)
  BY <1>2 DEF SameReceiver, SameHunt
<1>4. HuntOK(d) /\ Exact(d, s) /\ d \in Chip
  BY <1>1, <1>3, SameReceiverHunts, BoundsOf
<1>5. ChipOK(e)
  BY <1>1, <1>4, ReceiveClockEdgeType, ReceiverKeepsOK
<1>6. HuntOK(e) /\ Exact(e, SeenAfter(d, s))
  <2>1. CASE ~ReceiverEnabled(d)
    BY <1>4, <2>1 DEF ReceiveClockEdge, SeenAfter
  <2>2. CASE ReceiverEnabled(d) /\ Synchronous(d)
    <3>1. e = SampleSync(d)
      BY <2>2 DEF ReceiveClockEdge
    <3> QED BY <1>1, <1>4, <2>2, <3>1, SampleSyncHunts
  <2>3. CASE ReceiverEnabled(d) /\ ~Synchronous(d)
    <3>1. e = ReceiveAsync(d)
      BY <2>3 DEF ReceiveClockEdge
    <3> HIDE DEF e
    <3> QED BY <1>4, <2>3, <3>1, ReceiveAsyncHunts
  <2> QED BY <2>1, <2>2, <2>3
<1> HIDE DEF e
<1>7. SameReceiver(e, v)
  BY <1>1, <1>5, LineKeepsReceiver
<1>8. HuntOK(v) /\ Exact(v, SeenAfter(d, s))
  BY <1>6, <1>7, SameReceiverHunts
<1> QED BY <1>3, <1>8

(* The commands: EH begins a hunt, nothing else touches one.               *)
LEMMA AcceptCommandHunts ==
  ASSUME NEW u, ChipOK(u), HuntOK(u), NEW value \in Byte, ~value[7], u.phase = "command",
         NEW s, Exact(u, s)
  PROVE  LET v == AcceptCommand(u, value)
         IN HuntOK(v) /\ Exact(v, IF value[8] THEN <<>> ELSE s)
<1> DEFINE stored == [u EXCEPT !.command = value]
           cleared == IF value[5] THEN ResetErrors(stored) ELSE stored
           hunting == IF Synchronous(u) /\ value[8] THEN EnterHunt(cleared) ELSE cleared
           marking == IF value[1] THEN hunting ELSE [hunting EXCEPT !.txd = TRUE]
           idle == IF value[3] THEN marking ELSE [marking EXCEPT !.receive_phase = "idle"]
           v == AcceptCommand(u, value)
           t == IF value[8] THEN <<>> ELSE s
<1> SUFFICES HuntOK(v) /\ Exact(v, t)
  OBVIOUS
<1>1. v = idle
  BY DEF AcceptCommand
<1>2. u \in Chip
  BY BoundsOf
<1>3. /\ v.mode = u.mode /\ v.phase = u.phase /\ v.syncs = u.syncs
  <2>1. Outside(stored, v)
    BY AcceptCommandType
  <2>2. stored.mode = u.mode /\ stored.phase = u.phase /\ stored.syncs = u.syncs
    BY <1>2 DEF Chip
  <2> HIDE DEF stored, v
  <2> QED BY <2>1, <2>2 DEF Outside
<1>4. stored \in Chip /\ stored.receive_phase = u.receive_phase /\ stored.shift = u.shift
        /\ SameHunt(u, stored)
  BY <1>2 DEF Chip, SameHunt
<1> HIDE DEF v, stored
<1>5. cleared \in Chip /\ cleared.receive_phase = u.receive_phase /\ cleared.shift = u.shift
        /\ SameHunt(u, cleared)
  <2>1. /\ ResetErrors(stored).receive_phase = stored.receive_phase
        /\ ResetErrors(stored).shift = stored.shift /\ SameHunt(stored, ResetErrors(stored))
    BY <1>4 DEF ResetErrors, Chip, SameHunt
  <2>2. ResetErrors(stored) \in Chip
    BY <1>4, ZenonT(60) DEF ResetErrors, Chip
  <2> QED BY <1>4, <2>1, <2>2 DEF SameHunt
<1> HIDE DEF cleared
<1>6. EnterHunt(cleared) \in Chip
  <2>1. <<>> \in Seq(BOOLEAN)
    BY EmptySeq
  <2> QED BY <1>5, <2>1, PhaseNames, ZenonT(60) DEF EnterHunt, Chip
<1>7. hunting \in Chip
  BY <1>5, <1>6
<1> HIDE DEF hunting
<1>8. marking \in Chip /\ marking.receive_phase = hunting.receive_phase
        /\ marking.shift = hunting.shift /\ SameHunt(hunting, marking)
  <2> DEFINE high == TRUE
             m == [hunting EXCEPT !.txd = high]
  <2>1. high \in BOOLEAN
    BY DEF high
  <2>2. marking \in {hunting, m}
    BY DEF high
  <2> HIDE DEF high, marking
  <2>3. m \in Chip /\ m.receive_phase = hunting.receive_phase /\ m.shift = hunting.shift
          /\ SameHunt(hunting, m)
    BY <1>7, <2>1 DEF Chip, SameHunt
  <2> HIDE DEF m
  <2>4. SameHunt(hunting, hunting)
    BY DEF SameHunt
  <2> QED BY <1>7, <2>2, <2>3, <2>4
<1> HIDE DEF marking
<1>9. /\ v.receive_phase \in {"idle", hunting.receive_phase} /\ v.shift = hunting.shift
      /\ SameHunt(hunting, v)
  <2> DEFINE m == [marking EXCEPT !.receive_phase = "idle"]
  <2>1. v \in {marking, m}
    BY <1>1
  <2>2. m.receive_phase = "idle" /\ m.shift = marking.shift /\ SameHunt(marking, m)
    BY <1>8 DEF Chip, SameHunt
  <2> HIDE DEF m
  <2> QED BY <1>8, <2>1, <2>2 DEF SameHunt
<1> HIDE DEF idle
<1>10. CASE Synchronous(u) /\ value[8]
  <2>1. hunting = EnterHunt(cleared) /\ t = <<>>
    BY <1>10 DEF hunting
  <2>2. /\ hunting.sync_hunt /\ ~hunting.sync_detected /\ hunting.sync_hunt_index = 0
        /\ hunting.shift = <<>>
    BY <1>5, <2>1 DEF EnterHunt, Chip
  <2>3. hunting.receive_phase = "sync_data"
    BY <1>5, <2>1 DEF EnterHunt, Chip
  <2> HIDE DEF t
  <2>4. v.sync_hunt /\ ~v.sync_detected /\ v.sync_hunt_index = 0
    BY <1>9, <2>2 DEF SameHunt
  <2>5. Exact(v, t)
    BY <2>1, <2>4 DEF Exact
  <2>6. HuntSet(v)
    BY <1>3, <1>10, <2>4 DEF HuntOK, HuntSet, Synchronous
  <2>7. Len(v.shift) < CharacterBits(v)
    <3>1. Len(v.shift) = 0
      BY <1>9, <2>2, EmptySeq
    <3>2. CharacterBits(v) \in 1 .. 8
      BY <1>2, <1>3, FieldsOf, WordType
    <3> QED BY <3>1, <3>2
  <2>8. v.receive_phase # "sync_parity"
    BY <1>9, <2>3
  <2>9. HuntOK(v)
    BY <2>6, <2>7, <2>8 DEF HuntOK
  <2> QED BY <2>5, <2>9
<1>11. CASE ~(Synchronous(u) /\ value[8])
  <2>1. hunting = cleared
    BY <1>11 DEF hunting
  <2>2. SameHunt(u, v) /\ v.shift = u.shift /\ v.receive_phase \in {"idle", u.receive_phase}
    BY <1>5, <1>9, <2>1 DEF SameHunt
  <2>3. HuntOK(v)
    BY <1>3, <2>2 DEF HuntOK, HuntSet, SameHunt, Synchronous, CharacterBits, ParityEnabled
  <2>4. CASE value[8]
    <3>1. ~v.sync_hunt /\ ~v.sync_detected
      BY <1>11, <2>2, <2>4 DEF HuntOK, HuntSet, SameHunt
    <3> HIDE DEF t
    <3> QED BY <2>3, <3>1, NotHunting
  <2>5. CASE ~value[8]
    <3>1. t = s
      BY <2>5
    <3>2. Exact(v, s)
      BY <1>3, <2>2 DEF SameHunt, Exact
    <3> QED BY <2>3, <3>1, <3>2
  <2> QED BY <2>4, <2>5
<1> QED BY <1>10, <1>11

LEMMA WriteControlHunts ==
  ASSUME NEW u, ChipOK(u), HuntOK(u), NEW value \in Byte, NEW s, Exact(u, s)
  PROVE  LET v == WriteControl(u, value)
         IN /\ HuntOK(v)
            /\ Exact(v, IF value[8] \/ v.phase # "command" THEN <<>> ELSE s)
<1> DEFINE v == WriteControl(u, value)
           t == IF value[8] \/ v.phase # "command" THEN <<>> ELSE s
<1> SUFFICES HuntOK(v) /\ Exact(v, t)
  OBVIOUS
<1>1. u \in Chip /\ u.phase \in Phases
  BY BoundsOf, FieldsOf
<1>2. ASSUME ~v.sync_hunt, ~v.sync_detected, Len(v.syncs) <= 2,
             v.receive_phase \notin {"sync_data", "sync_parity"}
      PROVE  HuntOK(v) /\ Exact(v, t)
  <2> HIDE DEF v, t
  <2> QED BY <1>2, NotHunting DEF HuntOK, HuntSet
<1>3. CASE u.phase = "mode"
  <2> DEFINE w == [u EXCEPT !.mode = value, !.command = Zero, !.transmit_buffer = <<>>,
                            !.transmit_active = FALSE, !.receive_ready = FALSE,
                            !.receive_phase = "idle", !.sync_detected = FALSE,
                            !.sync_hunt = FALSE, !.syncs = <<>>]
             phase == IF Synchronous(w) THEN "sync1" ELSE "command"
  <2>1. v = [w EXCEPT !.phase = phase]
    BY <1>3 DEF WriteControl, AcceptMode
  <2> HIDE DEF phase, v
  <2>2. ~v.sync_hunt /\ ~v.sync_detected /\ v.syncs = <<>> /\ v.receive_phase = "idle"
    BY <1>1, <2>1 DEF Chip
  <2>3. Len(v.syncs) <= 2
    BY <2>2, EmptySeq
  <2> QED BY <1>2, <2>2, <2>3
<1>4. CASE u.phase \in {"sync1", "sync2"}
  <2> DEFINE one == u.phase = "sync1"
             next == IF one /\ ~OneSync(u) THEN "sync2" ELSE "command"
             syncs == IF one THEN <<value>> ELSE <<u.syncs[1], value>>
  <2>1. v = [u EXCEPT !.syncs = syncs, !.phase = next]
    BY <1>4 DEF WriteControl
  <2>2. Len(syncs) <= 2
    <3>1. Len(<<value>>) = 1 /\ Len(<<u.syncs[1], value>>) = 2
      OBVIOUS
    <3> QED BY <3>1
  <2> HIDE DEF next, syncs, v
  <2>3. /\ v.syncs = syncs /\ v.mode = u.mode /\ SameHunt(u, v)
        /\ v.receive_phase = u.receive_phase /\ v.shift = u.shift
    BY <1>1, <2>1 DEF Chip, SameHunt
  <2>4. ~v.sync_hunt /\ ~v.sync_detected
    BY <1>4, <2>3 DEF HuntOK, HuntSet, SameHunt
  <2>5. HuntOK(v)
    BY <2>2, <2>3, <2>4 DEF HuntOK, HuntSet, CharacterBits, ParityEnabled
  <2> HIDE DEF t
  <2> QED BY <2>4, <2>5, NotHunting
<1>5. CASE u.phase = "command"
  <2>1. v = AcceptCommand(u, value)
    BY <1>5 DEF WriteControl
  <2>2. CASE value[7]
    <3>1. v = ResetChip(u.cts, u.dsr)
      BY <2>1, <2>2, AcceptCommandType
    <3>2. ~v.sync_hunt /\ ~v.sync_detected /\ v.syncs = <<>> /\ v.receive_phase = "idle"
      BY <3>1 DEF ResetChip
    <3> HIDE DEF v
    <3>3. Len(v.syncs) <= 2
      BY <3>2, EmptySeq
    <3> QED BY <1>2, <3>2, <3>3
  <2>3. CASE ~value[7]
    <3>1. HuntOK(v) /\ Exact(v, IF value[8] THEN <<>> ELSE s)
      BY <1>5, <2>1, <2>3, AcceptCommandHunts
    <3>2. v.phase = "command"
      <4> DEFINE stored == [u EXCEPT !.command = value]
      <4>1. Outside(stored, v)
        BY <2>1, <2>3, AcceptCommandType
      <4>2. stored.phase = "command"
        BY <1>1, <1>5 DEF Chip
      <4> HIDE DEF stored, v
      <4> QED BY <4>1, <4>2 DEF Outside
    <3>3. t = IF value[8] THEN <<>> ELSE s
      BY <3>2
    <3> HIDE DEF v, t
    <3> QED BY <3>1, <3>3
  <2> QED BY <2>2, <2>3
<1> QED BY <1>1, <1>3, <1>4, <1>5 DEF Phases

(* The transmitter and the host leave the receiver alone.                  *)
LEMMA SameReceiversCompose ==
  ASSUME NEW u, NEW v, NEW w, SameReceiver(u, v), SameReceiver(v, w)
  PROVE  SameReceiver(u, w)
BY DEF SameReceiver, SameHunt

LEMMA TransmitKeepsReceiver ==
  ASSUME NEW u, ChipOK(u)
  PROVE  SameReceiver(u, ClockTransmit(u))
<1>1. ASSUME NEW w, ChipOK(w) PROVE SameReceiver(w, FinishFrame(w))
  <2> DEFINE kept == IF w.transmit_payload /\ Len(w.transmitted) < UartCapacity
                     THEN Append(w.transmitted, w.transmit_character) ELSE w.transmitted
             v == [w EXCEPT !.transmit_active = FALSE, !.transmitted = kept]
  <2>1. FinishFrame(w) \in {w, v}
    BY DEF FinishFrame
  <2> HIDE DEF kept
  <2>2. SameReceiver(w, v)
    BY <1>1, BoundsOf DEF SameReceiver, SameHunt, Chip
  <2>3. SameReceiver(w, w)
    BY DEF SameReceiver, SameHunt
  <2> HIDE DEF v
  <2> QED BY <2>1, <2>2, <2>3
<1>2. ASSUME NEW w, ChipOK(w) PROVE SameReceiver(w, BeginFrame(w))
  <2> DEFINE next == (w.sync_transmit_index + 1) % Len(w.syncs)
             a == [w EXCEPT !.transmit_buffer = <<>>]
             b == [w EXCEPT !.sync_transmit_index = next]
             sync == w.syncs[w.sync_transmit_index + 1]
             character == w.transmit_buffer[1]
  <2>1. BeginFrame(w) \in {w, LoadFrame(a, character, TRUE), LoadFrame(b, sync, FALSE)}
    BY DEF BeginFrame
  <2> HIDE DEF next, sync, character
  <2>2. w \in Chip
    BY <1>2, BoundsOf
  <2>3. SameReceiver(w, a) /\ SameReceiver(w, b) /\ SameReceiver(w, w)
    BY <2>2 DEF SameReceiver, SameHunt, Chip
  <2>4. ASSUME NEW bits, NEW payload
        PROVE  /\ SameReceiver(a, LoadFrame(a, bits, payload))
               /\ SameReceiver(b, LoadFrame(b, bits, payload))
    <3> DEFINE fa == Frame(a, bits)
               fb == Frame(b, bits)
    <3>1. /\ LoadFrame(a, bits, payload)
               = [a EXCEPT !.transmit_frame = fa, !.transmit_character = bits,
                           !.transmit_payload = payload, !.transmit_active = TRUE]
          /\ LoadFrame(b, bits, payload)
               = [b EXCEPT !.transmit_frame = fb, !.transmit_character = bits,
                           !.transmit_payload = payload, !.transmit_active = TRUE]
      BY DEF LoadFrame
    <3> HIDE DEF fa, fb
    <3> DEFINE la == LoadFrame(a, bits, payload)
               lb == LoadFrame(b, bits, payload)
    <3>2. la.mode = a.mode /\ la.command = a.command /\ la.phase = a.phase /\ la.syncs = a.syncs
      BY <2>2, <3>1, ZenonT(60) DEF Chip
    <3>3. lb.mode = b.mode /\ lb.command = b.command /\ lb.phase = b.phase /\ lb.syncs = b.syncs
      BY <2>2, <3>1, ZenonT(60) DEF Chip
    <3>4. la.receive_phase = a.receive_phase /\ la.shift = a.shift /\ SameHunt(a, la)
      BY <2>2, <3>1, ZenonT(60) DEF SameHunt, Chip
    <3>5. lb.receive_phase = b.receive_phase /\ lb.shift = b.shift /\ SameHunt(b, lb)
      BY <2>2, <3>1, ZenonT(60) DEF SameHunt, Chip
    <3> HIDE DEF la, lb, a, b
    <3> QED BY <3>2, <3>3, <3>4, <3>5 DEF SameReceiver, la, lb
  <2> HIDE DEF a, b
  <2>5. /\ SameReceiver(w, LoadFrame(a, character, TRUE))
        /\ SameReceiver(w, LoadFrame(b, sync, FALSE))
    BY <2>3, <2>4, SameReceiversCompose, Zenon
  <2> QED BY <2>1, <2>3, <2>5, Zenon
<1>3. ASSUME NEW w, ChipOK(w) PROVE SameReceiver(w, AdvanceTransmitter(w))
  <2> DEFINE f == FinishFrame(w)
             v == BeginFrame(f)
             level == Head(v.transmit_frame)
             frame == Tail(v.transmit_frame)
  <2>1. AdvanceTransmitter(w) \in {[v EXCEPT !.txd = level, !.transmit_frame = frame],
                                   [v EXCEPT !.txd = TRUE]}
    BY DEF AdvanceTransmitter
  <2> HIDE DEF level, frame
  <2>2. ChipOK(f) /\ (f.transmit_active => f.transmit_frame # <<>>)
    BY <1>3, FinishFrameType
  <2>3. SameReceiver(w, f)
    BY <1>1, <1>3
  <2> HIDE DEF f
  <2>4. ChipOK(v)
    BY <2>2, BeginFrameType
  <2>5. SameReceiver(w, v)
    BY <1>2, <2>2, <2>3, SameReceiversCompose
  <2> HIDE DEF v
  <2>6. /\ SameReceiver(v, [v EXCEPT !.txd = level, !.transmit_frame = frame])
        /\ SameReceiver(v, [v EXCEPT !.txd = TRUE])
    BY <2>4, BoundsOf DEF SameReceiver, SameHunt, Chip
  <2>7. /\ SameReceiver(w, [v EXCEPT !.txd = level, !.transmit_frame = frame])
        /\ SameReceiver(w, [v EXCEPT !.txd = TRUE])
    BY <2>5, <2>6, SameReceiversCompose, Zenon
  <2> QED BY <2>1, <2>7, Zenon
<1>4. u \in Chip /\ u.transmit_clocks \in Nat
  BY BoundsOf DEF Chip
<1>5. CASE SendsBreak(u)
  <2>1. ClockTransmit(u) = [u EXCEPT !.txd = FALSE]
    BY <1>5 DEF ClockTransmit
  <2> QED BY <1>4, <2>1 DEF SameReceiver, SameHunt, Chip
<1>6. CASE ~SendsBreak(u) /\ u.transmit_clocks + 1 < BaudFactor(u)
  <2>1. ClockTransmit(u) = [u EXCEPT !.transmit_clocks = u.transmit_clocks + 1]
    BY <1>6 DEF ClockTransmit
  <2> QED BY <1>4, <2>1 DEF SameReceiver, SameHunt, Chip
<1>7. CASE ~SendsBreak(u) /\ ~(u.transmit_clocks + 1 < BaudFactor(u))
  <2> DEFINE w == [u EXCEPT !.transmit_clocks = 0]
  <2>1. ClockTransmit(u) = AdvanceTransmitter(w)
    BY <1>7 DEF ClockTransmit
  <2>2. w \in Chip /\ SameReceiver(u, w)
    BY <1>4 DEF SameReceiver, SameHunt, Chip
  <2>3. ChipOK(w)
    <3>1. /\ w.mode = u.mode /\ w.phase = u.phase /\ w.syncs = u.syncs
          /\ w.sync_transmit_index = u.sync_transmit_index
          /\ w.transmit_buffer = u.transmit_buffer /\ w.queue = u.queue
          /\ w.transmitted = u.transmitted /\ w.line = u.line /\ w.rxd = u.rxd
      BY <1>4 DEF Chip
    <3> HIDE DEF w
    <3> QED BY <2>2, <3>1, BoundsOf, KeepsOK
  <2> HIDE DEF w
  <2> QED BY <1>3, <2>1, <2>2, <2>3, SameReceiversCompose
<1> QED BY <1>5, <1>6, <1>7

(* HuntIsExact is inductive with HuntOK.                                   *)
HuntInv == ChipInv /\ HuntOK(chip) /\ Exact(chip, seen)

LEMMA StepHunt == HuntInv /\ [Next]_vars => HuntInv'
<1> SUFFICES ASSUME HuntInv, [Next]_vars PROVE HuntInv'
  OBVIOUS
<1>1. ChipInv' /\ ChipOK(chip) /\ chip \in Chip /\ HuntOK(chip) /\ Exact(chip, seen)
  BY StepChip, BoundsOf DEF HuntInv, ChipInv, TypeOK
<1>2. SUFFICES HuntOK(chip') /\ Exact(chip', seen')
  BY <1>1 DEF HuntInv
<1>3. ASSUME SameReceiver(chip, chip'), seen' = seen
      PROVE  HuntOK(chip') /\ Exact(chip', seen')
  BY <1>1, <1>3, SameReceiverHunts
<1>4. SameReceiver(chip, chip)
  BY DEF SameReceiver, SameHunt
<1>5. CASE WriteControlWord
  <2>1. PICK value \in ControlWords(chip.phase) :
          /\ chip' = WriteControl(chip, value)
          /\ seen' = IF value[8] \/ chip'.phase # "command" THEN <<>> ELSE seen
    BY <1>5 DEF WriteControlWord
  <2>2. value \in Byte
    BY <1>1, <2>1, ControlWordsAreBytes, FieldsOf DEF HuntInv, ChipInv, TypeOK
  <2> QED BY <1>1, <2>1, <2>2, WriteControlHunts
<1>6. CASE WriteDataByte
  <2>1. PICK byte \in Data : chip' = WriteData(chip, byte)
    BY <1>6 DEF WriteDataByte
  <2>2. chip' = [chip EXCEPT !.transmit_buffer = <<Masked(chip, byte)>>] /\ seen' = seen
    BY <1>6, <2>1 DEF WriteData, WriteDataByte
  <2> QED BY <1>1, <1>3, <2>2 DEF SameReceiver, SameHunt, Chip
<1>7. CASE ReadDataByte
  <2>1. chip' = [chip EXCEPT !.receive_ready = FALSE] /\ seen' = seen
    BY <1>7 DEF ReadData, ReadDataByte
  <2> QED BY <1>1, <1>3, <2>1 DEF SameReceiver, SameHunt, Chip
<1>8. CASE TransmitEdge
  <2>1. SameReceiver(chip, chip') /\ seen' = seen
    BY <1>1, <1>8, TransmitKeepsReceiver DEF TransmitEdge
  <2> QED BY <1>3, <2>1
<1>9. CASE ReceiveEdge
  <2> DEFINE d == DriveLine(StartQueuedFrame(chip))
  <2>1. SameReceiver(chip, d) /\ HuntOK(chip') /\ Exact(chip', SeenAfter(d, seen))
    BY <1>1, <1>9, ClockReceiveHunts DEF ReceiveEdge
  <2>2. seen' = IF chip.sync_hunt /\ ReceiverEnabled(chip) /\ SamplesLast(chip)
                THEN SeenNext(seen, IF ParityEnabled(chip) THEN chip.shift
                                    ELSE Append(chip.shift, d.rxd))
                ELSE seen
    BY <1>9 DEF ReceiveEdge, SeenNext, Assembled
  <2> HIDE DEF d
  <2>3. seen' = SeenAfter(d, seen)
    BY <2>1, <2>2 DEF SeenAfter, SameReceiver, SameHunt, ReceiverEnabled, SamplesLast,
                      ParityEnabled, CharacterBits
  <2> QED BY <2>1, <2>3
<1>10. CASE QueueByte
  <2>1. PICK byte \in Data : chip' = QueueReceivedByte(chip, byte)
    BY <1>10 DEF QueueByte
  <2> DEFINE queue == Append(chip.queue, byte)
  <2>2. chip' \in {chip, [chip EXCEPT !.queue = queue]} /\ seen' = seen
    BY <1>10, <2>1 DEF QueueReceivedByte, QueueByte
  <2> HIDE DEF queue
  <2>3. SameReceiver(chip, [chip EXCEPT !.queue = queue])
    BY <1>1 DEF SameReceiver, SameHunt, Chip
  <2> QED BY <1>3, <1>4, <2>2, <2>3
<1>11. CASE TakeByte
  <2> DEFINE rest == Tail(chip.transmitted)
  <2>1. chip' = [chip EXCEPT !.transmitted = rest] /\ seen' = seen
    BY <1>11 DEF TakeTransmittedByte, TakeByte
  <2> HIDE DEF rest
  <2> QED BY <1>1, <1>3, <2>1 DEF SameReceiver, SameHunt, Chip
<1>12. CASE Plug
  <2> DEFINE on == ~chip.dsr
             v == [chip EXCEPT !.cts = on, !.dsr = on]
  <2>1. seen' = seen /\ chip' = IF on THEN v
                                ELSE [ClearQueuedReceiveBytes(v) EXCEPT !.transmitted = <<>>]
    BY <1>12 DEF Plug, SetSerialConnected
  <2>2. on \in BOOLEAN
    OBVIOUS
  <2> HIDE DEF on
  <2>3. SameReceiver(chip, v) /\ v \in Chip
    <3>1. SameReceiver(chip, v)
      BY <1>1 DEF SameReceiver, SameHunt, Chip
    <3>2. v \in Chip
      BY <1>1, <2>2 DEF Chip
    <3> QED BY <3>1, <3>2
  <2> HIDE DEF v
  <2>4. CASE on
    BY <1>3, <2>1, <2>3, <2>4
  <2>5. CASE ~on
    <3> DEFINE w == ClearQueuedReceiveBytes(v)
    <3>1. w = [v EXCEPT !.queue = <<>>, !.line = <<>>, !.line_clocks = 0,
                        !.receive_phase = "idle", !.receive_clocks = 0,
                        !.pending_parity_error = FALSE, !.rxd = TRUE]
      BY DEF ClearQueuedReceiveBytes
    <3>2. chip' = [w EXCEPT !.transmitted = <<>>]
      BY <2>1, <2>5
    <3>3. /\ chip'.mode = v.mode /\ chip'.phase = v.phase /\ chip'.syncs = v.syncs
          /\ chip'.receive_phase = "idle" /\ chip'.shift = v.shift /\ SameHunt(v, chip')
      BY <2>3, <3>1, <3>2 DEF Chip, SameHunt
    <3>4. HuntOK(v) /\ Exact(v, seen)
      BY <1>1, <2>3, SameReceiverHunts
    <3> HIDE DEF w
    <3> QED BY <2>1, <3>3, <3>4
            DEF HuntOK, HuntSet, Exact, SameHunt, Synchronous
  <2> QED BY <2>4, <2>5
<1>13. CASE ClearToSend
  <2> DEFINE clear == chip.dsr /\ ~chip.cts
  <2>1. chip' = [chip EXCEPT !.cts = clear] /\ seen' = seen
    BY <1>13 DEF ClearToSend, SetSerialClearToSend
  <2> HIDE DEF clear
  <2> QED BY <1>1, <1>3, <2>1 DEF SameReceiver, SameHunt, Chip
<1>14. CASE MachineReset
  <2>1. chip' = ResetChip(chip.cts, chip.dsr)
    BY <1>14 DEF MachineReset
  <2>2. /\ ~chip'.sync_hunt /\ ~chip'.sync_detected /\ chip'.syncs = <<>>
        /\ chip'.receive_phase = "idle"
    BY <2>1 DEF ResetChip
  <2> QED BY <2>2, EmptySeq, NotHunting DEF HuntOK, HuntSet
<1>15. CASE UNCHANGED vars
  BY <1>3, <1>4, <1>15 DEF vars
<1> QED BY <1>5, <1>6, <1>7, <1>8, <1>9, <1>10, <1>11, <1>12, <1>13, <1>14, <1>15 DEF Next

(* In every hunt, with any SYNC characters and commands in between, the    *)
(* index says what the last character matched, and SYNDET says that all    *)
(* the SYNC characters have come.                                          *)
THEOREM HuntAlwaysExact == Spec => []HuntIsExact
<1>1. Init => HuntInv
  <2> SUFFICES ASSUME Init PROVE HuntInv
    OBVIOUS
  <2>1. /\ ~chip.sync_hunt /\ ~chip.sync_detected /\ chip.syncs = <<>>
        /\ chip.receive_phase = "idle"
    BY DEF Init, ResetChip
  <2> QED BY <2>1, InitChip, EmptySeq, NotHunting DEF HuntInv, HuntOK, HuntSet
<1>2. HuntInv /\ [Next]_vars => HuntInv'
  BY StepHunt
<1>3. HuntInv => HuntIsExact
  BY DEF HuntInv, Exact, HuntIsExact
<1> QED BY <1>1, <1>2, <1>3, PTL DEF Spec

----------------------------------------------------------------------------
(* What is written leaves: the edges that remain.                          *)

(* The length of a frame depends on the mode alone.                        *)
FrameBits(u) ==
  (IF Synchronous(u) THEN 0 ELSE 1) + CharacterBits(u)
    + (IF ParityEnabled(u) THEN 1 ELSE 0) + (IF Synchronous(u) THEN 0 ELSE StopBits(u))

LEMMA FrameLength ==
  ASSUME NEW u, u.mode \in Byte, NEW bits
  PROVE  Len(Frame(u, bits)) = FrameBits(u) /\ FrameBits(u) \in Nat /\ FrameBits(u) > 0
<1> DEFINE data == Masked(u, bits)
           start == IF Synchronous(u) THEN <<>> ELSE <<FALSE>>
           parity == IF ParityEnabled(u) THEN <<ParityBit(u, data)>> ELSE <<>>
           stop == IF Synchronous(u) THEN <<>> ELSE [i \in 1 .. StopBits(u) |-> TRUE]
<1>1. data \in Seq(BOOLEAN) /\ Len(data) = CharacterBits(u)
  BY MaskedType
<1>2. /\ CharacterBits(u) \in Nat /\ CharacterBits(u) > 0 /\ StopBits(u) \in Nat
  <2>1. CharacterBits(u) \in 1 .. 8 /\ StopBits(u) \in 1 .. 2
    BY WordType
  <2> QED BY <2>1
<1>3. start \in Seq(BOOLEAN) /\ Len(start) = IF Synchronous(u) THEN 0 ELSE 1
  <2>1. <<FALSE>> \in Seq(BOOLEAN) /\ Len(<<FALSE>>) = 1
    OBVIOUS
  <2> QED BY <2>1, EmptySeq
<1>4. parity \in Seq(BOOLEAN) /\ Len(parity) = IF ParityEnabled(u) THEN 1 ELSE 0
  <2> DEFINE bit == ParityBit(u, data)
  <2>1. bit \in BOOLEAN
    BY Zenon DEF ParityBit, Odd
  <2> HIDE DEF bit
  <2>2. <<bit>> \in Seq(BOOLEAN) /\ Len(<<bit>>) = 1
    BY <2>1
  <2> QED BY <2>2, EmptySeq DEF bit
<1>5. stop \in Seq(BOOLEAN) /\ Len(stop) = IF Synchronous(u) THEN 0 ELSE StopBits(u)
  <2> DEFINE n == StopBits(u)
  <2>1. n \in Nat
    BY <1>2
  <2> HIDE DEF n
  <2>2. [i \in 1 .. n |-> TRUE] \in Seq(BOOLEAN) /\ Len([i \in 1 .. n |-> TRUE]) = n
    BY <2>1
  <2> QED BY <2>2, EmptySeq DEF n
<1>6. Frame(u, bits) = start \o data \o parity \o stop
  BY Zenon DEF Frame
<1> HIDE DEF data, start, parity, stop
<1>7. start \o data \in Seq(BOOLEAN) /\ Len(start \o data) = Len(start) + Len(data)
  BY <1>1, <1>3, ConcatProperties
<1>8. /\ start \o data \o parity \in Seq(BOOLEAN)
      /\ Len(start \o data \o parity) = Len(start) + Len(data) + Len(parity)
  <2> DEFINE a == start \o data
  <2>1. a \in Seq(BOOLEAN)
    BY <1>7
  <2> HIDE DEF a
  <2>2. a \o parity \in Seq(BOOLEAN) /\ Len(a \o parity) = Len(a) + Len(parity)
    BY <1>4, <2>1, ConcatProperties
  <2> QED BY <1>7, <2>2 DEF a
<1>9. Len(start \o data \o parity \o stop)
        = Len(start) + Len(data) + Len(parity) + Len(stop)
  BY <1>5, <1>8, ConcatProperties
<1>10. Len(Frame(u, bits))
         = (IF Synchronous(u) THEN 0 ELSE 1) + CharacterBits(u)
             + (IF ParityEnabled(u) THEN 1 ELSE 0) + (IF Synchronous(u) THEN 0 ELSE StopBits(u))
  BY <1>1, <1>3, <1>4, <1>5, <1>6, <1>9
<1>11. FrameBits(u) \in Nat /\ FrameBits(u) > 0
  BY <1>2 DEF FrameBits
<1> QED BY <1>10, <1>11, Zenon DEF FrameBits

(* The clocks of a bit are counted below the factor, and what remains of a *)
(* frame is shorter than the frame.                                        *)
SendOK(u) ==
  /\ u.transmit_clocks < BaudFactor(u)
  /\ u.phase = "mode" => BaudFactor(u) = 1
  /\ u.transmit_active => Len(u.transmit_frame) < FrameBits(u)

(* The edges until the transmitter is free to take a character.            *)
EdgesLeft(u) ==
  BaudFactor(u) * (IF u.transmit_active THEN Len(u.transmit_frame) + 1 ELSE 1)
    - u.transmit_clocks

SameTransmitter(u, v) ==
  /\ v.mode = u.mode /\ v.phase = u.phase /\ v.transmit_clocks = u.transmit_clocks
  /\ v.transmit_active = u.transmit_active /\ v.transmit_frame = u.transmit_frame

LEMMA SameTransmitterSends ==
  ASSUME NEW u, NEW v, SameTransmitter(u, v), SendOK(u)
  PROVE  SendOK(v) /\ EdgesLeft(v) = EdgesLeft(u)
BY DEF SameTransmitter, SendOK, EdgesLeft, BaudFactor, FrameBits, Synchronous, CharacterBits,
       ParityEnabled, StopBits

LEMMA EdgesLeftBound ==
  ASSUME NEW u \in Chip, SendOK(u)
  PROVE  /\ EdgesLeft(u) \in Nat /\ EdgesLeft(u) > 0
         /\ EdgesLeft(u) <= BaudFactor(u) * FrameBits(u)
         /\ BaudFactor(u) * FrameBits(u) \in Nat
<1> DEFINE b == BaudFactor(u)
           n == IF u.transmit_active THEN Len(u.transmit_frame) + 1 ELSE 1
           m == FrameBits(u)
           c == u.transmit_clocks
<1>1. b \in Nat /\ b > 0 /\ m \in Nat /\ m > 0 /\ c \in Nat /\ u.transmit_frame \in Seq(BOOLEAN)
  BY FieldsOf, WordType, FrameLength DEF Chip
<1>2. n \in Nat /\ n > 0 /\ n <= m /\ c < b
  <2>1. Len(u.transmit_frame) \in Nat
    BY <1>1, LenProperties
  <2> DEFINE k == Len(u.transmit_frame)
  <2>2. u.transmit_active => k < m
    BY DEF SendOK
  <2>3. c < b
    BY DEF SendOK
  <2> HIDE DEF k, m, c, b
  <2> QED BY <1>1, <2>1, <2>2, <2>3 DEF k
<1>3. EdgesLeft(u) = b * n - c
  BY DEF EdgesLeft
<1> HIDE DEF b, n, m, c
<1>4. b * n <= b * m /\ b * n >= b /\ b * n \in Nat /\ b * m \in Nat
  BY <1>1, <1>2
<1>5. b * n - c \in Nat /\ b * n - c > 0 /\ b * n - c <= b * m
  <2> DEFINE x == b * n
             y == b * m
  <2>1. x \in Nat /\ y \in Nat /\ x <= y /\ x >= b
    BY <1>4
  <2> HIDE DEF x, y
  <2>2. x - c \in Nat /\ x - c > 0 /\ x - c <= y
    BY <1>1, <1>2, <2>1
  <2> QED BY <2>2 DEF x, y
<1> QED BY <1>3, <1>4, <1>5 DEF b, m

(* A bit of TxC: a character in the buffer is loaded unless a frame has    *)
(* more bits to come.                                                      *)
LEMMA AdvanceTransmitterSends ==
  ASSUME NEW u, ChipOK(u), u.transmit_active => Len(u.transmit_frame) < FrameBits(u)
  PROVE  LET v == AdvanceTransmitter(u)
         IN /\ v.mode = u.mode /\ v.phase = u.phase /\ v.transmit_clocks = u.transmit_clocks
            /\ v.transmit_active => Len(v.transmit_frame) < FrameBits(u)
            /\ Sends(u) /\ v.transmit_buffer # <<>> =>
                 /\ u.transmit_active /\ v.transmit_active
                 /\ Len(v.transmit_frame) + 1 = Len(u.transmit_frame)
<1> DEFINE f == FinishFrame(u)
           b == BeginFrame(f)
           v == AdvanceTransmitter(u)
           level == Head(b.transmit_frame)
           rest == Tail(b.transmit_frame)
<1>1. u \in Chip /\ u.mode \in Byte /\ u.transmit_frame \in Seq(BOOLEAN)
  BY BoundsOf, FieldsOf
<1>2. v = IF b.transmit_active THEN [b EXCEPT !.txd = level, !.transmit_frame = rest]
          ELSE [b EXCEPT !.txd = TRUE]
  BY DEF AdvanceTransmitter
<1>3. /\ ChipOK(f) /\ ChipOK(b) /\ f \in Chip /\ b \in Chip
      /\ (b.transmit_active => b.transmit_frame # <<>>)
  BY FinishFrameType, BeginFrameType, BoundsOf
<1>4. b.transmit_frame \in Seq(BOOLEAN) /\
        (b.transmit_active => Len(rest) + 1 = Len(b.transmit_frame) /\ Len(rest) \in Nat)
  <2>1. b.transmit_frame \in Seq(BOOLEAN)
    BY <1>3, FieldsOf
  <2> DEFINE frame == b.transmit_frame
  <2>2. frame \in Seq(BOOLEAN) /\ (b.transmit_active => frame # <<>>)
    BY <1>3, <2>1
  <2> HIDE DEF frame, b
  <2>3. b.transmit_active => Len(Tail(frame)) = Len(frame) - 1 /\ Tail(frame) \in Seq(BOOLEAN)
    BY <2>2, HeadTailProperties
  <2>4. Len(frame) \in Nat
    BY <2>2, LenProperties
  <2>5. b.transmit_active => Len(Tail(frame)) + 1 = Len(frame) /\ Len(Tail(frame)) \in Nat
    BY <2>2, <2>3, <2>4, LenProperties
  <2> QED BY <2>1, <2>5 DEF frame
<1> HIDE DEF level, rest
<1>5. /\ v.mode = b.mode /\ v.phase = b.phase /\ v.transmit_clocks = b.transmit_clocks
      /\ v.transmit_buffer = b.transmit_buffer /\ v.transmit_active = b.transmit_active
      /\ b.transmit_active => v.transmit_frame = rest
  <2> HIDE DEF b, v
  <2> QED BY <1>2, <1>3 DEF Chip
<1>6. \/ f = u /\ (u.transmit_active => u.transmit_frame # <<>>)
      \/ /\ ~f.transmit_active /\ f.mode = u.mode /\ f.phase = u.phase
         /\ f.transmit_clocks = u.transmit_clocks /\ f.command = u.command
         /\ f.cts = u.cts
  <2>1. CASE u.transmit_active /\ u.transmit_frame = <<>>
    <3> DEFINE kept == IF u.transmit_payload /\ Len(u.transmitted) < UartCapacity
                       THEN Append(u.transmitted, u.transmit_character) ELSE u.transmitted
    <3>1. f = [u EXCEPT !.transmit_active = FALSE, !.transmitted = kept]
      BY <2>1 DEF FinishFrame
    <3> HIDE DEF kept, f
    <3> QED BY <1>1, <3>1 DEF Chip
  <2>2. CASE ~(u.transmit_active /\ u.transmit_frame = <<>>)
    BY <2>2 DEF FinishFrame
  <2> QED BY <2>1, <2>2
<1> HIDE DEF v, f
<1>7. CASE f.transmit_active
  <2>1. f = u /\ b = u
    BY <1>6, <1>7 DEF BeginFrame
  <2> HIDE DEF b
  <2>2. b.transmit_active /\ Len(v.transmit_frame) + 1 = Len(u.transmit_frame)
    BY <1>4, <1>5, <1>7, <2>1
  <2>3. Len(v.transmit_frame) < FrameBits(u)
    <3>1. Len(v.transmit_frame) \in Nat /\ FrameBits(u) \in Nat /\ Len(u.transmit_frame) < FrameBits(u)
      BY <1>1, <1>4, <1>5, <1>7, <2>1, FrameLength
    <3> DEFINE x == Len(v.transmit_frame)
               y == Len(u.transmit_frame)
               z == FrameBits(u)
    <3>2. x + 1 = y /\ y < z /\ x \in Nat /\ z \in Nat
      BY <2>2, <3>1
    <3> HIDE DEF x, y, z
    <3>3. x < z
      BY <3>2
    <3> QED BY <3>3 DEF x, z
  <2> QED BY <1>5, <1>7, <2>1, <2>2, <2>3 DEF v
<1>8. CASE ~f.transmit_active
  <2>1. /\ f.mode = u.mode /\ f.phase = u.phase /\ f.transmit_clocks = u.transmit_clocks
        /\ f.command = u.command /\ f.cts = u.cts
    BY <1>6
  <2>2. SUFFICES /\ b.mode = f.mode /\ b.phase = f.phase
                 /\ b.transmit_clocks = f.transmit_clocks
                 /\ b.transmit_active => Len(b.transmit_frame) = FrameBits(f)
                 /\ TransmitterEnabled(f) /\ f.cts => b.transmit_buffer = <<>>
    <3>1. FrameBits(f) = FrameBits(u)
      BY <2>1 DEF FrameBits, Synchronous, CharacterBits, ParityEnabled, StopBits
    <3>2. Sends(u) => TransmitterEnabled(f) /\ f.cts
      BY <2>1 DEF Sends, TransmitterEnabled
    <3> HIDE DEF b
    <3>3. v.transmit_active => Len(v.transmit_frame) < FrameBits(u)
      <4> SUFFICES ASSUME b.transmit_active PROVE Len(rest) < FrameBits(u)
        BY <1>5
      <4>1. Len(rest) + 1 = FrameBits(u) /\ Len(rest) \in Nat
        BY <1>4, <2>2, <3>1
      <4> QED BY <4>1
    <3> QED BY <1>5, <2>1, <2>2, <3>2, <3>3 DEF v
  <2>3. CASE ~(TransmitterEnabled(f) /\ f.cts)
    BY <1>8, <2>3 DEF BeginFrame
  <2>4. CASE TransmitterEnabled(f) /\ f.cts /\ f.transmit_buffer # <<>>
    <3> DEFINE a == [f EXCEPT !.transmit_buffer = <<>>]
               bits == f.transmit_buffer[1]
               frame == Frame(a, bits)
    <3>1. b = LoadFrame(a, bits, TRUE)
      BY <1>8, <2>4 DEF BeginFrame
    <3>2. b = [a EXCEPT !.transmit_frame = frame, !.transmit_character = bits,
                        !.transmit_payload = TRUE, !.transmit_active = TRUE]
      BY <3>1 DEF LoadFrame
    <3>3. a.mode = f.mode /\ f.mode = u.mode
      BY <1>3, <2>1 DEF Chip
    <3>4. Len(frame) = FrameBits(a)
      BY <1>1, <3>3, FrameLength
    <3>5. FrameBits(a) = FrameBits(f)
      BY <3>3 DEF FrameBits, Synchronous, CharacterBits, ParityEnabled, StopBits
    <3> HIDE DEF frame, bits, b
    <3>6. /\ b.mode = f.mode /\ b.phase = f.phase /\ b.transmit_clocks = f.transmit_clocks
          /\ b.transmit_frame = frame /\ b.transmit_buffer = <<>>
      BY <1>3, <3>2 DEF Chip
    <3> HIDE DEF a
    <3> QED BY <3>4, <3>5, <3>6 DEF b
  <2>5. CASE TransmitterEnabled(f) /\ f.cts /\ ~(f.transmit_buffer # <<>>) /\ Synchronous(f)
    <3> DEFINE next == (f.sync_transmit_index + 1) % Len(f.syncs)
               a == [f EXCEPT !.sync_transmit_index = next]
               bits == f.syncs[f.sync_transmit_index + 1]
               frame == Frame(a, bits)
    <3>1. b = LoadFrame(a, bits, FALSE)
      BY <1>8, <2>5 DEF BeginFrame
    <3>2. b = [a EXCEPT !.transmit_frame = frame, !.transmit_character = bits,
                        !.transmit_payload = FALSE, !.transmit_active = TRUE]
      BY <3>1 DEF LoadFrame
    <3> HIDE DEF next
    <3>3. a.mode = f.mode /\ f.mode = u.mode
      BY <1>3, <2>1 DEF Chip
    <3>4. Len(frame) = FrameBits(a)
      BY <1>1, <3>3, FrameLength
    <3>5. FrameBits(a) = FrameBits(f)
      BY <3>3 DEF FrameBits, Synchronous, CharacterBits, ParityEnabled, StopBits
    <3> HIDE DEF frame, bits, b
    <3>6. /\ b.mode = f.mode /\ b.phase = f.phase /\ b.transmit_clocks = f.transmit_clocks
          /\ b.transmit_frame = frame /\ b.transmit_buffer = f.transmit_buffer
      BY <1>3, <3>2 DEF Chip
    <3> HIDE DEF a
    <3> QED BY <2>5, <3>4, <3>5, <3>6 DEF b
  <2>6. CASE TransmitterEnabled(f) /\ f.cts /\ ~(f.transmit_buffer # <<>>) /\ ~Synchronous(f)
    BY <1>8, <2>6 DEF BeginFrame
  <2> QED BY <2>3, <2>4, <2>5, <2>6
<1> QED BY <1>7, <1>8

LEMMA ClockTransmitSends ==
  ASSUME NEW u, ChipOK(u), SendOK(u)
  PROVE  LET v == ClockTransmit(u)
         IN /\ SendOK(v) /\ v.mode = u.mode
            /\ Sends(u) /\ v.transmit_buffer # <<>> => EdgesLeft(v) + 1 = EdgesLeft(u)
<1> DEFINE v == ClockTransmit(u)
<1>1. /\ u \in Chip /\ u.transmit_clocks \in Nat /\ u.transmit_frame \in Seq(BOOLEAN)
      /\ BaudFactor(u) \in Nat /\ BaudFactor(u) > 0 /\ u.transmit_clocks < BaudFactor(u)
  BY BoundsOf, FieldsOf, WordType DEF Chip, SendOK
<1>2. CASE SendsBreak(u)
  <2>1. v = [u EXCEPT !.txd = FALSE]
    BY <1>2 DEF ClockTransmit
  <2>2. SameTransmitter(u, v)
    BY <1>1, <2>1 DEF Chip, SameTransmitter
  <2>3. ~Sends(u)
    BY <1>2 DEF Sends
  <2> HIDE DEF v
  <2> QED BY <2>2, <2>3, SameTransmitterSends DEF SameTransmitter, v
<1>3. CASE ~SendsBreak(u) /\ u.transmit_clocks + 1 < BaudFactor(u)
  <2> DEFINE c == u.transmit_clocks + 1
  <2>1. v = [u EXCEPT !.transmit_clocks = c]
    BY <1>3 DEF ClockTransmit
  <2> HIDE DEF c, v
  <2>2. /\ v.mode = u.mode /\ v.phase = u.phase /\ v.transmit_clocks = c
        /\ v.transmit_active = u.transmit_active /\ v.transmit_frame = u.transmit_frame
    BY <1>1, <2>1 DEF Chip
  <2>3. BaudFactor(v) = BaudFactor(u) /\ FrameBits(v) = FrameBits(u)
    BY <2>2 DEF BaudFactor, FrameBits, Synchronous, CharacterBits, ParityEnabled, StopBits
  <2>4. SendOK(v)
    BY <1>3, <2>2, <2>3 DEF SendOK, c
  <2>5. EdgesLeft(v) + 1 = EdgesLeft(u)
    <3> DEFINE x == BaudFactor(u) * (IF u.transmit_active THEN Len(u.transmit_frame) + 1 ELSE 1)
    <3>1. EdgesLeft(v) = x - c /\ EdgesLeft(u) = x - u.transmit_clocks
      BY <2>2, <2>3 DEF EdgesLeft
    <3>2. x \in Int
      <4>1. Len(u.transmit_frame) \in Nat
        BY <1>1, LenProperties
      <4> DEFINE k == IF u.transmit_active THEN Len(u.transmit_frame) + 1 ELSE 1
                 f == BaudFactor(u)
      <4>2. k \in Nat /\ f \in Nat
        BY <1>1, <4>1
      <4> HIDE DEF k, f
      <4>3. f * k \in Int
        BY <4>2
      <4> QED BY <4>3 DEF k, f
    <3> HIDE DEF x
    <3> QED BY <1>1, <3>1, <3>2 DEF c
  <2> QED BY <2>2, <2>4, <2>5 DEF v
<1>4. CASE ~SendsBreak(u) /\ ~(u.transmit_clocks + 1 < BaudFactor(u))
  <2> DEFINE w == [u EXCEPT !.transmit_clocks = 0]
  <2>1. v = AdvanceTransmitter(w)
    BY <1>4 DEF ClockTransmit
  <2>2. /\ w \in Chip /\ w.transmit_clocks = 0
        /\ w.mode = u.mode /\ w.phase = u.phase /\ w.syncs = u.syncs
        /\ w.sync_transmit_index = u.sync_transmit_index
        /\ w.transmit_buffer = u.transmit_buffer /\ w.queue = u.queue
        /\ w.transmitted = u.transmitted /\ w.line = u.line /\ w.rxd = u.rxd
        /\ w.transmit_active = u.transmit_active /\ w.transmit_frame = u.transmit_frame
        /\ w.command = u.command /\ w.cts = u.cts
    BY <1>1 DEF Chip
  <2> HIDE DEF w, v
  <2>3. ChipOK(w)
    BY <2>2, BoundsOf, KeepsOK
  <2>4. FrameBits(w) = FrameBits(u)
    BY <2>2 DEF FrameBits, Synchronous, CharacterBits, ParityEnabled, StopBits
  <2>5. w.transmit_active => Len(w.transmit_frame) < FrameBits(w)
    BY <2>2, <2>4 DEF SendOK
  <2>6. Sends(u) => Sends(w)
    BY <2>2 DEF Sends, TransmitterEnabled, SendsBreak
  <2>7. /\ v.mode = u.mode /\ v.phase = u.phase /\ v.transmit_clocks = 0
        /\ v.transmit_active => Len(v.transmit_frame) < FrameBits(u)
        /\ Sends(u) /\ v.transmit_buffer # <<>> =>
             /\ u.transmit_active /\ v.transmit_active
             /\ Len(v.transmit_frame) + 1 = Len(u.transmit_frame)
    BY <2>1, <2>2, <2>3, <2>4, <2>5, <2>6, AdvanceTransmitterSends
  <2>8. BaudFactor(v) = BaudFactor(u) /\ FrameBits(v) = FrameBits(u)
    BY <2>7 DEF BaudFactor, FrameBits, Synchronous, CharacterBits, ParityEnabled, StopBits
  <2>9. SendOK(v)
    BY <1>1, <2>7, <2>8 DEF SendOK
  <2>10. ASSUME Sends(u), v.transmit_buffer # <<>>
         PROVE  EdgesLeft(v) + 1 = EdgesLeft(u)
    <3> DEFINE f == BaudFactor(u)
               n == Len(u.transmit_frame)
    <3>1. Len(v.transmit_frame) + 1 = n /\ u.transmit_active /\ v.transmit_active
      BY <2>7, <2>10
    <3>2. EdgesLeft(v) = f * n - 0
      BY <2>7, <2>8, <3>1 DEF EdgesLeft
    <3>3. EdgesLeft(u) = f * (n + 1) - u.transmit_clocks
      BY <3>1 DEF EdgesLeft
    <3>4. n \in Nat /\ f \in Nat /\ f = u.transmit_clocks + 1
      BY <1>1, <1>4, LenProperties
    <3> HIDE DEF f, n
    <3>5. f * (n + 1) = f * n + f /\ f * n \in Nat
      BY <3>4
    <3> DEFINE x == f * n
               y == f * (n + 1)
    <3>6. x \in Nat /\ y = x + f /\ EdgesLeft(v) = x - 0 /\ EdgesLeft(u) = y - u.transmit_clocks
      <4>1. x \in Nat /\ y = x + f
        BY <3>5
      <4>2. EdgesLeft(v) = x - 0
        BY <3>2
      <4>3. EdgesLeft(u) = y - u.transmit_clocks
        BY <3>3
      <4> QED BY <4>1, <4>2, <4>3
    <3>7. u.transmit_clocks \in Nat
      BY <1>1
    <3> DEFINE k == u.transmit_clocks
    <3> HIDE DEF x, y, k
    <3>8. k \in Nat /\ f \in Nat /\ f = k + 1
      BY <3>4, <3>7 DEF k
    <3>9. (x - 0) + 1 = y - k
      BY <3>6, <3>8
    <3> QED BY <3>6, <3>9 DEF k
  <2> QED BY <2>7, <2>9, <2>10 DEF v
<1> QED BY <1>2, <1>3, <1>4

LEMMA ResetSends ==
  ASSUME NEW cts, NEW dsr
  PROVE  SendOK(ResetChip(cts, dsr)) /\ EdgesLeft(ResetChip(cts, dsr)) = 1
<1> DEFINE v == ResetChip(cts, dsr)
<1>1. /\ v.transmit_clocks = 0 /\ ~v.transmit_active /\ v.mode = Zero
  BY DEF ResetChip
<1> HIDE DEF v
<1>2. BaudFactor(v) = 1
  BY <1>1 DEF BaudFactor, Zero
<1> QED BY <1>1, <1>2 DEF SendOK, EdgesLeft, v

LEMMA AcceptCommandTransmits ==
  ASSUME NEW u, ChipOK(u), NEW value \in Byte, ~value[7]
  PROVE  SameTransmitter(u, AcceptCommand(u, value))
<1> DEFINE stored == [u EXCEPT !.command = value]
           v == AcceptCommand(u, value)
<1>1. Outside(stored, v)
  BY AcceptCommandType
<1>2. /\ stored.mode = u.mode /\ stored.phase = u.phase
      /\ stored.transmit_clocks = u.transmit_clocks
      /\ stored.transmit_active = u.transmit_active /\ stored.transmit_frame = u.transmit_frame
  BY BoundsOf DEF Chip
<1> HIDE DEF stored, v
<1> QED BY <1>1, <1>2 DEF Outside, SameTransmitter, v

(* AcceptMode and the resets leave no frame, and the commands none other.  *)
LEMMA WriteControlSends ==
  ASSUME NEW u, ChipOK(u), SendOK(u), NEW value \in Byte
  PROVE  SendOK(WriteControl(u, value))
<1> DEFINE v == WriteControl(u, value)
<1>1. u \in Chip /\ u.phase \in Phases /\ u.transmit_clocks \in Nat
  BY BoundsOf, FieldsOf DEF Chip
<1>2. \A w : w.mode \in Byte => BaudFactor(w) \in Nat /\ BaudFactor(w) > 0
  BY WordType
<1>3. CASE u.phase = "mode"
  <2> DEFINE w == [u EXCEPT !.mode = value, !.command = Zero, !.transmit_buffer = <<>>,
                            !.transmit_active = FALSE, !.receive_ready = FALSE,
                            !.receive_phase = "idle", !.sync_detected = FALSE,
                            !.sync_hunt = FALSE, !.syncs = <<>>]
             phase == IF Synchronous(w) THEN "sync1" ELSE "command"
  <2>1. v = [w EXCEPT !.phase = phase]
    BY <1>3 DEF WriteControl, AcceptMode
  <2>2. phase # "mode"
    OBVIOUS
  <2> HIDE DEF phase, v
  <2>3. v.mode = value /\ v.phase = phase /\ ~v.transmit_active
          /\ v.transmit_clocks = u.transmit_clocks
    BY <1>1, <2>1 DEF Chip
  <2>4. u.transmit_clocks = 0
    BY <1>1, <1>3 DEF SendOK
  <2>5. BaudFactor(v) > 0
    BY <1>2, <2>3
  <2> QED BY <2>2, <2>3, <2>4, <2>5 DEF SendOK, v
<1>4. CASE u.phase \in {"sync1", "sync2"}
  <2> DEFINE one == u.phase = "sync1"
             next == IF one /\ ~OneSync(u) THEN "sync2" ELSE "command"
             syncs == IF one THEN <<value>> ELSE <<u.syncs[1], value>>
  <2>1. v = [u EXCEPT !.syncs = syncs, !.phase = next]
    BY <1>4 DEF WriteControl
  <2>2. next # "mode"
    OBVIOUS
  <2> HIDE DEF next, syncs, v
  <2>3. /\ v.mode = u.mode /\ v.phase = next /\ v.transmit_clocks = u.transmit_clocks
        /\ v.transmit_active = u.transmit_active /\ v.transmit_frame = u.transmit_frame
    BY <1>1, <2>1 DEF Chip
  <2>4. BaudFactor(v) = BaudFactor(u) /\ FrameBits(v) = FrameBits(u)
    BY <2>3 DEF BaudFactor, FrameBits, Synchronous, CharacterBits, ParityEnabled, StopBits
  <2> QED BY <2>2, <2>3, <2>4 DEF SendOK, v
<1>5. CASE u.phase = "command"
  <2>1. v = AcceptCommand(u, value)
    BY <1>5 DEF WriteControl
  <2>2. CASE value[7]
    <3>1. v = ResetChip(u.cts, u.dsr)
      BY <2>1, <2>2, AcceptCommandType
    <3> QED BY <3>1, ResetSends DEF v
  <2>3. CASE ~value[7]
    <3>1. SameTransmitter(u, v)
      BY <2>1, <2>3, AcceptCommandTransmits
    <3> QED BY <3>1, SameTransmitterSends DEF v
  <2> QED BY <2>2, <2>3
<1> QED BY <1>1, <1>3, <1>4, <1>5 DEF Phases

(* WrittenIsSent is inductive with what remains of the frame in front.     *)
WaitInv ==
  /\ ChipInv
  /\ IF traffic = "send"
     THEN /\ SendOK(chip) /\ waited \in Nat
          /\ waited + EdgesLeft(chip) <= BaudFactor(chip) * FrameBits(chip)
     ELSE waited = 0

LEMMA StepWait == WaitInv /\ [Next]_vars => WaitInv'
<1> SUFFICES ASSUME WaitInv, [Next]_vars PROVE WaitInv'
  OBVIOUS
<1>1. /\ ChipInv' /\ ChipInv /\ ChipOK(chip) /\ chip \in Chip /\ ChipOK(chip') /\ chip' \in Chip
  <2>1. ChipInv /\ ChipInv'
    BY StepChip DEF WaitInv
  <2> QED BY <2>1, BoundsOf DEF ChipInv, TypeOK
<1>2. traffic' = traffic
  BY DEF Next, vars, WriteControlWord, WriteDataByte, ReadDataByte, TransmitEdge, ReceiveEdge,
         QueueByte, TakeByte, Plug, ClearToSend, MachineReset
<1>3. CASE traffic # "send"
  <2>1. waited = 0
    BY <1>3 DEF WaitInv
  <2>2. waited' = 0
    BY <1>3, <2>1 DEF Next, vars, WriteControlWord, WriteDataByte, ReadDataByte, TransmitEdge,
                      ReceiveEdge, QueueByte, TakeByte, Plug, ClearToSend, MachineReset
  <2> QED BY <1>1, <1>2, <1>3, <2>2 DEF WaitInv
<1>4. CASE traffic = "send"
  <2>1. SendOK(chip) /\ waited \in Nat
          /\ waited + EdgesLeft(chip) <= BaudFactor(chip) * FrameBits(chip)
    BY <1>4 DEF WaitInv
  <2>2. SUFFICES /\ SendOK(chip') /\ waited' \in Nat
                 /\ waited' + EdgesLeft(chip') <= BaudFactor(chip') * FrameBits(chip')
    BY <1>1, <1>2, <1>4 DEF WaitInv
  <2>3. ASSUME SendOK(chip'), waited' = 0
        PROVE  /\ waited' \in Nat
               /\ waited' + EdgesLeft(chip') <= BaudFactor(chip') * FrameBits(chip')
    BY <1>1, <2>3, EdgesLeftBound
  <2>4. ASSUME SameTransmitter(chip, chip'), waited' = waited
        PROVE  /\ SendOK(chip') /\ waited' \in Nat
               /\ waited' + EdgesLeft(chip') <= BaudFactor(chip') * FrameBits(chip')
    <3>1. SendOK(chip') /\ EdgesLeft(chip') = EdgesLeft(chip)
      BY <2>1, <2>4, SameTransmitterSends
    <3>2. BaudFactor(chip') = BaudFactor(chip) /\ FrameBits(chip') = FrameBits(chip)
      BY <2>4 DEF SameTransmitter, BaudFactor, FrameBits, Synchronous, CharacterBits,
                  ParityEnabled, StopBits
    <3> QED BY <2>1, <2>4, <3>1, <3>2
  <2>5. CASE WriteControlWord
    <3>1. PICK value \in ControlWords(chip.phase) : chip' = WriteControl(chip, value)
      BY <2>5 DEF WriteControlWord
    <3>2. value \in Byte
      BY <1>1, <3>1, ControlWordsAreBytes, FieldsOf DEF ChipInv, TypeOK
    <3>3. SendOK(chip')
      BY <1>1, <2>1, <3>1, <3>2, WriteControlSends
    <3>4. waited' = 0
      BY <2>5 DEF WriteControlWord
    <3> QED BY <2>3, <3>3, <3>4
  <2>6. CASE WriteDataByte
    <3>1. PICK byte \in Data : chip' = WriteData(chip, byte)
      BY <2>6 DEF WriteDataByte
    <3>2. chip' = [chip EXCEPT !.transmit_buffer = <<Masked(chip, byte)>>] /\ waited' = waited
      BY <2>6, <3>1 DEF WriteData, WriteDataByte
    <3>3. SameTransmitter(chip, chip')
      BY <1>1, <3>2 DEF SameTransmitter, Chip
    <3> QED BY <2>4, <3>2, <3>3
  <2>7. CASE TransmitEdge
    <3>1. /\ chip' = ClockTransmit(chip)
          /\ waited' = IF chip'.transmit_buffer # <<>> /\ Sends(chip) THEN waited + 1 ELSE 0
      BY <2>7 DEF TransmitEdge
    <3>2. /\ SendOK(chip') /\ chip'.mode = chip.mode
          /\ Sends(chip) /\ chip'.transmit_buffer # <<>> =>
               EdgesLeft(chip') + 1 = EdgesLeft(chip)
      BY <1>1, <2>1, <3>1, ClockTransmitSends
    <3>3. CASE chip'.transmit_buffer # <<>> /\ Sends(chip)
      <4>1. BaudFactor(chip') = BaudFactor(chip) /\ FrameBits(chip') = FrameBits(chip)
        BY <3>2 DEF BaudFactor, FrameBits, Synchronous, CharacterBits, ParityEnabled, StopBits
      <4>2. /\ waited' = waited + 1 /\ EdgesLeft(chip') + 1 = EdgesLeft(chip)
            /\ EdgesLeft(chip') \in Nat
        BY <1>1, <3>1, <3>2, <3>3, EdgesLeftBound
      <4>3. waited' + EdgesLeft(chip') = waited + EdgesLeft(chip) /\ waited' \in Nat
        BY <2>1, <4>2
      <4> QED BY <2>1, <3>2, <4>1, <4>3
    <3>4. CASE ~(chip'.transmit_buffer # <<>> /\ Sends(chip))
      <4>1. waited' = 0
        BY <3>1, <3>4
      <4> QED BY <2>3, <3>2, <4>1
    <3> QED BY <3>3, <3>4
  <2>8. CASE TakeByte
    <3> DEFINE rest == Tail(chip.transmitted)
    <3>1. chip' = [chip EXCEPT !.transmitted = rest] /\ waited' = waited
      BY <2>8 DEF TakeTransmittedByte, TakeByte
    <3> HIDE DEF rest
    <3>2. SameTransmitter(chip, chip')
      BY <1>1, <3>1 DEF SameTransmitter, Chip
    <3> QED BY <2>4, <3>1, <3>2
  <2>9. CASE Plug
    <3> DEFINE on == ~chip.dsr
               v == [chip EXCEPT !.cts = on, !.dsr = on]
    <3>1. waited' = 0 /\ chip' = IF on THEN v
                                 ELSE [ClearQueuedReceiveBytes(v) EXCEPT !.transmitted = <<>>]
      BY <2>9 DEF Plug, SetSerialConnected
    <3>2. on \in BOOLEAN
      OBVIOUS
    <3> HIDE DEF on
    <3>3. SameTransmitter(chip, v) /\ v \in Chip
      <4>1. SameTransmitter(chip, v)
        BY <1>1 DEF SameTransmitter, Chip
      <4>2. v \in Chip
        BY <1>1, <3>2 DEF Chip
      <4> QED BY <4>1, <4>2
    <3> HIDE DEF v
    <3>4. SameTransmitter(chip, chip')
      <4>1. CASE on
        BY <3>1, <3>3, <4>1
      <4>2. CASE ~on
        <5> DEFINE w == ClearQueuedReceiveBytes(v)
        <5>1. w = [v EXCEPT !.queue = <<>>, !.line = <<>>, !.line_clocks = 0,
                            !.receive_phase = "idle", !.receive_clocks = 0,
                            !.pending_parity_error = FALSE, !.rxd = TRUE]
          BY DEF ClearQueuedReceiveBytes
        <5>2. chip' = [w EXCEPT !.transmitted = <<>>]
          BY <3>1, <4>2
        <5>3. SameTransmitter(v, chip')
          BY <3>3, <5>1, <5>2 DEF SameTransmitter, Chip
        <5> QED BY <3>3, <5>3 DEF SameTransmitter
      <4> QED BY <4>1, <4>2
    <3>5. SendOK(chip')
      BY <2>1, <3>4, SameTransmitterSends
    <3> QED BY <2>3, <3>1, <3>5
  <2>10. CASE ClearToSend
    <3> DEFINE clear == chip.dsr /\ ~chip.cts
    <3>1. chip' = [chip EXCEPT !.cts = clear] /\ waited' = 0
      BY <2>10 DEF ClearToSend, SetSerialClearToSend
    <3> HIDE DEF clear
    <3>2. SameTransmitter(chip, chip')
      BY <1>1, <3>1 DEF SameTransmitter, Chip
    <3>3. SendOK(chip')
      BY <2>1, <3>2, SameTransmitterSends
    <3> QED BY <2>3, <3>1, <3>3
  <2>11. CASE MachineReset
    <3>1. chip' = ResetChip(chip.cts, chip.dsr) /\ waited' = 0
      BY <2>11 DEF MachineReset
    <3>2. SendOK(chip')
      BY <3>1, ResetSends
    <3> QED BY <2>3, <3>1, <3>2
  <2>12. CASE UNCHANGED vars
    <3>1. SameTransmitter(chip, chip') /\ waited' = waited
      BY <2>12 DEF vars, SameTransmitter
    <3> QED BY <2>4, <3>1
  <2>13. ~ReadDataByte /\ ~ReceiveEdge /\ ~QueueByte
    BY <1>4 DEF ReadDataByte, ReceiveEdge, QueueByte
  <2> QED BY <2>5, <2>6, <2>7, <2>8, <2>9, <2>10, <2>11, <2>12, <2>13 DEF Next
<1> QED BY <1>3, <1>4

(* Programmed in any way, the chip sends what is written within the time   *)
(* of one frame, as long as it may send.                                   *)
THEOREM WrittenAlwaysSent == Spec => []WrittenIsSent
<1>1. Init => WaitInv
  <2> SUFFICES ASSUME Init PROVE WaitInv
    OBVIOUS
  <2>1. waited = 0 /\ ChipInv
    BY InitChip DEF Init
  <2>2. SendOK(chip) /\ chip \in Chip
    <3>1. chip = ResetChip(TRUE, FALSE)
      BY DEF Init
    <3> QED BY <2>1, <3>1, ResetSends, BoundsOf DEF ChipInv, TypeOK
  <2>3. EdgesLeft(chip) \in Nat /\ EdgesLeft(chip) <= BaudFactor(chip) * FrameBits(chip)
    BY <2>2, EdgesLeftBound
  <2>4. waited + EdgesLeft(chip) <= BaudFactor(chip) * FrameBits(chip)
    <3> DEFINE left == EdgesLeft(chip)
    <3>1. left \in Nat
      BY <2>3
    <3> HIDE DEF left
    <3>2. waited + left = left
      BY <2>1, <3>1
    <3> QED BY <2>3, <3>2 DEF left
  <2>5. waited \in Nat
    BY <2>1
  <2> QED BY <2>1, <2>2, <2>4, <2>5, Zenon DEF WaitInv
<1>2. WaitInv /\ [Next]_vars => WaitInv'
  BY StepWait
<1>3. WaitInv => WrittenIsSent
  <2> SUFFICES ASSUME WaitInv PROVE WrittenIsSent
    OBVIOUS
  <2>1. chip \in Chip
    BY BoundsOf DEF WaitInv, ChipInv, TypeOK
  <2>2. Len(Frame(chip, Zero)) = FrameBits(chip) /\ FrameBits(chip) \in Nat
          /\ BaudFactor(chip) \in Nat
    BY <2>1, FieldsOf, FrameLength, WordType
  <2>3. CASE traffic = "send"
    <3>1. /\ SendOK(chip) /\ waited \in Nat
          /\ waited + EdgesLeft(chip) <= BaudFactor(chip) * FrameBits(chip)
      BY <2>3 DEF WaitInv
    <3>2. EdgesLeft(chip) \in Nat /\ BaudFactor(chip) * FrameBits(chip) \in Nat
      BY <2>1, <3>1, EdgesLeftBound
    <3>3. waited <= BaudFactor(chip) * FrameBits(chip)
      BY <3>1, <3>2
    <3> QED BY <2>2, <3>3 DEF WrittenIsSent
  <2>4. CASE traffic # "send"
    <3>1. waited = 0
      BY <2>4 DEF WaitInv
    <3> DEFINE b == BaudFactor(chip)
               n == FrameBits(chip)
    <3>2. b \in Nat /\ n \in Nat
      BY <2>2
    <3> HIDE DEF b, n
    <3>3. b * n >= 0
      BY <3>2
    <3>4. waited <= b * n
      BY <3>1, <3>2, <3>3
    <3> QED BY <2>2, <3>4 DEF WrittenIsSent, b, n
  <2> QED BY <2>3, <2>4
<1> QED BY <1>1, <1>2, <1>3, PTL DEF Spec

----------------------------------------------------------------------------
(* A frame on RxD, followed bit by bit: with a factor above one the        *)
(* receiver looks at the middle of every bit.                              *)

LEMMA SequencesEqual ==
  ASSUME NEW S, NEW a \in Seq(S), NEW b \in Seq(S), Len(a) = Len(b),
         \A i \in 1 .. Len(a) : a[i] = b[i]
  PROVE  a = b
OBVIOUS

(* A character of the right length is what it is masked to.                *)
LEMMA MaskedIsItself ==
  ASSUME NEW u, u.mode \in Byte, NEW bits \in Seq(BOOLEAN), Len(bits) = CharacterBits(u)
  PROVE  Masked(u, bits) = bits
<1> DEFINE n == CharacterBits(u)
           m == Masked(u, bits)
<1>1. m \in Seq(BOOLEAN) /\ Len(m) = n /\ n \in 1 .. 8
  BY MaskedType, WordType
<1>2. ASSUME NEW i \in 1 .. n PROVE m[i] = bits[i]
  <2>1. m[i] = (i <= Len(bits) /\ bits[i])
    BY <1>2 DEF Masked
  <2>2. bits[i] \in BOOLEAN
    BY <1>1, <1>2, ElementOfSeq
  <2>3. i <= Len(bits)
    BY <1>1, <1>2
  <2> HIDE DEF m
  <2> QED BY <2>1, <2>2, <2>3
<1> HIDE DEF m, n
<1> QED BY <1>1, <1>2, SequencesEqual DEF m, n

LEMMA MaskedTwice ==
  ASSUME NEW u, u.mode \in Byte, NEW bits
  PROVE  Masked(u, Masked(u, bits)) = Masked(u, bits)
BY MaskedType, MaskedIsItself

(* The bits of an asynchronous frame.                                      *)
ParityBits(u) == IF ParityEnabled(u) THEN 1 ELSE 0

LEMMA FrameAsync ==
  ASSUME NEW u, u.mode \in Byte, ~Synchronous(u),
         NEW bits \in Seq(BOOLEAN), Len(bits) = CharacterBits(u)
  PROVE  LET f == Frame(u, bits)
             n == CharacterBits(u)
         IN /\ FrameBits(u) = 1 + n + ParityBits(u) + StopBits(u)
            /\ f[1] = FALSE
            /\ \A i \in 1 .. n : f[i + 1] = bits[i]
            /\ ParityEnabled(u) => f[n + 2] = ParityBit(u, bits)
            /\ \A i \in (2 + n + ParityBits(u)) .. FrameBits(u) : f[i] = TRUE
<1> DEFINE n == CharacterBits(u)
           p == ParityBits(u)
           q == StopBits(u)
           start == <<FALSE>>
           parity == IF ParityEnabled(u) THEN <<ParityBit(u, bits)>> ELSE <<>>
           stop == [i \in 1 .. q |-> TRUE]
           a == start \o bits
           b == a \o parity
           f == Frame(u, bits)
<1>1. n \in Nat /\ q \in Nat /\ p \in {0, 1}
  <2>1. n \in 1 .. 8 /\ q \in 1 .. 2
    BY WordType
  <2> QED BY <2>1 DEF ParityBits
<1>2. FrameBits(u) = 1 + n + p + q
  BY <1>1 DEF FrameBits, ParityBits
<1>3. f = b \o stop
  BY MaskedIsItself, Zenon DEF Frame
<1>4. start \in Seq(BOOLEAN) /\ Len(start) = 1 /\ start[1] = FALSE
  OBVIOUS
<1>5. parity \in Seq(BOOLEAN) /\ Len(parity) = p /\ (ParityEnabled(u) => parity[1] = ParityBit(u, bits))
  <2> DEFINE bit == ParityBit(u, bits)
  <2>1. bit \in BOOLEAN
    BY Zenon DEF ParityBit, Odd
  <2> HIDE DEF bit
  <2>2. <<bit>> \in Seq(BOOLEAN) /\ Len(<<bit>>) = 1 /\ <<bit>>[1] = bit
    BY <2>1
  <2>3. CASE ParityEnabled(u)
    BY <2>2, <2>3 DEF ParityBits, bit
  <2>4. CASE ~ParityEnabled(u)
    BY <2>4, EmptySeq DEF ParityBits
  <2> QED BY <2>3, <2>4
<1>6. stop \in Seq(BOOLEAN) /\ Len(stop) = q /\ \A i \in 1 .. q : stop[i] = TRUE
  <2> HIDE DEF q
  <2>1. stop \in Seq(BOOLEAN) /\ Len(stop) = q
    BY <1>1
  <2> QED BY <2>1
<1> HIDE DEF n, p, q, start, parity, stop, f
<1>7. /\ a \in Seq(BOOLEAN) /\ Len(a) = n + 1
      /\ a[1] = FALSE /\ \A i \in 1 .. n : a[i + 1] = bits[i]
  <2>1. Len(bits) = n
    BY DEF n
  <2>2. /\ a \in Seq(BOOLEAN) /\ Len(a) = 1 + n
        /\ \A i \in 1 .. (1 + n) : a[i] = IF i <= 1 THEN start[i] ELSE bits[i - 1]
    <3>1. /\ a \in Seq(BOOLEAN) /\ Len(a) = Len(start) + Len(bits)
          /\ \A i \in 1 .. Len(start) + Len(bits) :
               a[i] = IF i <= Len(start) THEN start[i] ELSE bits[i - Len(start)]
      BY <1>4, ConcatProperties, Zenon
    <3> HIDE DEF a
    <3> QED BY <1>4, <2>1, <3>1
  <2> HIDE DEF a
  <2>3. a[1] = start[1]
    BY <1>1, <2>2
  <2>4. ASSUME NEW i \in 1 .. n PROVE a[i + 1] = bits[i]
    <3>1. i + 1 \in 1 .. (1 + n) /\ ~(i + 1 <= 1) /\ (i + 1) - 1 = i
      BY <1>1, <2>4
    <3> QED BY <2>2, <3>1
  <2> QED BY <1>1, <1>4, <2>2, <2>3, <2>4
<1> HIDE DEF a
<1>8. /\ b \in Seq(BOOLEAN) /\ Len(b) = n + 1 + p
      /\ \A i \in 1 .. (n + 1) : b[i] = a[i]
      /\ ParityEnabled(u) => b[n + 2] = ParityBit(u, bits)
  <2>1. /\ b \in Seq(BOOLEAN) /\ Len(b) = (n + 1) + p
        /\ \A i \in 1 .. ((n + 1) + p) : b[i] = IF i <= n + 1 THEN a[i] ELSE parity[i - (n + 1)]
    <3>1. /\ b \in Seq(BOOLEAN) /\ Len(b) = Len(a) + Len(parity)
          /\ \A i \in 1 .. Len(a) + Len(parity) :
               b[i] = IF i <= Len(a) THEN a[i] ELSE parity[i - Len(a)]
      BY <1>5, <1>7, ConcatProperties, Zenon
    <3> HIDE DEF b
    <3> QED BY <1>5, <1>7, <3>1
  <2> HIDE DEF b
  <2>2. \A i \in 1 .. (n + 1) : b[i] = a[i]
    BY <1>1, <2>1
  <2>3. ASSUME ParityEnabled(u) PROVE b[n + 2] = ParityBit(u, bits)
    <3>1. p = 1
      BY <2>3 DEF p, ParityBits
    <3>2. n + 2 \in 1 .. ((n + 1) + p) /\ ~(n + 2 <= n + 1) /\ (n + 2) - (n + 1) = 1
      BY <1>1, <3>1
    <3>3. b[n + 2] = parity[1]
      BY <2>1, <3>2
    <3> QED BY <1>5, <2>3, <3>3
  <2> QED BY <1>1, <2>1, <2>2, <2>3
<1> HIDE DEF b
<1>9. \A i \in 1 .. ((n + 1 + p) + q) : f[i] = IF i <= n + 1 + p THEN b[i] ELSE stop[i - (n + 1 + p)]
  BY <1>3, <1>6, <1>8, ConcatProperties
<1>10. \A i \in 1 .. (n + 1) : f[i] = a[i]
  BY <1>1, <1>8, <1>9
<1>11. f[1] = FALSE
  <2>1. 1 \in 1 .. (n + 1)
    BY <1>1
  <2> QED BY <1>7, <1>10, <2>1
<1>12. ASSUME NEW i \in 1 .. n PROVE f[i + 1] = bits[i]
  <2>1. i + 1 \in 1 .. (n + 1)
    BY <1>1, <1>12
  <2> QED BY <1>7, <1>10, <1>12, <2>1
<1>13. ASSUME ParityEnabled(u) PROVE f[n + 2] = ParityBit(u, bits)
  <2>1. p = 1
    BY <1>13 DEF p, ParityBits
  <2>2. n + 2 \in 1 .. ((n + 1 + p) + q) /\ n + 2 <= n + 1 + p
    BY <1>1, <2>1
  <2>3. f[n + 2] = b[n + 2]
    BY <1>9, <2>2
  <2> QED BY <1>8, <1>13, <2>3
<1>14. ASSUME NEW i \in (2 + n + p) .. FrameBits(u) PROVE f[i] = TRUE
  <2>1. /\ i \in 1 .. ((n + 1 + p) + q) /\ ~(i <= n + 1 + p)
        /\ i - (n + 1 + p) \in 1 .. q
    BY <1>1, <1>2, <1>14
  <2>2. f[i] = stop[i - (n + 1 + p)]
    BY <1>9, <2>1
  <2> QED BY <1>6, <2>1, <2>2
<1> QED BY <1>2, <1>11, <1>12, <1>13, <1>14 DEF n, p, q, f

(* Division with remainder has one answer.                                 *)
LEMMA OneAnswer ==
  ASSUME NEW b \in Nat, NEW x \in Nat, NEW y \in Nat, NEW c \in 1 .. b, NEW d \in 1 .. b,
         x * b + c = y * b + d
  PROVE  x = y /\ c = d
<1>1. CASE x < y
  <2>1. y * b >= (x + 1) * b
    BY <1>1
  <2>2. (x + 1) * b = x * b + b
    OBVIOUS
  <2> DEFINE s == x * b
             t == y * b
  <2>3. s \in Nat /\ t \in Nat /\ t >= s + b /\ s + c = t + d
    BY <2>1, <2>2
  <2> HIDE DEF s, t
  <2> QED BY <2>3
<1>2. CASE y < x
  <2>1. x * b >= (y + 1) * b
    BY <1>2
  <2>2. (y + 1) * b = y * b + b
    OBVIOUS
  <2> DEFINE s == x * b
             t == y * b
  <2>3. s \in Nat /\ t \in Nat /\ s >= t + b /\ s + c = t + d
    BY <2>1, <2>2
  <2> HIDE DEF s, t
  <2> QED BY <2>3
<1>3. CASE x = y
  <2> DEFINE s == x * b
  <2>1. s \in Nat /\ s + c = s + d
    BY <1>3
  <2> HIDE DEF s
  <2> QED BY <1>3, <2>1
<1> QED BY <1>1, <1>2, <1>3

(* The edges the frame on the line still takes.                            *)
Ahead(u) == (Len(u.line) - 1) * BaudFactor(u) + u.line_clocks

(* The frame on RxD is the one of this character, cut off at the front.    *)
OnLine(u, d) ==
  /\ ~Synchronous(u) /\ BaudFactor(u) > 1
  /\ d[1] \in Seq(BOOLEAN) /\ Len(d[1]) = CharacterBits(u)
  /\ Len(u.line) \in 1 .. FrameBits(u) /\ u.line_clocks \in 1 .. BaudFactor(u)
  /\ \A i \in 1 .. Len(u.line) : u.line[i] = Frame(u, d[1])[(FrameBits(u) - Len(u.line)) + i]

(* The bits behind the one that is sampled next.                           *)
BitsAfter(u) ==
  CASE u.receive_phase = "start" -> CharacterBits(u) + ParityBits(u) + StopBits(u)
    [] u.receive_phase = "data" ->
         CharacterBits(u) + ParityBits(u) + StopBits(u) - (Len(u.shift) + 1)
    [] u.receive_phase = "parity" -> StopBits(u)
    [] u.receive_phase = "stop" -> StopBits(u) - 1

(* The receiver has what the line has shown, and takes the next sample     *)
(* half a bit before the end of that bit.                                  *)
Follows(u, d, ahead) ==
  /\ u.receive_phase \in {"start", "data", "parity", "stop"}
  /\ u.receive_clocks \in 1 .. BaudFactor(u)
  /\ ahead + 1 = BitsAfter(u) * BaudFactor(u) + (BaudFactor(u) - BaudFactor(u) \div 2)
                   + u.receive_clocks
  /\ u.receive_phase # "start" =>
       ~u.pending_parity_error /\ \A i \in 1 .. Len(u.shift) : u.shift[i] = d[1][i]
  /\ u.receive_phase = "data" => Len(u.shift) < CharacterBits(u)
  /\ u.receive_phase \in {"parity", "stop"} => Len(u.shift) = CharacterBits(u)
  /\ u.receive_phase = "parity" => ParityEnabled(u)

Tracked(u, d) ==
  /\ ReceiverEnabled(u) /\ OnLine(u, d)
  /\ IF u.receive_phase = "idle" THEN d[2] = 1 /\ Len(u.line) <= StopBits(u)
     ELSE d[2] = 0 /\ Follows(u, d, Ahead(u))

SameFollow(u, v) ==
  /\ v.mode = u.mode /\ v.receive_phase = u.receive_phase
  /\ v.receive_clocks = u.receive_clocks /\ v.shift = u.shift
  /\ v.pending_parity_error = u.pending_parity_error
SameLine(u, v) ==
  /\ v.mode = u.mode /\ v.line = u.line /\ v.line_clocks = u.line_clocks

LEMMA ModeSays ==
  ASSUME NEW u, NEW v, v.mode = u.mode
  PROVE  /\ BaudFactor(v) = BaudFactor(u) /\ FrameBits(v) = FrameBits(u)
         /\ Synchronous(v) = Synchronous(u) /\ CharacterBits(v) = CharacterBits(u)
         /\ ParityEnabled(v) = ParityEnabled(u) /\ ParityBits(v) = ParityBits(u)
         /\ StopBits(v) = StopBits(u)
         /\ \A bits : Masked(v, bits) = Masked(u, bits)
         /\ \A bits : Frame(v, bits) = Frame(u, bits)
<1>1. /\ BaudFactor(v) = BaudFactor(u) /\ FrameBits(v) = FrameBits(u)
      /\ Synchronous(v) = Synchronous(u) /\ CharacterBits(v) = CharacterBits(u)
      /\ ParityEnabled(v) = ParityEnabled(u) /\ ParityBits(v) = ParityBits(u)
      /\ StopBits(v) = StopBits(u) /\ EvenParity(v) = EvenParity(u)
  BY DEF BaudFactor, FrameBits, Synchronous, CharacterBits, ParityEnabled, ParityBits, StopBits,
         EvenParity
<1>2. ASSUME NEW bits PROVE Masked(v, bits) = Masked(u, bits)
  BY <1>1, Zenon DEF Masked
<1>3. ASSUME NEW bits PROVE Frame(v, bits) = Frame(u, bits)
  <2>1. \A b : ParityBit(v, b) = ParityBit(u, b)
    BY <1>1, Zenon DEF ParityBit
  <2>2. [i \in 1 .. StopBits(v) |-> TRUE] = [i \in 1 .. StopBits(u) |-> TRUE]
    BY <1>1
  <2> DEFINE data == Masked(u, bits)
             bit == ParityBit(u, data)
             stop == [i \in 1 .. StopBits(u) |-> TRUE]
  <2>3. Masked(v, bits) = data /\ ParityBit(v, data) = bit
          /\ [i \in 1 .. StopBits(v) |-> TRUE] = stop
    BY <1>2, <2>1, <2>2
  <2>4. Frame(u, bits) = (IF Synchronous(u) THEN <<>> ELSE <<FALSE>>) \o data
                           \o (IF ParityEnabled(u) THEN <<bit>> ELSE <<>>)
                           \o (IF Synchronous(u) THEN <<>> ELSE stop)
    BY Zenon DEF Frame
  <2>5. Frame(v, bits) = (IF Synchronous(v) THEN <<>> ELSE <<FALSE>>) \o data
                           \o (IF ParityEnabled(v) THEN <<bit>> ELSE <<>>)
                           \o (IF Synchronous(v) THEN <<>> ELSE stop)
    BY <2>3, Zenon DEF Frame
  <2> HIDE DEF data, bit, stop
  <2> QED BY <1>1, <2>4, <2>5
<1> QED BY <1>1, <1>2, <1>3

LEMMA FollowKept ==
  ASSUME NEW u, NEW v, SameFollow(u, v), NEW d, NEW ahead, Follows(u, d, ahead)
  PROVE  Follows(v, d, ahead)
<1>1. /\ BaudFactor(v) = BaudFactor(u) /\ CharacterBits(v) = CharacterBits(u)
      /\ ParityEnabled(v) = ParityEnabled(u) /\ ParityBits(v) = ParityBits(u)
      /\ StopBits(v) = StopBits(u)
  BY ModeSays DEF SameFollow
<1>2. BitsAfter(v) = BitsAfter(u)
  BY <1>1 DEF SameFollow, BitsAfter
<1> QED BY <1>1, <1>2 DEF SameFollow, Follows

LEMMA LineKept ==
  ASSUME NEW u, NEW v, SameLine(u, v), NEW d, OnLine(u, d)
  PROVE  OnLine(v, d) /\ Ahead(v) = Ahead(u)
BY ModeSays DEF SameLine, OnLine, Ahead

(* One edge: one bit time less, and the next bit when a bit is over.       *)
LEMMA LineAdvances ==
  ASSUME NEW u \in Chip, NEW d, OnLine(u, d)
  PROVE  LET v == AdvanceLine(u)
         IN \/ v.line = <<>> /\ Ahead(u) = 1 /\ v.mode = u.mode
            \/ v.line # <<>> /\ OnLine(v, d) /\ Ahead(v) + 1 = Ahead(u)
                 /\ Len(v.line) <= Len(u.line) /\ v.mode = u.mode
<1> DEFINE v == AdvanceLine(u)
           f == BaudFactor(u)
           n == Len(u.line)
           m == FrameBits(u)
           c == u.line_clocks
<1>1. /\ u.line \in Seq(BOOLEAN) /\ f \in Nat /\ f > 1 /\ n \in 1 .. m /\ m \in Nat /\ c \in 1 .. f
      /\ u.line # <<>> /\ u.mode \in Byte
  <2>1. u.line \in Seq(BOOLEAN) /\ u.mode \in Byte
    BY FieldsOf
  <2>2. f \in Nat /\ m \in Nat
    BY <2>1, WordType, FrameLength
  <2>3. n \in 1 .. m /\ c \in 1 .. f /\ f > 1
    BY DEF OnLine
  <2>4. n # 0
    BY <2>3
  <2>5. u.line # <<>>
    BY <2>4, EmptySeq
  <2> QED BY <2>1, <2>2, <2>3, <2>5
<1>2. CASE c > 1
  <2> DEFINE less == c - 1
  <2>1. v = [u EXCEPT !.line_clocks = less]
    BY <1>1, <1>2 DEF AdvanceLine
  <2>2. less \in 1 .. f /\ less + 1 = c
    <3> HIDE DEF c, f
    <3> QED BY <1>1, <1>2
  <2> HIDE DEF less, v
  <2>3. v.line = u.line /\ v.line_clocks = less /\ v.mode = u.mode
    BY <2>1 DEF Chip
  <2>4. OnLine(v, d)
    <3> HIDE DEF f
    <3> QED BY <2>2, <2>3, ModeSays DEF OnLine, f
  <2>5. Ahead(v) + 1 = Ahead(u)
    <3> DEFINE x == (n - 1) * f
    <3>1. Ahead(v) = x + less /\ Ahead(u) = x + c
      BY <2>3, ModeSays DEF Ahead
    <3>2. x \in Nat
      <4>1. n - 1 \in Nat
        BY <1>1
      <4> HIDE DEF f, n
      <4> QED BY <1>1, <4>1
    <3> HIDE DEF x, c
    <3> QED BY <1>1, <2>2, <3>1, <3>2
  <2>6. Len(v.line) <= Len(u.line) /\ v.line # <<>>
    <3>1. n <= n
      BY <1>1
    <3> QED BY <1>1, <2>3, <3>1
  <2> QED BY <2>3, <2>4, <2>5, <2>6 DEF v
<1>3. CASE ~(c > 1) /\ n > 1
  <2> DEFINE rest == Tail(u.line)
  <2>1. v = [u EXCEPT !.line = rest, !.line_clocks = f]
    BY <1>1, <1>3 DEF AdvanceLine
  <2>2. rest \in Seq(BOOLEAN) /\ Len(rest) = n - 1 /\ \A i \in 1 .. n - 1 : rest[i] = u.line[i + 1]
    BY <1>1, HeadTailProperties
  <2>3. c = 1 /\ n - 1 \in 1 .. m
    <3> HIDE DEF c, f, n, m
    <3> QED BY <1>1, <1>3
  <2> HIDE DEF rest, v
  <2>4. v.line = rest /\ v.line_clocks = f /\ v.mode = u.mode
    BY <2>1 DEF Chip
  <2>5. OnLine(v, d)
    <3> DEFINE g == Frame(u, d[1])
    <3>1. ASSUME NEW i \in 1 .. n - 1 PROVE rest[i] = g[(m - (n - 1)) + i]
      <4>1. i + 1 \in 1 .. n /\ (m - n) + (i + 1) = (m - (n - 1)) + i
        <5> HIDE DEF m, n
        <5> QED BY <1>1, <3>1
      <4>2. u.line[i + 1] = g[(m - n) + (i + 1)]
        BY <4>1 DEF OnLine
      <4> HIDE DEF g, m, n
      <4> QED BY <2>2, <3>1, <4>1, <4>2
    <3>2. f \in 1 .. f
      <4> HIDE DEF f
      <4> QED BY <1>1
    <3>3. Frame(v, d[1]) = g /\ FrameBits(v) = m /\ BaudFactor(v) = f
            /\ Synchronous(v) = Synchronous(u) /\ CharacterBits(v) = CharacterBits(u)
      BY <2>4, ModeSays
    <3>4. /\ ~Synchronous(u) /\ d[1] \in Seq(BOOLEAN) /\ Len(d[1]) = CharacterBits(u)
      BY DEF OnLine
    <3> HIDE DEF f, m, n, g
    <3> QED BY <1>1, <2>2, <2>3, <2>4, <3>1, <3>2, <3>3, <3>4 DEF OnLine
  <2>6. Ahead(v) + 1 = Ahead(u)
    <3> DEFINE k == n - 1
               x == k * f
               y == (k - 1) * f
    <3>1. Ahead(u) = x + 1
      BY <2>3 DEF Ahead
    <3>2. Ahead(v) = y + f
      BY <2>2, <2>4, ModeSays DEF Ahead
    <3>3. k \in Nat /\ k - 1 \in Nat
      BY <1>1, <2>3
    <3> HIDE DEF f, k
    <3>4. x = y + f /\ x \in Nat
      BY <1>1, <3>3
    <3> HIDE DEF x, y
    <3> QED BY <3>1, <3>2, <3>4
  <2>7. Len(v.line) <= Len(u.line) /\ v.line # <<>>
    <3>1. Len(v.line) = n - 1
      BY <2>2, <2>4
    <3> HIDE DEF n
    <3>2. Len(v.line) <= n /\ Len(v.line) # 0
      BY <1>1, <1>3, <3>1
    <3> QED BY <3>2, EmptySeq DEF n
  <2> QED BY <2>4, <2>5, <2>6, <2>7 DEF v
<1>4. CASE ~(c > 1) /\ ~(n > 1)
  <2>1. c = 1 /\ n = 1
    <3> HIDE DEF c, f, n, m
    <3> QED BY <1>1, <1>4
  <2>2. v = [u EXCEPT !.line = <<>>, !.line_clocks = 0, !.rxd = TRUE]
    BY <1>1, <1>4 DEF AdvanceLine
  <2>3. v.line = <<>> /\ v.mode = u.mode
    BY <2>2 DEF Chip
  <2>4. Ahead(u) = 0 * f + 1
    BY <2>1 DEF Ahead
  <2>5. Ahead(u) = 1
    <3> HIDE DEF f
    <3> QED BY <1>1, <2>4
  <2> QED BY <2>3, <2>5
<1> QED BY <1>2, <1>3, <1>4

(* What the receiver sees at this edge.                                    *)
LEMMA LineLevel ==
  ASSUME NEW u \in Chip, NEW d, OnLine(u, d)
  PROVE  LET w == DriveLine(u)
         IN /\ w \in Chip /\ w = [u EXCEPT !.rxd = Head(u.line)]
            /\ SameFollow(u, w) /\ SameLine(u, w)
            /\ w.rxd = Frame(u, d[1])[(FrameBits(u) - Len(u.line)) + 1]
<1> DEFINE level == Head(u.line)
           w == [u EXCEPT !.rxd = level]
<1>1. u.line \in Seq(BOOLEAN) /\ Len(u.line) \in 1 .. FrameBits(u) /\ u.mode \in Byte
  BY FieldsOf DEF OnLine
<1>2. FrameBits(u) \in Nat
  BY <1>1, FrameLength
<1>3. 1 \in 1 .. Len(u.line) /\ Len(u.line) # 0
  BY <1>1, <1>2
<1>4. u.line # <<>>
  BY <1>3, EmptySeq
<1>5. level \in BOOLEAN /\ level = u.line[1]
  BY <1>1, <1>4, HeadTailProperties
<1>6. level = Frame(u, d[1])[(FrameBits(u) - Len(u.line)) + 1]
  BY <1>3, <1>5 DEF OnLine
<1>7. DriveLine(u) = w
  BY <1>4 DEF DriveLine
<1> HIDE DEF level
<1>8. w \in Chip
  BY <1>5 DEF Chip
<1>9. SameFollow(u, w) /\ SameLine(u, w) /\ w.rxd = level
  BY DEF SameFollow, SameLine, Chip
<1> QED BY <1>6, <1>7, <1>8, <1>9 DEF level

LEMMA BitsAfterType ==
  ASSUME NEW u \in Chip, NEW d, NEW ahead, Follows(u, d, ahead)
  PROVE  BitsAfter(u) \in Nat
<1> DEFINE n == CharacterBits(u)
           q == StopBits(u)
           p == ParityBits(u)
           s == Len(u.shift)
<1>1. u.mode \in Byte /\ u.shift \in Seq(BOOLEAN)
  BY FieldsOf
<1>2. n \in Nat /\ q \in Nat /\ q > 0 /\ p \in Nat /\ s \in Nat
  <2>1. n \in 1 .. 8 /\ q \in 1 .. 2 /\ s \in Nat
    BY <1>1, WordType, LenProperties
  <2>2. p \in Nat
    BY DEF ParityBits
  <2> QED BY <2>1, <2>2
<1>3. u.receive_phase \in {"start", "data", "parity", "stop"}
        /\ (u.receive_phase = "data" => s < n)
  BY DEF Follows
<1>4. /\ u.receive_phase = "start" => BitsAfter(u) = n + p + q
      /\ u.receive_phase = "data" => BitsAfter(u) = n + p + q - (s + 1)
      /\ u.receive_phase = "parity" => BitsAfter(u) = q
      /\ u.receive_phase = "stop" => BitsAfter(u) = q - 1
  BY DEF BitsAfter
<1> HIDE DEF n, p, q, s
<1> QED BY <1>2, <1>3, <1>4

(* The sample that is due now falls into the bit the receiver counts on.   *)
LEMMA SampleInTime ==
  ASSUME NEW u \in Chip, NEW d, OnLine(u, d), Follows(u, d, Ahead(u)), u.receive_clocks = 1
  PROVE  Len(u.line) = BitsAfter(u) + 1
<1> DEFINE b == BaudFactor(u)
           c == u.line_clocks
           h == b - b \div 2
           x == Len(u.line) - 1
           y == BitsAfter(u)
<1>1. b \in Nat /\ b > 1
  BY FieldsOf, WordType DEF OnLine
<1>2. c \in 1 .. b /\ h \in 1 .. b
  <2>1. c \in 1 .. b
    BY DEF OnLine
  <2>2. h \in 1 .. b
    <3> HIDE DEF b
    <3> QED BY <1>1
  <2> QED BY <2>1, <2>2
<1>3. x \in Nat /\ y \in Nat
  <2>1. Len(u.line) \in 1 .. FrameBits(u) /\ FrameBits(u) \in Nat
    BY FieldsOf, FrameLength DEF OnLine
  <2> QED BY <2>1, BitsAfterType
<1>4. (x * b + c) + 1 = y * b + h + 1
  BY DEF Follows, Ahead
<1> HIDE DEF b, c, h, x, y
<1>5. x * b \in Nat /\ y * b \in Nat
  BY <1>1, <1>3
<1>6. x * b + c = y * b + h
  <2> DEFINE s == x * b
             t == y * b
  <2>1. s \in Nat /\ t \in Nat /\ (s + c) + 1 = t + h + 1
    BY <1>4, <1>5
  <2> HIDE DEF s, t
  <2>2. s + c = t + h
    BY <1>1, <1>2, <2>1
  <2> QED BY <2>2 DEF s, t
<1>7. x = y
  BY <1>1, <1>2, <1>3, <1>6, OneAnswer
<1> QED BY <1>3, <1>7 DEF x, y

(* Between two samples the receiver counts.                                *)
LEMMA CountsDown ==
  ASSUME NEW u \in Chip, NEW d, OnLine(u, d), Follows(u, d, Ahead(u)), u.receive_clocks > 1,
         NEW v, v = [u EXCEPT !.receive_clocks = @ - 1]
  PROVE  Follows(v, d, Ahead(u) - 1) /\ SameLine(u, v)
<1> DEFINE b == BaudFactor(u)
           less == u.receive_clocks - 1
           h == b - b \div 2
           y == BitsAfter(u)
           a == Ahead(u)
<1>1. b \in Nat /\ b > 1 /\ u.receive_clocks \in 1 .. b /\ y \in Nat
  BY FieldsOf, WordType, BitsAfterType DEF OnLine, Follows
<1>2. less \in 1 .. b /\ less + 1 = u.receive_clocks
  <2> HIDE DEF b
  <2> QED BY <1>1
<1>3. a \in Nat
  <2> DEFINE x == (Len(u.line) - 1) * b
             c == u.line_clocks
  <2>1. Len(u.line) \in 1 .. FrameBits(u) /\ FrameBits(u) \in Nat /\ c \in 1 .. b
    BY FieldsOf, FrameLength DEF OnLine
  <2>2. a = x + c
    BY DEF Ahead
  <2>3. x \in Nat
    <3> HIDE DEF b
    <3> QED BY <1>1, <2>1
  <2> HIDE DEF x, c, a, b
  <2> QED BY <1>1, <2>1, <2>2, <2>3
<1>4. a + 1 = y * b + h + u.receive_clocks
  BY DEF Follows
<1>5. y * b \in Nat /\ h \in Nat
  <2>1. h \in Nat
    <3> HIDE DEF b
    <3> QED BY <1>1
  <2> HIDE DEF b, y
  <2> QED BY <1>1, <2>1
<1>6. v = [u EXCEPT !.receive_clocks = less]
  OBVIOUS
<1>7. /\ v.mode = u.mode /\ v.receive_phase = u.receive_phase /\ v.shift = u.shift
      /\ v.pending_parity_error = u.pending_parity_error /\ v.receive_clocks = less
      /\ v.line = u.line /\ v.line_clocks = u.line_clocks
  <2> HIDE DEF less
  <2> QED BY <1>6 DEF Chip
<1>8. (a - 1) + 1 = y * b + h + less
  <2> DEFINE t == y * b
  <2>1. t \in Nat /\ a + 1 = t + h + u.receive_clocks
    BY <1>4, <1>5
  <2> HIDE DEF t, h, less, a, b
  <2>2. (a - 1) + 1 = t + h + less
    BY <1>1, <1>2, <1>3, <1>5, <2>1
  <2> QED BY <2>2 DEF t
<1>9. /\ BaudFactor(v) = b /\ CharacterBits(v) = CharacterBits(u)
      /\ ParityEnabled(v) = ParityEnabled(u) /\ ParityBits(v) = ParityBits(u)
      /\ StopBits(v) = StopBits(u)
  BY <1>7, ModeSays
<1>10. BitsAfter(v) = y
  BY <1>7, <1>9 DEF BitsAfter
<1> HIDE DEF b, h, y, a, less
<1>11. v.receive_clocks \in 1 .. BaudFactor(v)
  BY <1>2, <1>7, <1>9
<1>12. (a - 1) + 1 = BitsAfter(v) * BaudFactor(v) + (BaudFactor(v) - BaudFactor(v) \div 2)
                       + v.receive_clocks
  BY <1>7, <1>8, <1>9, <1>10 DEF h
<1>13. Follows(v, d, a - 1)
  BY <1>7, <1>9, <1>11, <1>12 DEF Follows
<1> QED BY <1>7, <1>13 DEF SameLine, a

(* A sample: one bit less to come, and a whole bit time to the next one.   *)
LEMMA SampleKeepsTime ==
  ASSUME NEW u \in Chip, NEW d, OnLine(u, d), Follows(u, d, Ahead(u)), u.receive_clocks = 1,
         NEW v, v.mode = u.mode, v.receive_clocks = BaudFactor(u),
         BitsAfter(v) + 1 = BitsAfter(u), BitsAfter(v) \in Nat
  PROVE  /\ v.receive_clocks \in 1 .. BaudFactor(v)
         /\ (Ahead(u) - 1) + 1 = BitsAfter(v) * BaudFactor(v)
              + (BaudFactor(v) - BaudFactor(v) \div 2) + v.receive_clocks
<1> DEFINE b == BaudFactor(u)
           h == b - b \div 2
           y == BitsAfter(v)
           a == Ahead(u)
<1>1. b \in Nat /\ b > 1 /\ y \in Nat
  BY FieldsOf, WordType DEF OnLine
<1>2. BaudFactor(v) = b
  BY ModeSays
<1>3. a + 1 = (y + 1) * b + h + 1
  BY DEF Follows
<1>4. y * b \in Nat /\ h \in Nat /\ (y + 1) * b = y * b + b
  <2>1. h \in Nat
    <3> HIDE DEF b
    <3> QED BY <1>1
  <2> HIDE DEF b, y
  <2> QED BY <1>1, <2>1
<1>5. a \in Int
  <2> DEFINE x == (Len(u.line) - 1) * b
             c == u.line_clocks
  <2>1. Len(u.line) \in 1 .. FrameBits(u) /\ FrameBits(u) \in Nat /\ c \in 1 .. b
    BY FieldsOf, FrameLength DEF OnLine
  <2>2. a = x + c
    BY DEF Ahead
  <2>3. x \in Nat
    <3> HIDE DEF b
    <3> QED BY <1>1, <2>1
  <2> HIDE DEF x, c, a, b
  <2> QED BY <1>1, <2>1, <2>2, <2>3
<1>6. (a - 1) + 1 = y * b + h + b
  <2> DEFINE t == y * b
             s == (y + 1) * b
  <2>1. t \in Nat /\ s = t + b /\ a + 1 = s + h + 1
    BY <1>3, <1>4
  <2> HIDE DEF t, h, a, b, s
  <2>2. (a - 1) + 1 = t + h + b
    BY <1>1, <1>4, <1>5, <2>1
  <2> QED BY <2>2 DEF t
<1> HIDE DEF b, y, a
<1>7. b \in 1 .. b
  BY <1>1
<1> QED BY <1>2, <1>6, <1>7 DEF y, a, b, h

(* The bit that is sampled is the one the receiver expects.                *)
Sees(u, d) == u.rxd = Frame(u, d[1])[(FrameBits(u) - Len(u.line)) + 1]

LEMMA SampledBit ==
  ASSUME NEW u \in Chip, NEW d, OnLine(u, d), Follows(u, d, Ahead(u)), u.receive_clocks = 1,
         Sees(u, d)
  PROVE  /\ u.receive_phase = "start" => u.rxd = FALSE
         /\ u.receive_phase = "data" => u.rxd = d[1][Len(u.shift) + 1]
         /\ u.receive_phase = "parity" => u.rxd = ParityBit(u, d[1])
         /\ u.receive_phase = "stop" => u.rxd = TRUE /\ Len(u.line) = StopBits(u)
<1> DEFINE n == CharacterBits(u)
           q == StopBits(u)
           p == ParityBits(u)
           s == Len(u.shift)
           k == Len(u.line)
           m == FrameBits(u)
           f == Frame(u, d[1])
<1>1. u.mode \in Byte /\ u.shift \in Seq(BOOLEAN)
  BY FieldsOf
<1>2. n \in Nat /\ q \in Nat /\ q > 0 /\ p \in {0, 1} /\ s \in Nat /\ n > 0
  <2>1. n \in 1 .. 8 /\ q \in 1 .. 2 /\ s \in Nat
    BY <1>1, WordType, LenProperties
  <2>2. p \in {0, 1}
    BY DEF ParityBits
  <2> QED BY <2>1, <2>2
<1>3. ~Synchronous(u) /\ d[1] \in Seq(BOOLEAN) /\ Len(d[1]) = n
  BY DEF OnLine
<1>4. /\ m = 1 + n + p + q
      /\ f[1] = FALSE
      /\ \A i \in 1 .. n : f[i + 1] = d[1][i]
      /\ ParityEnabled(u) => f[n + 2] = ParityBit(u, d[1])
      /\ \A i \in (2 + n + p) .. m : f[i] = TRUE
  BY <1>1, <1>3, FrameAsync
<1>5. k = BitsAfter(u) + 1
  BY SampleInTime
<1>6. u.rxd = f[(m - k) + 1]
  BY DEF Sees
<1>7. CASE u.receive_phase = "start"
  <2>1. k = n + p + q + 1
    BY <1>5, <1>7 DEF BitsAfter
  <2> HIDE DEF n, q, p, s, k, m, f
  <2>2. (m - k) + 1 = 1
    BY <1>2, <1>4, <2>1
  <2> QED BY <1>4, <1>6, <1>7, <2>2
<1>8. CASE u.receive_phase = "data"
  <2>1. k = n + p + q - (s + 1) + 1 /\ s < n
    BY <1>5, <1>8 DEF BitsAfter, Follows
  <2> HIDE DEF n, q, p, s, k, m, f
  <2>2. (m - k) + 1 = (s + 1) + 1 /\ s + 1 \in 1 .. n
    BY <1>2, <1>4, <2>1
  <2>3. u.rxd = d[1][s + 1]
    BY <1>4, <1>6, <2>2
  <2> QED BY <1>8, <2>3 DEF s
<1>9. CASE u.receive_phase = "parity"
  <2>1. k = q + 1 /\ ParityEnabled(u)
    BY <1>5, <1>9 DEF BitsAfter, Follows
  <2>2. p = 1
    BY <2>1 DEF ParityBits
  <2> HIDE DEF n, q, p, s, k, m, f
  <2>3. (m - k) + 1 = n + 2
    BY <1>2, <1>4, <2>1, <2>2
  <2> QED BY <1>4, <1>6, <1>9, <2>1, <2>3
<1>10. CASE u.receive_phase = "stop"
  <2>1. k = q - 1 + 1
    BY <1>5, <1>10 DEF BitsAfter
  <2> HIDE DEF n, q, p, s, k, m, f
  <2>2. (m - k) + 1 = 2 + n + p /\ 2 + n + p \in (2 + n + p) .. m /\ k = q
    BY <1>2, <1>4, <2>1
  <2>3. u.rxd = TRUE
    BY <1>4, <1>6, <2>2
  <2> QED BY <1>10, <2>2, <2>3 DEF k, q
<1> QED BY <1>7, <1>8, <1>9, <1>10

LEMMA StartSampled ==
  ASSUME NEW u \in Chip, NEW d, OnLine(u, d), Follows(u, d, Ahead(u)), u.receive_clocks = 1,
         Sees(u, d), u.receive_phase = "start"
  PROVE  LET v == SampleAsync([u EXCEPT !.receive_clocks = BaudFactor(u)])
         IN Follows(v, d, Ahead(u) - 1) /\ SameLine(u, v)
<1> DEFINE x == [u EXCEPT !.receive_clocks = BaudFactor(u)]
           v == [x EXCEPT !.receive_phase = "data", !.shift = <<>>,
                          !.pending_parity_error = FALSE]
           n == CharacterBits(u)
           q == StopBits(u)
           p == ParityBits(u)
<1>1. u.rxd = FALSE
  BY SampledBit
<1>2. SampleAsync(x) = v
  BY <1>1 DEF SampleAsync, Chip
<1>3. /\ v.mode = u.mode /\ v.receive_phase = "data" /\ v.shift = <<>>
      /\ v.receive_clocks = BaudFactor(u) /\ v.line = u.line /\ v.line_clocks = u.line_clocks
  BY DEF Chip
<1>4. ~v.pending_parity_error
  BY DEF Chip
<1> HIDE DEF v
<1>5. n \in Nat /\ n > 0 /\ q \in Nat /\ q > 0 /\ p \in Nat
  <2>1. n \in 1 .. 8 /\ q \in 1 .. 2
    BY FieldsOf, WordType
  <2>2. p \in Nat
    BY DEF ParityBits
  <2> QED BY <2>1, <2>2
<1>6. CharacterBits(v) = n /\ StopBits(v) = q /\ ParityBits(v) = p /\ BaudFactor(v) = BaudFactor(u)
  BY <1>3, ModeSays
<1>7. Len(v.shift) = 0
  BY <1>3, EmptySeq
<1>8. BitsAfter(u) = n + p + q /\ BitsAfter(v) = n + p + q - (0 + 1)
  BY <1>3, <1>6, <1>7 DEF BitsAfter
<1>9. BitsAfter(v) + 1 = BitsAfter(u) /\ BitsAfter(v) \in Nat
  <2> HIDE DEF n, p, q
  <2> QED BY <1>5, <1>8
<1>10. /\ v.receive_clocks \in 1 .. BaudFactor(v)
       /\ (Ahead(u) - 1) + 1 = BitsAfter(v) * BaudFactor(v)
            + (BaudFactor(v) - BaudFactor(v) \div 2) + v.receive_clocks
  BY <1>3, <1>9, SampleKeepsTime
<1>11. \A i \in 1 .. Len(v.shift) : v.shift[i] = d[1][i]
  BY <1>7
<1>12. Len(v.shift) < CharacterBits(v)
  BY <1>5, <1>6, <1>7
<1>13. Follows(v, d, Ahead(u) - 1)
  BY <1>3, <1>4, <1>10, <1>11, <1>12 DEF Follows
<1>14. SameLine(u, v)
  BY <1>3 DEF SameLine
<1> QED BY <1>2, <1>13, <1>14

LEMMA DataSampled ==
  ASSUME NEW u \in Chip, NEW d, OnLine(u, d), Follows(u, d, Ahead(u)), u.receive_clocks = 1,
         Sees(u, d), u.receive_phase = "data"
  PROVE  LET v == SampleAsync([u EXCEPT !.receive_clocks = BaudFactor(u)])
         IN Follows(v, d, Ahead(u) - 1) /\ SameLine(u, v)
<1> DEFINE x == [u EXCEPT !.receive_clocks = BaudFactor(u)]
           n == CharacterBits(u)
           q == StopBits(u)
           p == ParityBits(u)
           s == Len(u.shift)
           shift == Append(u.shift, u.rxd)
           next == IF s + 1 >= n THEN AfterData(u) ELSE "data"
           v == [x EXCEPT !.shift = shift, !.receive_phase = next]
<1>1. u.shift \in Seq(BOOLEAN) /\ u.rxd \in BOOLEAN /\ u.mode \in Byte
  BY FieldsOf DEF Chip
<1>2. u.rxd = d[1][s + 1]
  BY SampledBit
<1>3. x.mode = u.mode /\ x.shift = u.shift /\ x.rxd = u.rxd /\ x.receive_phase = "data"
  BY DEF Chip
<1>4. CharacterBits(x) = n /\ AfterData(x) = AfterData(u)
  BY <1>3, ModeSays DEF AfterData
<1>5. SampleAsync(x) = v
  BY <1>3, <1>4, Zenon DEF SampleAsync
<1>6. /\ shift \in Seq(BOOLEAN) /\ Len(shift) = s + 1 /\ s \in Nat
      /\ \A i \in 1 .. s : shift[i] = u.shift[i]
      /\ shift[s + 1] = u.rxd
  BY <1>1, AppendProperties, LenProperties
<1> HIDE DEF shift, next
<1>7. /\ v.mode = u.mode /\ v.receive_phase = next /\ v.shift = shift
      /\ v.receive_clocks = BaudFactor(u) /\ v.line = u.line /\ v.line_clocks = u.line_clocks
  BY DEF Chip
<1>8. v.pending_parity_error = u.pending_parity_error
  BY DEF Chip
<1> HIDE DEF v, x
<1>9. n \in Nat /\ n > 0 /\ q \in Nat /\ q > 0 /\ p \in Nat
  <2>1. n \in 1 .. 8 /\ q \in 1 .. 2
    BY <1>1, WordType
  <2>2. p \in Nat
    BY DEF ParityBits
  <2> QED BY <2>1, <2>2
<1>10. /\ CharacterBits(v) = n /\ StopBits(v) = q /\ ParityBits(v) = p
       /\ BaudFactor(v) = BaudFactor(u) /\ ParityEnabled(v) = ParityEnabled(u)
  BY <1>7, ModeSays
<1>11. s < n /\ ~u.pending_parity_error /\ \A i \in 1 .. s : u.shift[i] = d[1][i]
  BY DEF Follows
<1>12. BitsAfter(u) = n + p + q - (s + 1)
  BY DEF BitsAfter
<1>13. /\ BitsAfter(v) + 1 = BitsAfter(u) /\ BitsAfter(v) \in Nat
       /\ next \in {"data", "parity", "stop"}
       /\ next = "data" => s + 1 < n
       /\ next \in {"parity", "stop"} => s + 1 = n
       /\ next = "parity" => ParityEnabled(u)
  <2>1. CASE s + 1 < n
    <3>1. next = "data"
      <4> HIDE DEF s, n
      <4> QED BY <1>6, <1>9, <2>1 DEF next
    <3>2. BitsAfter(v) = n + p + q - ((s + 1) + 1)
      BY <1>6, <1>7, <1>10, <3>1 DEF BitsAfter
    <3> HIDE DEF n, p, q, s
    <3>3. BitsAfter(v) + 1 = BitsAfter(u) /\ BitsAfter(v) \in Nat
      BY <1>6, <1>9, <1>12, <2>1, <3>2
    <3> QED BY <2>1, <3>1, <3>3
  <2>2. CASE ~(s + 1 < n) /\ ParityEnabled(u)
    <3>1. s + 1 = n
      <4> HIDE DEF s, n
      <4> QED BY <1>6, <1>9, <1>11, <2>2
    <3>2. next = "parity" /\ p = 1
      <4>1. next = AfterData(u)
        <5> HIDE DEF s, n
        <5> QED BY <1>9, <3>1 DEF next
      <4> QED BY <2>2, <4>1 DEF AfterData, ParityBits
    <3>3. BitsAfter(v) = q
      BY <1>7, <1>10, <3>2 DEF BitsAfter
    <3> HIDE DEF n, p, q, s
    <3>4. BitsAfter(v) + 1 = BitsAfter(u) /\ BitsAfter(v) \in Nat
      BY <1>6, <1>9, <1>12, <3>1, <3>2, <3>3
    <3> QED BY <2>2, <3>1, <3>2, <3>4
  <2>3. CASE ~(s + 1 < n) /\ ~ParityEnabled(u)
    <3>1. s + 1 = n
      <4> HIDE DEF s, n
      <4> QED BY <1>6, <1>9, <1>11, <2>3
    <3>2. next = "stop" /\ p = 0
      <4>1. next = AfterData(u)
        <5> HIDE DEF s, n
        <5> QED BY <1>9, <3>1 DEF next
      <4> QED BY <2>3, <4>1 DEF AfterData, ParityBits
    <3>3. BitsAfter(v) = q - 1
      BY <1>7, <1>10, <3>2 DEF BitsAfter
    <3> HIDE DEF n, p, q, s
    <3>4. BitsAfter(v) + 1 = BitsAfter(u) /\ BitsAfter(v) \in Nat
      BY <1>6, <1>9, <1>12, <3>1, <3>2, <3>3
    <3> QED BY <3>1, <3>2, <3>4
  <2> QED BY <2>1, <2>2, <2>3
<1>14. /\ v.receive_clocks \in 1 .. BaudFactor(v)
       /\ (Ahead(u) - 1) + 1 = BitsAfter(v) * BaudFactor(v)
            + (BaudFactor(v) - BaudFactor(v) \div 2) + v.receive_clocks
  BY <1>7, <1>13, SampleKeepsTime
<1>15. ASSUME NEW i \in 1 .. Len(v.shift) PROVE v.shift[i] = d[1][i]
  <2>1. i \in 1 .. s \/ i = s + 1
    <3> HIDE DEF s
    <3> QED BY <1>6, <1>7, <1>15
  <2>2. \A j \in 1 .. s : u.shift[j] = d[1][j]
    BY <1>11
  <2> HIDE DEF s
  <2>3. CASE i \in 1 .. s
    <3>1. v.shift[i] = u.shift[i]
      BY <1>6, <1>7, <2>3
    <3> QED BY <2>2, <2>3, <3>1
  <2>4. CASE i = s + 1
    BY <1>2, <1>6, <1>7, <2>4
  <2> QED BY <2>1, <2>3, <2>4
<1>16. Len(v.shift) = s + 1
  BY <1>6, <1>7
<1> HIDE DEF n, p, q, s
<1>17. Follows(v, d, Ahead(u) - 1)
  BY <1>7, <1>8, <1>10, <1>11, <1>13, <1>14, <1>15, <1>16 DEF Follows
<1>18. SameLine(u, v)
  BY <1>7 DEF SameLine
<1> QED BY <1>5, <1>17, <1>18 DEF x

LEMMA ParitySampled ==
  ASSUME NEW u \in Chip, NEW d, OnLine(u, d), Follows(u, d, Ahead(u)), u.receive_clocks = 1,
         Sees(u, d), u.receive_phase = "parity"
  PROVE  LET v == SampleAsync([u EXCEPT !.receive_clocks = BaudFactor(u)])
         IN Follows(v, d, Ahead(u) - 1) /\ SameLine(u, v)
<1> DEFINE x == [u EXCEPT !.receive_clocks = BaudFactor(u)]
           wrong == x.rxd # ParityBit(x, x.shift)
           v == [x EXCEPT !.pending_parity_error = wrong, !.receive_phase = "stop"]
           q == StopBits(u)
<1>1. u.shift \in Seq(BOOLEAN) /\ u.mode \in Byte
  BY FieldsOf DEF Chip
<1>2. u.rxd = ParityBit(u, d[1])
  BY SampledBit
<1>3. /\ Len(u.shift) = CharacterBits(u) /\ \A i \in 1 .. Len(u.shift) : u.shift[i] = d[1][i]
      /\ ParityEnabled(u)
  BY DEF Follows
<1>4. d[1] \in Seq(BOOLEAN) /\ Len(d[1]) = CharacterBits(u)
  BY DEF OnLine
<1>5. u.shift = d[1]
  BY <1>1, <1>3, <1>4, SequencesEqual
<1>6. x.mode = u.mode /\ x.shift = u.shift /\ x.rxd = u.rxd /\ x.receive_phase = "parity"
  BY DEF Chip
<1>7. ParityBit(x, x.shift) = ParityBit(u, d[1])
  BY <1>5, <1>6 DEF ParityBit, EvenParity
<1>8. ~wrong
  BY <1>2, <1>6, <1>7
<1>9. SampleAsync(x) = v
  BY <1>6, Zenon DEF SampleAsync
<1> HIDE DEF wrong
<1>10. /\ v.mode = u.mode /\ v.receive_phase = "stop" /\ v.shift = u.shift
       /\ v.receive_clocks = BaudFactor(u) /\ v.line = u.line /\ v.line_clocks = u.line_clocks
  BY DEF Chip
<1>11. v.pending_parity_error = wrong
  BY DEF Chip
<1> HIDE DEF v, x
<1>12. /\ CharacterBits(v) = CharacterBits(u) /\ StopBits(v) = q
       /\ BaudFactor(v) = BaudFactor(u)
  BY <1>10, ModeSays
<1>13. BitsAfter(u) = q /\ BitsAfter(v) = q - 1
  BY <1>10, <1>12 DEF BitsAfter
<1>14. BitsAfter(v) + 1 = BitsAfter(u) /\ BitsAfter(v) \in Nat
  <2>1. q \in 1 .. 2
    BY <1>1, WordType
  <2> HIDE DEF q
  <2> QED BY <1>13, <2>1
<1>15. /\ v.receive_clocks \in 1 .. BaudFactor(v)
       /\ (Ahead(u) - 1) + 1 = BitsAfter(v) * BaudFactor(v)
            + (BaudFactor(v) - BaudFactor(v) \div 2) + v.receive_clocks
  BY <1>10, <1>14, SampleKeepsTime
<1>16. Follows(v, d, Ahead(u) - 1)
  BY <1>3, <1>8, <1>10, <1>11, <1>12, <1>15 DEF Follows
<1>17. SameLine(u, v)
  BY <1>10 DEF SameLine
<1> QED BY <1>9, <1>16, <1>17 DEF x

(* What the CPU is to see of a character that has been received whole.     *)
ReceivedAs(u, v, d) ==
  /\ v.receive_ready
  /\ <<v.parity_error, v.framing_error, v.break_detected>>
       = <<u.parity_error, u.framing_error, u.break_detected>>
  /\ IF u.receive_ready THEN v.overrun_error /\ v.receive_buffer = u.receive_buffer
     ELSE v.receive_buffer = d[1] /\ v.overrun_error = u.overrun_error

LEMMA StopSampled ==
  ASSUME NEW u \in Chip, NEW d, OnLine(u, d), Follows(u, d, Ahead(u)), u.receive_clocks = 1,
         Sees(u, d), u.receive_phase = "stop", ReceiverEnabled(u)
  PROVE  LET v == SampleAsync([u EXCEPT !.receive_clocks = BaudFactor(u)])
         IN /\ v.receive_phase = "idle" /\ SameLine(u, v) /\ ReceivedAs(u, v, d)
            /\ Len(u.line) = StopBits(u)
<1> DEFINE x == [u EXCEPT !.receive_clocks = BaudFactor(u)]
           r == ReceiveByte(x, x.shift, x.pending_parity_error, ~x.rxd)
           v == [r EXCEPT !.receive_phase = "idle"]
<1>1. u.shift \in Seq(BOOLEAN) /\ u.mode \in Byte /\ u.pending_parity_error \in BOOLEAN
  BY FieldsOf DEF Chip
<1>2. u.rxd = TRUE /\ Len(u.line) = StopBits(u)
  BY SampledBit
<1>3. /\ Len(u.shift) = CharacterBits(u) /\ \A i \in 1 .. Len(u.shift) : u.shift[i] = d[1][i]
      /\ ~u.pending_parity_error
  BY DEF Follows
<1>4. d[1] \in Seq(BOOLEAN) /\ Len(d[1]) = CharacterBits(u)
  BY DEF OnLine
<1>5. u.shift = d[1]
  BY <1>1, <1>3, <1>4, SequencesEqual
<1>6. x \in Chip
  <2>1. BaudFactor(u) \in Nat
    BY <1>1, WordType
  <2> QED BY <2>1 DEF Chip
<1>7. /\ x.mode = u.mode /\ x.shift = u.shift /\ x.receive_phase = "stop"
      /\ x.phase = u.phase /\ x.command = u.command
      /\ x.line = u.line /\ x.line_clocks = u.line_clocks
      /\ x.receive_buffer = u.receive_buffer
  BY DEF Chip
<1>8. /\ x.rxd = u.rxd /\ x.pending_parity_error = u.pending_parity_error
      /\ x.receive_ready = u.receive_ready /\ x.parity_error = u.parity_error
      /\ x.framing_error = u.framing_error /\ x.break_detected = u.break_detected
      /\ x.overrun_error = u.overrun_error
  BY DEF Chip
<1>9. SampleAsync(x) = v
  BY <1>7, Zenon DEF SampleAsync
<1>10. Masked(x, x.shift) = d[1]
  <2>1. CharacterBits(x) = CharacterBits(u)
    BY <1>7, ModeSays
  <2>2. x.mode \in Byte /\ x.shift \in Seq(BOOLEAN) /\ Len(x.shift) = CharacterBits(x)
    BY <1>1, <1>3, <1>7, <2>1
  <2>3. Masked(x, x.shift) = x.shift
    BY <2>2, MaskedIsItself
  <2> QED BY <1>5, <1>7, <2>3
<1>11. ReceiverEnabled(x)
  BY <1>7 DEF ReceiverEnabled
<1>12. ~x.pending_parity_error /\ x.rxd
  BY <1>2, <1>3, <1>8
<1> HIDE DEF x
<1>13. CASE x.receive_ready
  <2>1. r = [x EXCEPT !.overrun_error = TRUE]
    BY <1>11, <1>13, Zenon DEF ReceiveByte
  <2>2. v = [x EXCEPT !.overrun_error = TRUE, !.receive_phase = "idle"]
    BY <1>6, <2>1 DEF Chip
  <2> HIDE DEF v, r
  <2>3. /\ v.receive_phase = "idle" /\ v.mode = x.mode /\ v.line = x.line
        /\ v.line_clocks = x.line_clocks /\ v.receive_buffer = x.receive_buffer
    BY <1>6, <2>2 DEF Chip
  <2>4. /\ v.receive_ready = x.receive_ready /\ v.parity_error = x.parity_error
        /\ v.framing_error = x.framing_error /\ v.break_detected = x.break_detected
    BY <1>6, <2>2 DEF Chip
  <2>5. v.overrun_error
    BY <1>6, <2>2 DEF Chip
  <2>6. ReceivedAs(u, v, d)
    BY <1>7, <1>8, <1>13, <2>3, <2>4, <2>5, Zenon DEF ReceivedAs
  <2>7. SameLine(u, v)
    BY <1>7, <2>3 DEF SameLine
  <2> QED BY <1>2, <1>9, <2>3, <2>6, <2>7 DEF x
<1>14. CASE ~x.receive_ready
  <2> DEFINE masked == Masked(x, x.shift)
             parity == x.parity_error \/ x.pending_parity_error
             framing == x.framing_error \/ ~x.rxd
             break == x.break_detected \/ (~x.rxd /\ \A i \in 1 .. Len(x.shift) : ~x.shift[i])
  <2>1. r = [x EXCEPT !.receive_buffer = masked, !.receive_ready = TRUE,
                      !.parity_error = parity, !.framing_error = framing,
                      !.break_detected = break]
    BY <1>11, <1>14, Zenon DEF ReceiveByte
  <2>2. parity = x.parity_error /\ framing = x.framing_error /\ break = x.break_detected
    <3>1. x.parity_error \in BOOLEAN /\ x.framing_error \in BOOLEAN /\ x.break_detected \in BOOLEAN
      BY <1>6 DEF Chip
    <3> QED BY <1>12, <3>1, Zenon
  <2> HIDE DEF masked, parity, framing, break
  <2>3. v = [x EXCEPT !.receive_buffer = masked, !.receive_ready = TRUE,
                      !.parity_error = parity, !.framing_error = framing,
                      !.break_detected = break, !.receive_phase = "idle"]
    BY <1>6, <2>1 DEF Chip
  <2> HIDE DEF v, r
  <2>4. /\ v.receive_phase = "idle" /\ v.mode = x.mode /\ v.line = x.line
        /\ v.line_clocks = x.line_clocks /\ v.receive_buffer = masked
    BY <1>6, <2>3 DEF Chip
  <2>5. /\ v.parity_error = parity /\ v.framing_error = framing /\ v.break_detected = break
        /\ v.overrun_error = x.overrun_error
    BY <1>6, <2>3 DEF Chip
  <2>6. v.receive_ready
    BY <1>6, <2>3 DEF Chip
  <2>7. ReceivedAs(u, v, d)
    <3>1. v.receive_buffer = d[1]
      BY <1>10, <2>4 DEF masked
    <3>2. <<v.parity_error, v.framing_error, v.break_detected>>
            = <<u.parity_error, u.framing_error, u.break_detected>>
      BY <1>8, <2>2, <2>5, Zenon
    <3>3. ~u.receive_ready /\ v.overrun_error = u.overrun_error
      BY <1>8, <1>14, <2>5, Zenon
    <3> QED BY <2>6, <3>1, <3>2, <3>3, Zenon DEF ReceivedAs
  <2>8. SameLine(u, v)
    BY <1>7, <2>4 DEF SameLine
  <2> QED BY <1>2, <1>9, <2>4, <2>7, <2>8 DEF x
<1> QED BY <1>13, <1>14

(* The line is high again in the stop bits.                                *)
LEMMA StopIsHigh ==
  ASSUME NEW u \in Chip, NEW d, OnLine(u, d), Len(u.line) <= StopBits(u), Sees(u, d)
  PROVE  u.rxd = TRUE
<1> DEFINE n == CharacterBits(u)
           q == StopBits(u)
           p == ParityBits(u)
           k == Len(u.line)
           m == FrameBits(u)
           f == Frame(u, d[1])
<1>1. u.mode \in Byte
  BY FieldsOf
<1>2. n \in Nat /\ q \in Nat /\ p \in Nat
  <2>1. n \in 1 .. 8 /\ q \in 1 .. 2
    BY <1>1, WordType
  <2>2. p \in Nat
    BY DEF ParityBits
  <2> QED BY <2>1, <2>2
<1>3. ~Synchronous(u) /\ d[1] \in Seq(BOOLEAN) /\ Len(d[1]) = n /\ k \in 1 .. m
  BY DEF OnLine
<1>4. m = 1 + n + p + q /\ \A i \in (2 + n + p) .. m : f[i] = TRUE
  BY <1>1, <1>3, FrameAsync
<1>5. u.rxd = f[(m - k) + 1] /\ k <= q
  BY DEF Sees
<1> HIDE DEF n, q, p, k, m, f
<1>6. (m - k) + 1 \in (2 + n + p) .. m
  BY <1>2, <1>3, <1>4, <1>5
<1> QED BY <1>4, <1>5, <1>6

LEMMA EdgeTracked ==
  ASSUME NEW u \in Chip, NEW d, Tracked(u, d)
  PROVE  LET e == ReceiveClockEdge(DriveLine(u))
         IN /\ SameLine(u, e) /\ ReceiverStep(DriveLine(u), e)
            /\ u.receive_phase = "idle" => e.receive_phase = "idle"
            /\ SamplesStop(u) => /\ e.receive_phase = "idle" /\ ReceivedAs(u, e, d)
                                 /\ Len(u.line) = StopBits(u)
            /\ u.receive_phase # "idle" /\ ~SamplesStop(u) => Follows(e, d, Ahead(u) - 1)
<1> DEFINE w == DriveLine(u)
           e == ReceiveClockEdge(w)
<1>1. ReceiverEnabled(u) /\ OnLine(u, d)
  BY DEF Tracked
<1>2. /\ w \in Chip /\ w = [u EXCEPT !.rxd = Head(u.line)]
      /\ SameFollow(u, w) /\ SameLine(u, w)
      /\ w.rxd = Frame(u, d[1])[(FrameBits(u) - Len(u.line)) + 1]
  BY <1>1, LineLevel
<1> HIDE DEF w
<1>3. /\ w.phase = u.phase /\ w.command = u.command
      /\ w.receive_ready = u.receive_ready /\ w.receive_buffer = u.receive_buffer
      /\ w.overrun_error = u.overrun_error /\ w.parity_error = u.parity_error
      /\ w.framing_error = u.framing_error /\ w.break_detected = u.break_detected
  <2> DEFINE level == Head(u.line)
  <2>1. w = [u EXCEPT !.rxd = level]
    BY <1>2
  <2> HIDE DEF level
  <2> QED BY <2>1 DEF Chip
<1>4. ReceiverEnabled(w)
  BY <1>1, <1>3 DEF ReceiverEnabled
<1>5. OnLine(w, d) /\ Ahead(w) = Ahead(u)
  BY <1>1, <1>2, LineKept
<1>6. /\ w.mode = u.mode /\ w.line = u.line /\ w.receive_phase = u.receive_phase
      /\ w.receive_clocks = u.receive_clocks
  BY <1>2 DEF SameFollow, SameLine
<1>7. Sees(w, d)
  <2>1. Frame(w, d[1]) = Frame(u, d[1]) /\ FrameBits(w) = FrameBits(u)
    BY <1>6, ModeSays
  <2> QED BY <1>2, <1>6, <2>1 DEF Sees
<1>8. StopBits(w) = StopBits(u) /\ Synchronous(w) = Synchronous(u)
  BY <1>6, ModeSays
<1>9. e = ReceiveAsync(w)
  BY <1>4, <1>5, Zenon DEF ReceiveClockEdge, OnLine
<1>10. ReceiverStep(w, e)
  BY <1>2, ReceiveClockEdgeType
<1> HIDE DEF e
<1>11. CASE u.receive_phase = "idle"
  <2>1. Len(w.line) <= StopBits(w)
    BY <1>6, <1>8, <1>11 DEF Tracked
  <2>2. w.rxd = TRUE
    BY <1>2, <1>5, <1>7, <2>1, StopIsHigh
  <2>3. e = w
    BY <1>6, <1>9, <1>11, <2>2, Zenon DEF ReceiveAsync
  <2>4. ~SamplesStop(u)
    BY <1>11 DEF SamplesStop
  <2> QED BY <1>2, <1>6, <1>10, <1>11, <2>3, <2>4 DEF e, w
<1>12. CASE u.receive_phase # "idle"
  <2>1. Follows(u, d, Ahead(u))
    BY <1>12 DEF Tracked
  <2>2. Follows(w, d, Ahead(w))
    BY <1>2, <1>5, <2>1, FollowKept
  <2>3. u.receive_phase \in {"start", "data", "parity", "stop"} /\ u.receive_clocks \in 1 .. BaudFactor(u)
          /\ BaudFactor(u) \in Nat
    BY <2>1, FieldsOf, WordType DEF Follows
  <2>4. CASE u.receive_clocks > 1
    <3>1. e = [w EXCEPT !.receive_clocks = @ - 1]
      BY <1>6, <1>9, <1>12, <2>4, Zenon DEF ReceiveAsync
    <3>2. Follows(e, d, Ahead(w) - 1) /\ SameLine(w, e)
      BY <1>2, <1>5, <1>6, <2>2, <2>4, <3>1, CountsDown
    <3>3. ~SamplesStop(u)
      <4>1. ~(u.receive_clocks <= 1)
        BY <2>3, <2>4
      <4> QED BY <4>1 DEF SamplesStop
    <3>4. SameLine(u, e)
      BY <1>2, <3>2 DEF SameLine
    <3> QED BY <1>5, <1>10, <1>12, <3>2, <3>3, <3>4 DEF e, w
  <2>5. CASE ~(u.receive_clocks > 1)
    <3>1. u.receive_clocks = 1 /\ u.receive_clocks <= 1
      BY <2>3, <2>5
    <3>2. e = SampleAsync([w EXCEPT !.receive_clocks = BaudFactor(w)])
      BY <1>6, <1>9, <1>12, <2>5, Zenon DEF ReceiveAsync
    <3>3. CASE u.receive_phase = "stop"
      <4>1. /\ e.receive_phase = "idle" /\ SameLine(w, e) /\ ReceivedAs(w, e, d)
            /\ Len(w.line) = StopBits(w)
        BY <1>2, <1>4, <1>5, <1>6, <1>7, <2>2, <3>1, <3>2, <3>3, StopSampled
      <4>2. SameLine(u, e)
        BY <1>2, <4>1 DEF SameLine
      <4>3. ReceivedAs(u, e, d)
        BY <1>3, <4>1 DEF ReceivedAs
      <4>4. Len(u.line) = StopBits(u)
        BY <1>6, <1>8, <4>1
      <4>5. SamplesStop(u)
        BY <1>1, <3>1, <3>3 DEF SamplesStop
      <4> QED BY <1>10, <1>12, <4>1, <4>2, <4>3, <4>4, <4>5 DEF e, w
    <3>4. CASE u.receive_phase # "stop"
      <4>1. Follows(e, d, Ahead(w) - 1) /\ SameLine(w, e)
        <5>1. CASE u.receive_phase = "start"
          BY <1>2, <1>5, <1>6, <1>7, <2>2, <3>1, <3>2, <5>1, StartSampled
        <5>2. CASE u.receive_phase = "data"
          BY <1>2, <1>5, <1>6, <1>7, <2>2, <3>1, <3>2, <5>2, DataSampled
        <5>3. CASE u.receive_phase = "parity"
          BY <1>2, <1>5, <1>6, <1>7, <2>2, <3>1, <3>2, <5>3, ParitySampled
        <5> QED BY <2>3, <3>4, <5>1, <5>2, <5>3
      <4>2. ~SamplesStop(u)
        BY <3>4 DEF SamplesStop
      <4>3. SameLine(u, e)
        BY <1>2, <4>1 DEF SameLine
      <4> QED BY <1>5, <1>10, <1>12, <4>1, <4>2, <4>3 DEF e, w
    <3> QED BY <3>3, <3>4
  <2> QED BY <2>4, <2>5
<1> QED BY <1>11, <1>12

SameData(u, v) ==
  /\ v.receive_ready = u.receive_ready /\ v.receive_buffer = u.receive_buffer
  /\ v.overrun_error = u.overrun_error /\ v.parity_error = u.parity_error
  /\ v.framing_error = u.framing_error /\ v.break_detected = u.break_detected

LEMMA AdvanceLineKeeps ==
  ASSUME NEW u \in Chip
  PROVE  LET v == AdvanceLine(u)
         IN /\ SameFollow(u, v) /\ SameData(u, v)
            /\ v.phase = u.phase /\ v.command = u.command
<1> DEFINE Kept(v) == /\ SameFollow(u, v) /\ SameData(u, v)
                      /\ v.phase = u.phase /\ v.command = u.command
<1>1. ASSUME NEW line, NEW clocks, NEW level
      PROVE  /\ Kept([u EXCEPT !.line_clocks = clocks])
             /\ Kept([u EXCEPT !.line = line, !.line_clocks = clocks])
             /\ Kept([u EXCEPT !.line = line, !.line_clocks = clocks, !.rxd = level])
  BY DEF SameFollow, SameData, Chip
<1>2. Kept(u)
  BY DEF SameFollow, SameData
<1>3. \/ AdvanceLine(u) = u
      \/ AdvanceLine(u) = [u EXCEPT !.line_clocks = u.line_clocks - 1]
      \/ AdvanceLine(u) = [u EXCEPT !.line = Tail(u.line), !.line_clocks = BaudFactor(u)]
      \/ AdvanceLine(u) = [u EXCEPT !.line = <<>>, !.line_clocks = 0, !.rxd = TRUE]
  BY DEF AdvanceLine
<1> HIDE DEF Kept
<1>4. /\ Kept([u EXCEPT !.line_clocks = u.line_clocks - 1])
      /\ Kept([u EXCEPT !.line = Tail(u.line), !.line_clocks = BaudFactor(u)])
      /\ Kept([u EXCEPT !.line = <<>>, !.line_clocks = 0, !.rxd = TRUE])
  BY <1>1, Zenon
<1>5. Kept(AdvanceLine(u))
  BY <1>2, <1>3, <1>4, Zenon
<1> QED BY <1>5 DEF Kept

LEMMA AheadType ==
  ASSUME NEW u \in Chip, NEW d, OnLine(u, d)
  PROVE  Ahead(u) \in Nat
<1> DEFINE b == BaudFactor(u)
           x == (Len(u.line) - 1) * b
           c == u.line_clocks
<1>1. Len(u.line) \in 1 .. FrameBits(u) /\ FrameBits(u) \in Nat /\ c \in 1 .. b /\ b \in Nat
  BY FieldsOf, FrameLength, WordType DEF OnLine
<1>2. Ahead(u) = x + c
  BY DEF Ahead
<1>3. x \in Nat
  <2> HIDE DEF b
  <2> QED BY <1>1
<1> HIDE DEF x, c, b
<1> QED BY <1>1, <1>2, <1>3

(* A receiver that still follows has more of the frame ahead of it.        *)
LEMMA MoreToFollow ==
  ASSUME NEW u \in Chip, BaudFactor(u) > 1, NEW d, NEW ahead \in Nat, Follows(u, d, ahead)
  PROVE  ahead > 0
<1> DEFINE b == BaudFactor(u)
           h == b - b \div 2
           y == BitsAfter(u)
           c == u.receive_clocks
<1>1. b \in Nat /\ b > 1 /\ y \in Nat
  BY FieldsOf, WordType, BitsAfterType
<1>2. c \in 1 .. b /\ ahead + 1 = y * b + h + c
  BY DEF Follows
<1>3. h \in Nat /\ h > 0
  <2> HIDE DEF b
  <2> QED BY <1>1
<1>4. y * b \in Nat
  <2> HIDE DEF b, y
  <2> QED BY <1>1
<1> DEFINE t == y * b
<1>5. t \in Nat /\ ahead + 1 = t + h + c
  BY <1>2, <1>4
<1> HIDE DEF b, h, y, c, t
<1> QED BY <1>1, <1>2, <1>3, <1>5

Counted(u, d) == IF SamplesStop(u) THEN <<d[1], d[2] + 1>> ELSE d

(* One edge of RxC on a frame that is followed.                            *)
LEMMA ClockTracked ==
  ASSUME NEW u, ChipOK(u), NEW d, Tracked(u, d)
  PROVE  LET v == ClockReceive(u)
         IN /\ v.mode = u.mode
            /\ SamplesStop(u) => ReceivedAs(u, v, d)
            /\ v.line # <<>> => Tracked(v, Counted(u, d))
            /\ v.line = <<>> => v.receive_phase = "idle" /\ Counted(u, d)[2] = 1
<1> DEFINE w == DriveLine(u)
           e == ReceiveClockEdge(w)
           v == AdvanceLine(e)
           c == Counted(u, d)
<1>1. u \in Chip /\ ReceiverEnabled(u) /\ OnLine(u, d)
  BY BoundsOf DEF Tracked
<1>2. u.line # <<>>
  <2>1. Len(u.line) \in 1 .. FrameBits(u) /\ FrameBits(u) \in Nat
    BY <1>1, FieldsOf, FrameLength DEF OnLine
  <2>2. Len(u.line) # 0
    BY <2>1
  <2> QED BY <2>2, EmptySeq
<1>3. ClockReceive(u) = v
  <2>1. StartQueuedFrame(u) = u
    BY <1>2 DEF StartQueuedFrame, StartsFrame
  <2> QED BY <2>1 DEF ClockReceive
<1>4. /\ SameLine(u, e) /\ ReceiverStep(w, e)
      /\ u.receive_phase = "idle" => e.receive_phase = "idle"
      /\ SamplesStop(u) => /\ e.receive_phase = "idle" /\ ReceivedAs(u, e, d)
                           /\ Len(u.line) = StopBits(u)
      /\ u.receive_phase # "idle" /\ ~SamplesStop(u) => Follows(e, d, Ahead(u) - 1)
  BY <1>1, EdgeTracked
<1>5. SameReceiver(u, w)
  BY LineKeepsReceiver
<1> HIDE DEF w
<1>6. e \in Chip /\ e.phase = u.phase /\ e.command = u.command /\ e.mode = u.mode
  <2>1. e \in Chip /\ e.phase = w.phase /\ e.command = w.command /\ e.mode = w.mode
    <3> HIDE DEF e
    <3> QED BY <1>4 DEF ReceiverStep, Outside
  <2>2. w.phase = u.phase /\ w.command = u.command /\ w.mode = u.mode
    BY <1>5 DEF SameReceiver
  <2> QED BY <2>1, <2>2
<1> HIDE DEF e
<1>7. OnLine(e, d) /\ Ahead(e) = Ahead(u)
  BY <1>1, <1>4, LineKept
<1>8. /\ SameFollow(e, v) /\ SameData(e, v)
      /\ v.phase = e.phase /\ v.command = e.command
  BY <1>6, AdvanceLineKeeps
<1>9. \/ v.line = <<>> /\ Ahead(e) = 1 /\ v.mode = e.mode
      \/ v.line # <<>> /\ OnLine(v, d) /\ Ahead(v) + 1 = Ahead(e)
           /\ Len(v.line) <= Len(e.line) /\ v.mode = e.mode
  BY <1>6, <1>7, LineAdvances
<1> HIDE DEF v
<1>10. v.mode = u.mode /\ ReceiverEnabled(v) /\ v.receive_phase = e.receive_phase
  <2>1. v.mode = u.mode /\ v.phase = u.phase /\ v.command = u.command
    BY <1>6, <1>8, <1>9
  <2> QED BY <1>1, <1>8, <2>1 DEF ReceiverEnabled, SameFollow
<1>11. ASSUME SamplesStop(u) PROVE ReceivedAs(u, v, d)
  <2>1. ReceivedAs(u, e, d)
    BY <1>4, <1>11
  <2> QED BY <1>8, <2>1, Zenon DEF ReceivedAs, SameData
<1>12. e.receive_phase = "idle" => Len(e.line) <= StopBits(v) /\ c[2] = 1 /\ c[1] = d[1]
  <2>1. e.line = u.line /\ StopBits(v) = StopBits(u)
    BY <1>4, <1>10, ModeSays DEF SameLine
  <2>2. StopBits(u) \in Nat
    <3>1. StopBits(u) \in 1 .. 2
      BY <1>1, FieldsOf, WordType
    <3> QED BY <3>1
  <2>3. CASE SamplesStop(u)
    <3>1. c = <<d[1], d[2] + 1>> /\ u.receive_phase # "idle"
      BY <2>3 DEF Counted, SamplesStop
    <3>2. d[2] = 0
      BY <3>1 DEF Tracked
    <3>3. Len(u.line) = StopBits(u)
      BY <1>4, <2>3
    <3> QED BY <2>1, <2>2, <3>1, <3>2, <3>3
  <2>4. CASE ~SamplesStop(u) /\ u.receive_phase = "idle"
    <3>1. c = d
      BY <2>4 DEF Counted
    <3>2. d[2] = 1 /\ Len(u.line) <= StopBits(u)
      BY <2>4 DEF Tracked
    <3> QED BY <2>1, <3>1, <3>2
  <2>5. CASE ~SamplesStop(u) /\ u.receive_phase # "idle"
    <3>1. Follows(e, d, Ahead(u) - 1)
      BY <1>4, <2>5
    <3>2. e.receive_phase # "idle"
      BY <3>1 DEF Follows
    <3> QED BY <3>2
  <2> QED BY <2>3, <2>4, <2>5
<1>13. e.receive_phase # "idle" => Follows(e, d, Ahead(u) - 1) /\ c = d /\ d[2] = 0
  <2>1. ASSUME e.receive_phase # "idle"
        PROVE  u.receive_phase # "idle" /\ ~SamplesStop(u)
    BY <1>4, <2>1
  <2>2. u.receive_phase # "idle" => d[2] = 0
    BY DEF Tracked
  <2> QED BY <1>4, <2>1, <2>2 DEF Counted
<1>14. c[1] = d[1]
  BY <1>12, <1>13
<1>15. Ahead(u) \in Nat
  BY <1>1, AheadType
<1>16. CASE v.line = <<>>
  <2>1. Ahead(u) = 1
    BY <1>7, <1>9, <1>16
  <2>2. e.receive_phase = "idle"
    <3> SUFFICES ASSUME e.receive_phase # "idle" PROVE FALSE
      OBVIOUS
    <3>1. Follows(e, d, Ahead(u) - 1)
      BY <1>13
    <3>2. Ahead(u) - 1 = 0 /\ Ahead(u) - 1 \in Nat
      BY <2>1
    <3>3. BaudFactor(e) > 1
      BY <1>7 DEF OnLine
    <3>4. Ahead(u) - 1 > 0
      BY <1>6, <3>1, <3>2, <3>3, MoreToFollow
    <3> QED BY <3>2, <3>4
  <2> QED BY <1>3, <1>10, <1>11, <1>12, <1>16, <2>2 DEF c
<1>17. CASE v.line # <<>>
  <2>1. OnLine(v, d) /\ Ahead(v) + 1 = Ahead(u) /\ Len(v.line) <= Len(e.line)
    BY <1>7, <1>9, <1>17
  <2>2. OnLine(v, c)
    BY <1>14, <2>1 DEF OnLine
  <2>3. CASE e.receive_phase = "idle"
    <3>1. Len(e.line) <= StopBits(v) /\ c[2] = 1
      BY <1>12, <2>3
    <3>2. Len(v.line) <= StopBits(v)
      <4>1. Len(v.line) \in 1 .. FrameBits(v) /\ FrameBits(v) \in Nat
        BY <1>1, <1>10, <2>1, FieldsOf, FrameLength DEF OnLine
      <4>2. Len(e.line) \in Nat
        BY <1>6, FieldsOf, LenProperties
      <4>3. StopBits(v) \in 1 .. 2
        BY <1>1, <1>10, FieldsOf, WordType
      <4> QED BY <2>1, <3>1, <4>1, <4>2, <4>3
    <3>3. Tracked(v, c)
      BY <1>10, <2>2, <2>3, <3>1, <3>2 DEF Tracked
    <3> QED BY <1>3, <1>10, <1>11, <1>17, <3>3 DEF c
  <2>4. CASE e.receive_phase # "idle"
    <3>1. Follows(e, d, Ahead(u) - 1) /\ c = d /\ d[2] = 0
      BY <1>13, <2>4
    <3>2. Ahead(v) = Ahead(u) - 1
      <4>1. Ahead(v) \in Int
        <5>1. Len(v.line) \in 1 .. FrameBits(v) /\ FrameBits(v) \in Nat
                /\ v.line_clocks \in 1 .. BaudFactor(v)
          BY <1>1, <1>10, <2>1, FieldsOf, FrameLength DEF OnLine
        <5>2. BaudFactor(v) \in Nat
          BY <1>1, <1>10, FieldsOf, WordType
        <5> DEFINE b == BaudFactor(v)
                   x == (Len(v.line) - 1) * b
                   k == v.line_clocks
        <5>3. Ahead(v) = x + k /\ k \in 1 .. b
          BY <5>1 DEF Ahead
        <5>4. x \in Nat /\ b \in Nat
          <6>1. b \in Nat
            BY <5>2
          <6> HIDE DEF b
          <6> QED BY <5>1, <6>1
        <5> HIDE DEF b, x, k
        <5> QED BY <5>3, <5>4
      <4> QED BY <1>15, <2>1, <4>1
    <3>3. Follows(v, d, Ahead(v))
      BY <1>8, <3>1, <3>2, FollowKept
    <3>4. Tracked(v, c)
      BY <1>10, <2>1, <2>4, <3>1, <3>3 DEF Tracked
    <3> QED BY <1>3, <1>10, <1>11, <1>17, <3>4 DEF c
  <2> QED BY <2>3, <2>4
<1> QED BY <1>16, <1>17

(* The edge at which a frame begins with the receiver waiting for it: half *)
(* a bit from now it looks at the start bit again.                         *)
LEMMA ClockAwaited ==
  ASSUME NEW u, ChipOK(u), Awaits(u), ~(u.mode[1] /\ ~u.mode[2])
  PROVE  LET v == ClockReceive(u)
         IN /\ v.mode = u.mode /\ v.line # <<>>
            /\ Tracked(v, <<Masked(u, Head(u.queue)), 0>>)
<1> DEFINE byte == Head(u.queue)
           data == Masked(u, byte)
           d == <<data, 0>>
           f == Frame(u, byte)
           b == BaudFactor(u)
           m == FrameBits(u)
           s == StartQueuedFrame(u)
           w == DriveLine(s)
           e == ReceiveClockEdge(w)
           v == AdvanceLine(e)
<1>1. /\ u \in Chip /\ u.mode \in Byte /\ ReceiverEnabled(u) /\ ~Synchronous(u)
      /\ u.receive_phase = "idle" /\ StartsFrame(u)
  BY BoundsOf, FieldsOf DEF Awaits
<1>2. b \in Nat /\ b > 1 /\ m \in Nat /\ m > 0
  <2>1. u.mode[2]
    BY <1>1 DEF Synchronous
  <2>2. Factor16 \in Nat /\ Factor64 \in Nat /\ Factor16 > 1 /\ Factor64 > 1
    BY UartAssumption
  <2>3. b \in Nat /\ b > 1
    BY <2>1, <2>2 DEF BaudFactor
  <2> QED BY <1>1, <2>3, FrameLength
<1>3. data \in Seq(BOOLEAN) /\ Len(data) = CharacterBits(u)
  BY <1>1, MaskedType
<1>4. Frame(u, data) = f
  BY <1>1, MaskedTwice, Zenon DEF Frame
<1>5. f \in Seq(BOOLEAN) /\ Len(f) = m
  BY <1>1, FrameType, FrameLength
<1>6. s = [u EXCEPT !.queue = Tail(u.queue), !.line = f, !.line_clocks = b]
  BY <1>1 DEF StartQueuedFrame
<1>7. s \in Chip
  BY StartQueuedFrameType, BoundsOf
<1> HIDE DEF byte, data, f, b, m, s
<1>8. /\ s.mode = u.mode /\ s.line = f /\ s.line_clocks = b /\ s.receive_phase = "idle"
      /\ s.phase = u.phase /\ s.command = u.command
  <2> DEFINE rest == Tail(u.queue)
  <2>1. s = [u EXCEPT !.queue = rest, !.line = f, !.line_clocks = b]
    BY <1>6
  <2> HIDE DEF rest
  <2> QED BY <1>1, <2>1 DEF Chip
<1>9. /\ BaudFactor(s) = b /\ FrameBits(s) = m /\ ~Synchronous(s)
      /\ CharacterBits(s) = CharacterBits(u) /\ Frame(s, data) = f
  BY <1>1, <1>4, <1>8, ModeSays DEF b, m
<1>10. OnLine(s, d)
  <2>1. d[1] = data
    OBVIOUS
  <2> HIDE DEF d
  <2>2. b \in 1 .. b /\ m \in 1 .. m
    BY <1>2
  <2>3. ASSUME NEW i \in 1 .. Len(s.line)
        PROVE  s.line[i] = Frame(s, d[1])[(FrameBits(s) - Len(s.line)) + i]
    <3>1. i \in 1 .. m
      BY <1>5, <1>8, <2>3
    <3>2. (FrameBits(s) - Len(s.line)) + i = i
      <4>1. FrameBits(s) = m /\ Len(s.line) = m
        BY <1>5, <1>8, <1>9
      <4> QED BY <1>2, <3>1, <4>1
    <3> QED BY <1>8, <1>9, <2>1, <3>2
  <2> QED BY <1>2, <1>3, <1>5, <1>8, <1>9, <2>1, <2>2, <2>3 DEF OnLine
<1>11. /\ w \in Chip /\ SameFollow(s, w) /\ SameLine(s, w)
       /\ w.rxd = Frame(s, d[1])[(FrameBits(s) - Len(s.line)) + 1]
       /\ w = [s EXCEPT !.rxd = Head(s.line)]
  BY <1>7, <1>10, LineLevel
<1>12. w.rxd = FALSE
  <2>1. Frame(s, d[1]) = f /\ (FrameBits(s) - Len(s.line)) + 1 = 1
    <3>1. FrameBits(s) = m /\ Len(s.line) = m
      BY <1>5, <1>8, <1>9
    <3>2. d[1] = data
      OBVIOUS
    <3> HIDE DEF d
    <3> QED BY <1>2, <1>9, <3>1, <3>2
  <2>2. f[1] = FALSE
    BY <1>1, <1>3, <1>4, FrameAsync, Zenon
  <2> QED BY <1>11, <2>1, <2>2
<1> HIDE DEF w
<1>13. /\ w.mode = u.mode /\ w.receive_phase = "idle"
       /\ w.phase = u.phase /\ w.command = u.command
  <2>1. w.mode = u.mode /\ w.receive_phase = "idle"
    BY <1>8, <1>11 DEF SameFollow
  <2> DEFINE level == Head(s.line)
  <2>2. w = [s EXCEPT !.rxd = level]
    BY <1>11
  <2> HIDE DEF level
  <2>3. w.phase = s.phase /\ w.command = s.command
    BY <1>7, <2>2 DEF Chip
  <2> QED BY <1>8, <2>1, <2>3
<1> DEFINE half == b \div 2
<1>14. half \in 1 .. b /\ (b - half) + half = b
  BY <1>2
<1>15. StartDelay(w) = half
  <2>1. BaudFactor(w) = b
    BY <1>13, ModeSays DEF b
  <2> QED BY <1>2, <2>1 DEF StartDelay
<1> HIDE DEF half
<1>16. e = [w EXCEPT !.receive_phase = "start", !.receive_clocks = half]
  <2>1. ReceiverEnabled(w) /\ ~Synchronous(w)
    BY <1>1, <1>13, ModeSays DEF ReceiverEnabled
  <2> QED BY <1>12, <1>13, <1>15, <2>1, Zenon DEF ReceiveClockEdge, ReceiveAsync
<1>17. e \in Chip /\ ReceiverEnabled(e)
  <2>1. ReceiverStep(w, e)
    BY <1>11, ReceiveClockEdgeType
  <2> HIDE DEF e
  <2>2. e \in Chip /\ e.phase = u.phase /\ e.command = u.command
    BY <1>13, <2>1 DEF ReceiverStep, Outside
  <2> QED BY <1>1, <2>2 DEF ReceiverEnabled
<1> HIDE DEF e
<1>18. /\ e.mode = u.mode /\ e.receive_phase = "start" /\ e.receive_clocks = half
       /\ e.line = w.line /\ e.line_clocks = w.line_clocks
  BY <1>11, <1>13, <1>16 DEF Chip
<1>19. OnLine(e, d) /\ Ahead(e) = Ahead(s)
  <2>1. SameLine(s, e)
    BY <1>8, <1>11, <1>18 DEF SameLine
  <2> HIDE DEF d
  <2> QED BY <1>10, <2>1, LineKept
<1>20. Ahead(s) = (m - 1) * b + b
  BY <1>5, <1>8, <1>9 DEF Ahead
<1>21. BitsAfter(e) = m - 1
  <2> DEFINE n == CharacterBits(u)
             p == ParityBits(u)
             q == StopBits(u)
  <2>1. n \in 1 .. 8 /\ q \in 1 .. 2 /\ p \in {0, 1}
    BY <1>1, WordType DEF ParityBits
  <2>2. m = 1 + n + p + q
    BY <1>1, <1>3, FrameAsync DEF m
  <2>3. BitsAfter(e) = n + p + q
    BY <1>18, ModeSays DEF BitsAfter
  <2> HIDE DEF n, p, q
  <2> QED BY <2>1, <2>2, <2>3
<1>22. Follows(e, d, Ahead(s) - 1)
  <2> DEFINE t == (m - 1) * b
             a == Ahead(s)
  <2>1. t \in Nat
    BY <1>2
  <2>2. a = t + b
    BY <1>20
  <2>3. BaudFactor(e) = b
    BY <1>18, ModeSays DEF b
  <2>4. (a - 1) + 1 = t + (b - half) + half
    <3> HIDE DEF t, a
    <3> QED BY <1>2, <1>14, <2>1, <2>2
  <2>5. (a - 1) + 1 = BitsAfter(e) * BaudFactor(e)
          + (BaudFactor(e) - BaudFactor(e) \div 2) + e.receive_clocks
    BY <1>18, <1>21, <2>3, <2>4 DEF half
  <2>6. e.receive_clocks \in 1 .. BaudFactor(e)
    BY <1>14, <1>18, <2>3
  <2> HIDE DEF a
  <2> QED BY <1>18, <2>5, <2>6 DEF Follows, a
<1>23. /\ SameFollow(e, v) /\ v.phase = e.phase /\ v.command = e.command
  BY <1>17, AdvanceLineKeeps
<1>24. \/ v.line = <<>> /\ Ahead(e) = 1 /\ v.mode = e.mode
       \/ v.line # <<>> /\ OnLine(v, d) /\ Ahead(v) + 1 = Ahead(e)
            /\ Len(v.line) <= Len(e.line) /\ v.mode = e.mode
  <2> HIDE DEF d
  <2> QED BY <1>17, <1>19, LineAdvances
<1> HIDE DEF v, d
<1>25. Ahead(s) > 1 /\ Ahead(s) \in Nat
  <2> DEFINE t == (m - 1) * b
  <2>1. t \in Nat
    BY <1>2
  <2>2. Ahead(s) = t + b
    BY <1>20
  <2> HIDE DEF t
  <2> QED BY <1>2, <2>1, <2>2
<1>26. v.line # <<>> /\ OnLine(v, d) /\ Ahead(v) + 1 = Ahead(s) /\ v.mode = u.mode
  <2>1. Ahead(e) # 1
    BY <1>19, <1>25
  <2> QED BY <1>18, <1>19, <1>24, <2>1
<1>27. v \in Chip
  <2>1. ChipOK(ClockReceive(u))
    BY ClockReceiveType
  <2> QED BY <2>1, BoundsOf DEF ClockReceive, v, e, w, s
<1>28. Ahead(v) = Ahead(s) - 1
  <2>1. Ahead(v) \in Nat
    BY <1>26, <1>27, AheadType
  <2> QED BY <1>25, <1>26, <2>1
<1>29. Follows(v, d, Ahead(v))
  BY <1>22, <1>23, <1>28, FollowKept
<1>30. ReceiverEnabled(v) /\ v.receive_phase # "idle"
  BY <1>17, <1>18, <1>23 DEF ReceiverEnabled, SameFollow
<1>31. d[2] = 0
  BY DEF d
<1>32. Tracked(v, d)
  BY <1>26, <1>29, <1>30, <1>31 DEF Tracked
<1>33. ClockReceive(u) = v
  BY DEF ClockReceive, v, e, w, s
<1> QED BY <1>26, <1>32, <1>33 DEF d, data, byte

LEMMA TrackedKept ==
  ASSUME NEW u, NEW v, NEW d, Tracked(u, d), SameFollow(u, v), SameLine(u, v), ReceiverEnabled(v)
  PROVE  Tracked(v, d)
<1>1. OnLine(v, d) /\ Ahead(v) = Ahead(u)
  BY LineKept DEF Tracked
<1>2. v.line = u.line /\ v.receive_phase = u.receive_phase /\ StopBits(v) = StopBits(u)
  BY ModeSays DEF SameLine, SameFollow
<1>3. u.receive_phase # "idle" => Follows(v, d, Ahead(v))
  BY <1>1, FollowKept DEF Tracked
<1> QED BY <1>1, <1>2, <1>3 DEF Tracked

(* A command that leaves the receiver on does not disturb a character.     *)
LEMMA CommandKeepsFrame ==
  ASSUME NEW u, ChipOK(u), NEW value \in Byte, ~value[7], ~Synchronous(u)
  PROVE  LET v == AcceptCommand(u, value)
         IN /\ v.mode = u.mode /\ SameLine(u, v)
            /\ ReceiverEnabled(v) => SameFollow(u, v)
<1> DEFINE stored == [u EXCEPT !.command = value]
           cleared == IF value[5] THEN ResetErrors(stored) ELSE stored
           marking == IF value[1] THEN cleared ELSE [cleared EXCEPT !.txd = TRUE]
           idle == IF value[3] THEN marking ELSE [marking EXCEPT !.receive_phase = "idle"]
           v == AcceptCommand(u, value)
           Kept(w) == /\ w \in Chip /\ SameFollow(u, w) /\ SameLine(u, w) /\ w.command = value
<1>1. v = idle
  BY DEF AcceptCommand
<1>2. Kept(stored)
  <2>1. u \in Chip
    BY BoundsOf
  <2>2. stored \in Chip
    BY <2>1 DEF Chip
  <2>3. SameFollow(u, stored)
    BY <2>1 DEF Chip, SameFollow
  <2>4. SameLine(u, stored) /\ stored.command = value
    BY <2>1 DEF Chip, SameLine
  <2> QED BY <2>2, <2>3, <2>4
<1> HIDE DEF stored
<1>3. Kept(cleared)
  <2>1. ReceiverStep(stored, ResetErrors(stored))
    <3>1. ResetErrors(stored) \in Chip
      BY <1>2, ZenonT(60) DEF ResetErrors, Chip
    <3>2. Outside(stored, ResetErrors(stored))
      BY <1>2 DEF ResetErrors, Chip, Outside
    <3> QED BY <3>1, <3>2 DEF ReceiverStep
  <2>2. SameFollow(u, ResetErrors(stored)) /\ SameLine(u, ResetErrors(stored))
          /\ ResetErrors(stored).command = value
    BY <1>2 DEF ResetErrors, Chip, SameFollow, SameLine
  <2>3. Kept(ResetErrors(stored))
    BY <2>1, <2>2 DEF ReceiverStep
  <2> HIDE DEF Kept
  <2> QED BY <1>2, <2>3
<1> HIDE DEF cleared
<1>4. Kept(marking)
  <2>1. Kept([cleared EXCEPT !.txd = TRUE])
    BY <1>3 DEF Chip, SameFollow, SameLine
  <2> HIDE DEF Kept
  <2> QED BY <1>3, <2>1
<1> HIDE DEF marking
<1>5. CASE value[3]
  <2>1. v = marking
    BY <1>1, <1>5
  <2> QED BY <1>4, <2>1 DEF SameFollow
<1>6. CASE ~value[3]
  <2>1. v = [marking EXCEPT !.receive_phase = "idle"]
    BY <1>1, <1>6
  <2> HIDE DEF v
  <2>2. /\ v.mode = marking.mode /\ v.line = marking.line
        /\ v.line_clocks = marking.line_clocks /\ v.command = value
    BY <1>4, <2>1 DEF Chip
  <2>3. ~ReceiverEnabled(v)
    BY <1>6, <2>2 DEF ReceiverEnabled
  <2>4. SameLine(u, v)
    BY <1>4, <2>2 DEF SameLine
  <2> QED BY <2>3, <2>4 DEF SameLine, v
<1> QED BY <1>5, <1>6

LEMMA WriteControlMode ==
  ASSUME NEW u, ChipOK(u), NEW value \in Byte
  PROVE  LET v == WriteControl(u, value)
         IN IF u.phase = "mode" THEN v.mode = value ELSE v.mode \in {u.mode, Zero}
<1> DEFINE v == WriteControl(u, value)
<1>1. u \in Chip /\ u.phase \in Phases
  BY BoundsOf, FieldsOf
<1>2. CASE u.phase = "mode"
  <2> DEFINE w == [u EXCEPT !.mode = value, !.command = Zero, !.transmit_buffer = <<>>,
                            !.transmit_active = FALSE, !.receive_ready = FALSE,
                            !.receive_phase = "idle", !.sync_detected = FALSE,
                            !.sync_hunt = FALSE, !.syncs = <<>>]
             phase == IF Synchronous(w) THEN "sync1" ELSE "command"
  <2>1. v = [w EXCEPT !.phase = phase]
    BY <1>2 DEF WriteControl, AcceptMode
  <2> HIDE DEF phase, v
  <2>2. v.mode = value
    BY <1>1, <2>1 DEF Chip
  <2> QED BY <1>2, <2>2 DEF v
<1>3. CASE u.phase \in {"sync1", "sync2"}
  <2> DEFINE one == u.phase = "sync1"
             next == IF one /\ ~OneSync(u) THEN "sync2" ELSE "command"
             syncs == IF one THEN <<value>> ELSE <<u.syncs[1], value>>
  <2>1. v = [u EXCEPT !.syncs = syncs, !.phase = next]
    BY <1>3 DEF WriteControl
  <2> HIDE DEF next, syncs, v
  <2>2. v.mode = u.mode
    BY <1>1, <2>1 DEF Chip
  <2> QED BY <1>3, <2>2 DEF v
<1>4. CASE u.phase = "command"
  <2>1. v = AcceptCommand(u, value)
    BY <1>4 DEF WriteControl
  <2>2. CASE value[7]
    <3>1. v = ResetChip(u.cts, u.dsr)
      BY <2>1, <2>2, AcceptCommandType
    <3>2. v.mode = Zero
      BY <3>1 DEF ResetChip
    <3> QED BY <1>4, <3>2
  <2>3. CASE ~value[7]
    <3> DEFINE stored == [u EXCEPT !.command = value]
    <3>1. Outside(stored, v)
      BY <2>1, <2>3, AcceptCommandType
    <3>2. stored.mode = u.mode
      BY <1>1 DEF Chip
    <3> HIDE DEF stored, v
    <3>3. v.mode = u.mode
      BY <3>1, <3>2 DEF Outside
    <3> QED BY <1>4, <3>3 DEF v
  <2> QED BY <2>2, <2>3
<1> QED BY <1>1, <1>2, <1>3, <1>4 DEF Phases

LEMMA ClockReceiveMode ==
  ASSUME NEW u, ChipOK(u)
  PROVE  ClockReceive(u).mode = u.mode
<1> DEFINE s == StartQueuedFrame(u)
           w == DriveLine(s)
           e == ReceiveClockEdge(w)
<1>1. ChipOK(s) /\ s.mode = u.mode
  BY StartQueuedFrameType, LineKeepsReceiver DEF SameReceiver
<1> HIDE DEF s
<1>2. ChipOK(w) /\ w.mode = s.mode
  BY <1>1, DriveLineType, LineKeepsReceiver DEF SameReceiver
<1> HIDE DEF w
<1>3. ReceiverStep(w, e)
  BY <1>2, BoundsOf, ReceiveClockEdgeType
<1> HIDE DEF e
<1>4. ChipOK(e) /\ e.mode = w.mode
  BY <1>2, <1>3, ReceiverKeepsOK DEF ReceiverStep, Outside
<1>5. AdvanceLine(e).mode = e.mode
  BY <1>4, LineKeepsReceiver DEF SameReceiver
<1> QED BY <1>1, <1>2, <1>4, <1>5 DEF ClockReceive, e, w, s

(* A frame that began with the receiver waiting for it is tracked until it *)
(* ends or is cut off.  A character is clocked out of the line with the    *)
(* factor 1 before the receiver has looked at its last bit, so no mode     *)
(* word may say that.                                                      *)
TimesOne(mode) == mode[1] /\ ~mode[2]
FollowInv ==
  /\ ChipInv /\ ~TimesOne(chip.mode)
  /\ traffic = "send" => due = <<>>
  /\ due # <<>> => Tracked(chip, due)

LEMMA StepFollow ==
  ASSUME \A mode \in Modes : ~TimesOne(mode)
  PROVE  FollowInv /\ [Next]_vars => FollowInv'
<1> SUFFICES ASSUME FollowInv, [Next]_vars PROVE FollowInv'
  OBVIOUS
<1>1. /\ ChipInv' /\ ChipOK(chip) /\ chip \in Chip /\ chip.phase \in Phases
      /\ traffic \in {"send", "receive"} /\ ~TimesOne(chip.mode)
  <2>1. ChipInv /\ ChipInv'
    BY StepChip DEF FollowInv
  <2> QED BY <2>1, BoundsOf, FieldsOf DEF FollowInv, ChipInv, TypeOK
<1>2. traffic' = traffic
  BY DEF Next, vars, WriteControlWord, WriteDataByte, ReadDataByte, TransmitEdge, ReceiveEdge,
         QueueByte, TakeByte, Plug, ClearToSend, MachineReset
<1>3. ~TimesOne(Zero)
  BY DEF TimesOne, Zero
<1>4. due # <<>> => traffic = "receive" /\ Tracked(chip, due)
  BY <1>1 DEF FollowInv
<1>5. SUFFICES /\ ~TimesOne(chip'.mode)
               /\ due' # <<>> => traffic = "receive" /\ Tracked(chip', due')
  BY <1>1, <1>2 DEF FollowInv
<1>6. ASSUME SameFollow(chip, chip'), SameLine(chip, chip'),
             chip'.phase = chip.phase, chip'.command = chip.command, due' = due
      PROVE  /\ ~TimesOne(chip'.mode)
             /\ due' # <<>> => traffic = "receive" /\ Tracked(chip', due')
  <2>1. chip'.mode = chip.mode
    BY <1>6 DEF SameLine
  <2>2. ASSUME due # <<>> PROVE Tracked(chip', due)
    <3>1. Tracked(chip, due)
      BY <1>4, <2>2
    <3>2. ReceiverEnabled(chip')
      BY <1>6, <3>1 DEF Tracked, ReceiverEnabled
    <3> QED BY <1>6, <3>1, <3>2, TrackedKept
  <2> QED BY <1>1, <1>4, <1>6, <2>1, <2>2
<1>7. CASE WriteControlWord
  <2>1. PICK value \in ControlWords(chip.phase) : chip' = WriteControl(chip, value)
    BY <1>7 DEF WriteControlWord
  <2>2. value \in Byte
    BY <1>1, <2>1, ControlWordsAreBytes
  <2>3. ~TimesOne(chip'.mode)
    <3>1. IF chip.phase = "mode" THEN chip'.mode = value ELSE chip'.mode \in {chip.mode, Zero}
      BY <1>1, <2>1, <2>2, WriteControlMode
    <3>2. chip.phase = "mode" => ~TimesOne(value)
      BY <2>1 DEF ControlWords
    <3> QED BY <1>1, <1>3, <3>1, <3>2
  <2>4. due' = IF chip'.line # <<>> /\ ReceiverEnabled(chip') THEN due ELSE <<>>
    BY <1>7 DEF WriteControlWord, Due
  <2>5. ASSUME due' # <<>> PROVE traffic = "receive" /\ Tracked(chip', due')
    <3>1. due' = due /\ due # <<>> /\ ReceiverEnabled(chip')
      BY <2>4, <2>5
    <3>2. traffic = "receive" /\ Tracked(chip, due)
      BY <1>4, <3>1
    <3>3. chip.phase = "command" /\ ~Synchronous(chip)
      BY <3>2 DEF Tracked, ReceiverEnabled, OnLine
    <3>4. chip' = AcceptCommand(chip, value)
      BY <2>1, <3>3 DEF WriteControl
    <3>5. ~value[7]
      <4> SUFFICES ASSUME value[7] PROVE FALSE
        OBVIOUS
      <4>1. chip' = ResetChip(chip.cts, chip.dsr)
        BY <1>1, <2>2, <3>4, AcceptCommandType
      <4>2. chip'.phase = "mode"
        BY <4>1 DEF ResetChip
      <4> QED BY <3>1, <4>2 DEF ReceiverEnabled
    <3>6. SameLine(chip, chip') /\ SameFollow(chip, chip')
      BY <1>1, <2>2, <3>1, <3>3, <3>4, <3>5, CommandKeepsFrame
    <3> QED BY <3>1, <3>2, <3>6, TrackedKept
  <2> QED BY <2>3, <2>5
<1>8. CASE WriteDataByte
  <2>1. PICK byte \in Data : chip' = WriteData(chip, byte)
    BY <1>8 DEF WriteDataByte
  <2>2. chip' = [chip EXCEPT !.transmit_buffer = <<Masked(chip, byte)>>] /\ due' = due
    BY <1>8, <2>1 DEF WriteData, WriteDataByte
  <2> QED BY <1>1, <1>6, <2>2 DEF SameFollow, SameLine, Chip
<1>9. CASE ReadDataByte
  <2>1. chip' = [chip EXCEPT !.receive_ready = FALSE] /\ due' = due
    BY <1>9 DEF ReadData, ReadDataByte
  <2> QED BY <1>1, <1>6, <2>1 DEF SameFollow, SameLine, Chip
<1>10. CASE TransmitEdge
  <2>1. traffic = "send" /\ chip' = ClockTransmit(chip) /\ due' = due
    BY <1>10 DEF TransmitEdge
  <2>2. due = <<>>
    BY <2>1 DEF FollowInv
  <2>3. chip'.mode = chip.mode
    BY <1>1, <2>1, TransmitKeepsReceiver DEF SameReceiver
  <2> QED BY <1>1, <2>1, <2>2, <2>3
<1>11. CASE ReceiveEdge
  <2>1. traffic = "receive" /\ chip' = ClockReceive(chip)
          /\ due' = IF chip'.line = <<>> THEN <<>> ELSE Followed(chip)
    BY <1>11 DEF ReceiveEdge
  <2>2. CASE due # <<>>
    <3>1. Tracked(chip, due)
      BY <1>4, <2>2
    <3>2. /\ chip'.mode = chip.mode
          /\ chip'.line # <<>> => Tracked(chip', Counted(chip, due))
      BY <1>1, <2>1, <3>1, ClockTracked
    <3>3. ~Awaits(chip)
      <4>1. Len(chip.line) \in 1 .. FrameBits(chip) /\ FrameBits(chip) \in Nat
        BY <1>1, <3>1, FieldsOf, FrameLength DEF Tracked, OnLine
      <4>2. Len(chip.line) # 0
        BY <4>1
      <4>3. chip.line # <<>>
        BY <4>2, EmptySeq
      <4> QED BY <4>3 DEF Awaits, StartsFrame
    <3>4. Followed(chip) = Counted(chip, due)
      BY <2>2, <3>3 DEF Followed, Counted
    <3> QED BY <1>1, <2>1, <3>2, <3>4
  <2>3. CASE due = <<>> /\ Awaits(chip)
    <3>1. /\ chip'.mode = chip.mode
          /\ Tracked(chip', <<Masked(chip, Head(chip.queue)), 0>>)
      BY <1>1, <2>1, <2>3, ClockAwaited DEF TimesOne
    <3>2. Followed(chip) = <<Masked(chip, Head(chip.queue)), 0>>
      BY <2>3 DEF Followed
    <3> QED BY <1>1, <2>1, <3>1, <3>2
  <2>4. CASE due = <<>> /\ ~Awaits(chip)
    <3>1. Followed(chip) = <<>>
      BY <2>4 DEF Followed
    <3>2. chip'.mode = chip.mode
      BY <1>1, <2>1, ClockReceiveMode
    <3> QED BY <1>1, <2>1, <3>1, <3>2
  <2> QED BY <2>2, <2>3, <2>4
<1>12. CASE QueueByte
  <2>1. PICK byte \in Data : chip' = QueueReceivedByte(chip, byte)
    BY <1>12 DEF QueueByte
  <2> DEFINE queue == Append(chip.queue, byte)
  <2>2. chip' \in {chip, [chip EXCEPT !.queue = queue]} /\ due' = due
    BY <1>12, <2>1 DEF QueueReceivedByte, QueueByte
  <2> HIDE DEF queue
  <2> QED BY <1>1, <1>6, <2>2 DEF SameFollow, SameLine, Chip
<1>13. CASE TakeByte
  <2> DEFINE rest == Tail(chip.transmitted)
  <2>1. chip' = [chip EXCEPT !.transmitted = rest] /\ due' = due
    BY <1>13 DEF TakeTransmittedByte, TakeByte
  <2> HIDE DEF rest
  <2> QED BY <1>1, <1>6, <2>1 DEF SameFollow, SameLine, Chip
<1>14. CASE Plug
  <2> DEFINE on == ~chip.dsr
             v == [chip EXCEPT !.cts = on, !.dsr = on]
  <2>1. /\ due' = IF chip'.line # <<>> /\ ReceiverEnabled(chip') THEN due ELSE <<>>
        /\ chip' = IF on THEN v
                   ELSE [ClearQueuedReceiveBytes(v) EXCEPT !.transmitted = <<>>]
    BY <1>14 DEF Plug, SetSerialConnected, Due
  <2>2. on \in BOOLEAN
    OBVIOUS
  <2> HIDE DEF on
  <2>3. /\ SameFollow(chip, v) /\ SameLine(chip, v) /\ v \in Chip
        /\ v.phase = chip.phase /\ v.command = chip.command
    <3>1. SameFollow(chip, v)
      BY <1>1 DEF SameFollow, Chip
    <3>2. SameLine(chip, v) /\ v.phase = chip.phase /\ v.command = chip.command
      BY <1>1 DEF SameLine, Chip
    <3>3. v \in Chip
      BY <1>1, <2>2 DEF Chip
    <3> QED BY <3>1, <3>2, <3>3
  <2> HIDE DEF v
  <2>4. CASE on
    <3>1. chip' = v
      BY <2>1, <2>4
    <3>2. ~TimesOne(chip'.mode)
      BY <1>1, <2>3, <3>1 DEF SameLine
    <3>3. ASSUME due' # <<>> PROVE traffic = "receive" /\ Tracked(chip', due')
      <4>1. due' = due /\ due # <<>> /\ ReceiverEnabled(chip')
        BY <2>1, <3>3
      <4>2. traffic = "receive" /\ Tracked(chip, due)
        BY <1>4, <4>1
      <4> QED BY <2>3, <3>1, <4>1, <4>2, TrackedKept
    <3> QED BY <3>2, <3>3
  <2>5. CASE ~on
    <3> DEFINE w == ClearQueuedReceiveBytes(v)
    <3>1. w = [v EXCEPT !.queue = <<>>, !.line = <<>>, !.line_clocks = 0,
                        !.receive_phase = "idle", !.receive_clocks = 0,
                        !.pending_parity_error = FALSE, !.rxd = TRUE]
      BY DEF ClearQueuedReceiveBytes
    <3>2. chip' = [w EXCEPT !.transmitted = <<>>]
      BY <2>1, <2>5
    <3>3. chip'.mode = v.mode /\ chip'.line = <<>>
      BY <2>3, <3>1, <3>2 DEF Chip
    <3> HIDE DEF w
    <3>4. due' = <<>>
      BY <2>1, <3>3
    <3> QED BY <1>1, <2>3, <3>3, <3>4 DEF SameLine
  <2> QED BY <2>4, <2>5
<1>15. CASE ClearToSend
  <2> DEFINE clear == chip.dsr /\ ~chip.cts
  <2>1. chip' = [chip EXCEPT !.cts = clear] /\ due' = due
    BY <1>15 DEF ClearToSend, SetSerialClearToSend
  <2> HIDE DEF clear
  <2> QED BY <1>1, <1>6, <2>1 DEF SameFollow, SameLine, Chip
<1>16. CASE MachineReset
  <2>1. chip' = ResetChip(chip.cts, chip.dsr) /\ due' = <<>>
    BY <1>16 DEF MachineReset
  <2>2. chip'.mode = Zero
    BY <2>1 DEF ResetChip
  <2> QED BY <1>3, <2>1, <2>2
<1>17. CASE UNCHANGED vars
  <2>1. chip' = chip /\ due' = due
    BY <1>17 DEF vars
  <2> QED BY <1>6, <2>1 DEF SameFollow, SameLine
<1> QED BY <1>7, <1>8, <1>9, <1>10, <1>11, <1>12, <1>13, <1>14, <1>15, <1>16, <1>17 DEF Next

(* Where no mode word says factor 1, a frame that begins with the receiver *)
(* waiting is received once and whole, whatever the character length, the  *)
(* parity and the stop bits, whenever the CPU reads and commands.          *)
THEOREM ReceivedAlwaysWhole ==
  ASSUME \A mode \in Modes : ~TimesOne(mode)
  PROVE  Spec => ReceivedWhole
<1>1. Init => FollowInv
  <2> SUFFICES ASSUME Init PROVE FollowInv
    OBVIOUS
  <2>1. chip.mode = Zero /\ due = <<>>
    BY DEF Init, ResetChip
  <2> QED BY <2>1, InitChip DEF FollowInv, TimesOne, Zero
<1>2. FollowInv /\ [Next]_vars => FollowInv'
  BY StepFollow
<1> DEFINE Whole ==
      /\ traffic = "receive" /\ due # <<>> /\ SamplesStop(chip) /\ chip' = ClockReceive(chip) =>
           /\ chip'.receive_ready
           /\ <<chip'.parity_error, chip'.framing_error, chip'.break_detected>>
                = <<chip.parity_error, chip.framing_error, chip.break_detected>>
           /\ IF chip.receive_ready
              THEN chip'.overrun_error /\ chip'.receive_buffer = chip.receive_buffer
              ELSE chip'.receive_buffer = due[1] /\ chip'.overrun_error = chip.overrun_error
      /\ due # <<>> /\ chip'.line = <<>> /\ ReceiveEdge =>
           /\ Followed(chip)[2] = 1
           /\ chip'.receive_phase = "idle"
<1>3. FollowInv => Whole
  <2> SUFFICES ASSUME FollowInv PROVE Whole
    OBVIOUS
  <2>1. ChipOK(chip) /\ chip \in Chip
    BY BoundsOf DEF FollowInv, ChipInv, TypeOK
  <2>2. ASSUME due # <<>>, chip' = ClockReceive(chip)
        PROVE  /\ SamplesStop(chip) => ReceivedAs(chip, chip', due)
               /\ chip'.line = <<>> => chip'.receive_phase = "idle" /\ Counted(chip, due)[2] = 1
    <3>1. Tracked(chip, due)
      BY <2>2 DEF FollowInv
    <3> QED BY <2>1, <2>2, <3>1, ClockTracked
  <2>3. ASSUME due # <<>> PROVE Followed(chip) = Counted(chip, due)
    <3>1. Tracked(chip, due)
      BY <2>3 DEF FollowInv
    <3>2. Len(chip.line) \in 1 .. FrameBits(chip) /\ FrameBits(chip) \in Nat
      BY <2>1, <3>1, FieldsOf, FrameLength DEF Tracked, OnLine
    <3>3. Len(chip.line) # 0
      BY <3>2
    <3>4. ~Awaits(chip)
      BY <3>3, EmptySeq DEF Awaits, StartsFrame
    <3> QED BY <2>3, <3>4 DEF Followed, Counted
  <2>4. ASSUME due # <<>>, SamplesStop(chip), chip' = ClockReceive(chip)
        PROVE  /\ chip'.receive_ready
               /\ <<chip'.parity_error, chip'.framing_error, chip'.break_detected>>
                    = <<chip.parity_error, chip.framing_error, chip.break_detected>>
               /\ IF chip.receive_ready
                  THEN chip'.overrun_error /\ chip'.receive_buffer = chip.receive_buffer
                  ELSE chip'.receive_buffer = due[1] /\ chip'.overrun_error = chip.overrun_error
    <3>1. ReceivedAs(chip, chip', due)
      BY <2>2, <2>4, Zenon
    <3> QED BY <3>1, Zenon DEF ReceivedAs
  <2>5. ASSUME due # <<>>, chip'.line = <<>>, ReceiveEdge
        PROVE  Followed(chip)[2] = 1 /\ chip'.receive_phase = "idle"
    <3>1. chip' = ClockReceive(chip)
      BY <2>5 DEF ReceiveEdge
    <3>2. chip'.receive_phase = "idle" /\ Counted(chip, due)[2] = 1
      BY <2>2, <2>5, <3>1, Zenon
    <3> QED BY <2>3, <2>5, <3>2
  <2> QED BY <2>4, <2>5, Zenon
<1> QED BY <1>1, <1>2, <1>3, PTL DEF Spec, ReceivedWhole
=============================================================================
