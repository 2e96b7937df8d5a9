---------------------------- MODULE Ppi8255Link ----------------------------
(***************************************************************************)
(* An 8255 programmed as the FK-1 programs its disk-data and printer PPIs  *)
(* (A6h: port A strobed output, port B strobed input) between an interrupt *)
(* driven CPU and two devices, after anything at all has been done to it.  *)
(* /STB and /ACK are moved edge by edge with set_strobe_b and set_ack_a,   *)
(* so the CPU can act inside a device's pulse.                             *)
(***************************************************************************)
EXTENDS Ppi8255Chip, Sequences

CONSTANT MaxBytes     \* bound: bytes moved in each direction

ASSUME MaxBytesAssumption == MaxBytes \in Nat

VARIABLES
  linked,    \* the chip has been programmed with A6h
  written,   \* bytes the CPU has written to port A since
  printed,   \* bytes the output device has taken
  fed,       \* bytes the input device has strobed in
  received   \* bytes the CPU has read from port B

lvars == <<ppi, linked, written, printed, fed, received>>

(* A6h, the control word hardware-spec.md section 9 derives for group 20h. *)
DataWord == [modeA |-> 1, inA |-> FALSE, inCU |-> FALSE,
             modeB |-> 1, inB |-> TRUE, inCL |-> FALSE]

LinkInit == /\ Init /\ linked = FALSE
            /\ written = <<>> /\ printed = <<>>
            /\ fed = <<>> /\ received = <<>>

(* Until the link is set up the CPU and the devices do what they like. *)
Before == ~linked /\ Next /\ UNCHANGED <<linked, written, printed, fed, received>>

SetUp ==
  /\ ~linked /\ linked' = TRUE
  /\ ppi' = WriteMode(ppi, DataWord)
  /\ UNCHANGED <<written, printed, fed, received>>

----------------------------------------------------------------------------
(* The CPU.  It enables both INTE flip-flops when it likes, hands over the *)
(* first byte unasked and every further byte when INTR_A asks for it.      *)

EnableRequests(bit) ==
  /\ linked
  /\ IF bit = 6 THEN ~ppi.a.inteOut ELSE ~ppi.b.inteIn
  /\ ppi' = BitSetReset(ppi, bit, TRUE)
  /\ UNCHANGED <<linked, written, printed, fed, received>>

CpuWrite(v) ==
  /\ linked
  /\ Len(written) < MaxBytes
  /\ written = <<>> \/ ppi.a.intr
  /\ ppi' = WriteA(ppi, v)
  /\ written' = Append(written, v)
  /\ UNCHANGED <<linked, printed, fed, received>>

CpuRead ==
  /\ linked /\ ppi.b.intr
  /\ received' = Append(received, GroupReadValue(ppi.b))
  /\ ppi' = ReadB(ppi)
  /\ UNCHANGED <<linked, written, printed, fed>>

----------------------------------------------------------------------------
(* The devices.  The output device takes a byte when /OBF is low; the      *)
(* input device offers one when IBF is low.                                *)

AckFalls ==
  /\ linked /\ ~ppi.a.obf /\ ppi.a.ack
  /\ printed' = Append(printed, ppi.a.out)
  /\ ppi' = SetAckA(ppi, FALSE)
  /\ UNCHANGED <<linked, written, fed, received>>

AckRises ==
  /\ linked /\ ~ppi.a.ack
  /\ ppi' = SetAckA(ppi, TRUE)
  /\ UNCHANGED <<linked, written, printed, fed, received>>

StrobeFalls(v) ==
  /\ linked /\ ~ppi.b.ibf /\ ppi.b.stb
  /\ Len(fed) < MaxBytes
  /\ fed' = Append(fed, v)
  /\ ppi' = SetStrobeB([ppi EXCEPT !.b.pin = v], FALSE)
  /\ UNCHANGED <<linked, written, printed, received>>

StrobeRises ==
  /\ linked /\ ~ppi.b.stb
  /\ ppi' = SetStrobeB(ppi, TRUE)
  /\ UNCHANGED <<linked, written, printed, fed, received>>

LinkNext ==
  \/ Before
  \/ SetUp
  \/ \E bit \in {2, 6} : EnableRequests(bit)
  \/ \E v \in Byte : CpuWrite(v)
  \/ CpuRead
  \/ AckFalls
  \/ AckRises
  \/ \E v \in Byte : StrobeFalls(v)
  \/ StrobeRises

(* The CPU serves its interrupts and a device finishes the pulse it began. *)
Fairness == /\ WF_lvars(\E bit \in {2, 6} : EnableRequests(bit))
            /\ WF_lvars(CpuRead)
            /\ WF_lvars(AckFalls) /\ WF_lvars(AckRises)
            /\ WF_lvars(StrobeRises)

LinkSpec == LinkInit /\ [][LinkNext]_lvars /\ Fairness

----------------------------------------------------------------------------
Pending(full, v) == IF linked /\ full THEN <<v>> ELSE <<>>

Output == INSTANCE OnePlaceBuffer
            WITH slot <- Pending(~ppi.a.obf, ppi.a.out),
                 put <- written, taken <- printed
Input == INSTANCE OnePlaceBuffer
           WITH slot <- Pending(ppi.b.ibf, ppi.b.latch),
                put <- fed, taken <- received

(* Port A and port B are one-place buffers, whatever was done before A6h:  *)
(* no byte the CPU writes is lost, repeated or overtaken on its way to the *)
(* device, whatever the CPU does between the two edges of /ACK; and the    *)
(* CPU that reads on INTR_B reads every strobed byte exactly once,         *)
(* although IBF rises on the falling edge of /STB and the request only on  *)
(* the rising one.                                                         *)
PortsAreBuffers == Output!Spec /\ Input!Spec

(* A byte in either port never waits for ever: the request for it is not   *)
(* lost when INTE is set only after the byte has arrived; and after a byte *)
(* has been taken INTR_A asks for the next one.                            *)
EveryByteArrives ==
  /\ \A n \in 1 .. MaxBytes : /\ (Len(fed) = n) ~> (Len(received) = n)
                              /\ (Len(written) = n) ~> (Len(printed) = n)
  /\ (printed # <<>>) ~> (ppi.a.intr \/ Len(written) = MaxBytes)
=============================================================================
