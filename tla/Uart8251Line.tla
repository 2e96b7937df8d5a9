---------------------------- MODULE Uart8251Line ----------------------------
(***************************************************************************)
(* The 8251 in its place: the CPU that programs it, writes and reads, the  *)
(* edges of OUT1 that clock it, a peer that is plugged in and out, and     *)
(* resets of the machine in between (src/src/core/uart8251.cpp, driven     *)
(* from advance_time and the serial methods in src/src/core/machine.cpp).  *)
(* One behaviour has traffic in one direction; the transmitter and the     *)
(* receiver share no member but the two control words.                     *)
(***************************************************************************)
EXTENDS Uart8251

CONSTANTS
  Modes, Syncs, Commands,  \* bound: the control words the CPU writes, the
                           \* commands for either traffic
  Data                     \* bound: the bytes either side sends

ASSUME LineAssumption ==
  /\ Modes \cup Syncs \cup Data \subseteq Byte
  /\ Commands \in [{"send", "receive"} -> SUBSET Byte]

VARIABLES
  chip,     \* Uart8251
  traffic,  \* "send" or "receive"
  due,      \* history: <<>>, or the character of a frame that began on RxD with
            \* the receiver waiting for it, and how often it has been received
  waited,   \* history: edges of TxC a buffered character has waited while it
            \* could be sent
  seen      \* history: the last characters assembled in this hunt

vars == <<chip, traffic, due, waited, seen>>

(* The frame on RxD is no longer followed when it has been cut off. *)
Due(u) == IF u.line # <<>> /\ ReceiverEnabled(u) THEN due ELSE <<>>

Sends(u) == TransmitterEnabled(u) /\ u.cts /\ ~SendsBreak(u)

----------------------------------------------------------------------------
(* The CPU. *)

ControlWords(phase) ==
  CASE phase = "mode" -> Modes
    [] phase \in {"sync1", "sync2"} -> Syncs
    [] phase = "command" -> Commands[traffic]

WriteControlWord ==
  \E value \in ControlWords(chip.phase) :
    /\ chip' = WriteControl(chip, value)
    /\ due' = Due(chip')
    /\ seen' = IF value[8] \/ chip'.phase # "command" THEN <<>> ELSE seen
    /\ waited' = 0 /\ UNCHANGED traffic

(* A program asks the status before it writes. *)
WriteDataByte ==
  /\ traffic = "send" /\ TxReady(chip)
  /\ \E byte \in Data : chip' = WriteData(chip, byte)
  /\ UNCHANGED <<traffic, due, waited, seen>>

ReadDataByte ==
  /\ traffic = "receive" /\ chip.receive_ready
  /\ chip' = ReadData(chip)
  /\ UNCHANGED <<traffic, due, waited, seen>>

----------------------------------------------------------------------------
(* A rising edge of OUT1: clock_transmit, then clock_receive. *)

TransmitEdge ==
  /\ traffic = "send"
  /\ chip' = ClockTransmit(chip)
  /\ waited' = IF chip'.transmit_buffer # <<>> /\ Sends(chip) THEN waited + 1 ELSE 0
  /\ UNCHANGED <<traffic, due, seen>>

(* The receiver is about to look at the bit that ends a character. *)
SamplesStop(u) ==
  ReceiverEnabled(u) /\ u.receive_phase = "stop" /\ u.receive_clocks <= 1
SamplesLast(u) ==
  IF ParityEnabled(u) THEN u.receive_phase = "sync_parity"
                      ELSE u.receive_phase = "sync_data" /\ Len(u.shift) + 1 = CharacterBits(u)
Awaits(u) ==
  ReceiverEnabled(u) /\ ~Synchronous(u) /\ u.receive_phase = "idle" /\ StartsFrame(u)

Followed(u) ==
  CASE Awaits(u) -> <<Masked(u, Head(u.queue)), 0>>
    [] ~Awaits(u) /\ due # <<>> /\ SamplesStop(u) -> <<due[1], due[2] + 1>>
    [] OTHER -> due

Assembled(u) ==
  IF ParityEnabled(u) THEN u.shift ELSE Append(u.shift, DriveLine(StartQueuedFrame(u)).rxd)

ReceiveEdge ==
  /\ traffic = "receive"
  /\ chip' = ClockReceive(chip)
  /\ due' = IF chip'.line = <<>> THEN <<>> ELSE Followed(chip)
  /\ seen' = IF chip.sync_hunt /\ ReceiverEnabled(chip) /\ SamplesLast(chip)
             THEN <<Assembled(chip)>> \o (IF seen = <<>> THEN <<>> ELSE <<seen[1]>>)
             ELSE seen
  /\ UNCHANGED <<traffic, waited>>

----------------------------------------------------------------------------
(* The host and the machine. *)

QueueByte ==
  /\ traffic = "receive" /\ chip.dsr
  /\ \E byte \in Data : chip' = QueueReceivedByte(chip, byte)
  /\ UNCHANGED <<traffic, due, waited, seen>>

TakeByte ==
  /\ chip.transmitted # <<>>
  /\ chip' = TakeTransmittedByte(chip)
  /\ UNCHANGED <<traffic, due, waited, seen>>

Plug ==
  /\ chip' = SetSerialConnected(chip, ~chip.dsr)
  /\ due' = Due(chip') /\ waited' = 0
  /\ UNCHANGED <<traffic, seen>>

ClearToSend ==
  /\ traffic = "send" /\ chip.dsr
  /\ chip' = SetSerialClearToSend(chip, ~chip.cts)
  /\ waited' = 0 /\ UNCHANGED <<traffic, due, seen>>

MachineReset ==
  /\ chip' = ResetChip(chip.cts, chip.dsr)
  /\ due' = <<>> /\ waited' = 0 /\ seen' = <<>>
  /\ UNCHANGED traffic

Init ==
  /\ chip = ResetChip(TRUE, FALSE)
  /\ traffic \in {"send", "receive"}
  /\ due = <<>> /\ waited = 0 /\ seen = <<>>

Next ==
  \/ WriteControlWord \/ WriteDataByte \/ ReadDataByte
  \/ TransmitEdge \/ ReceiveEdge
  \/ QueueByte \/ TakeByte \/ Plug \/ ClearToSend \/ MachineReset

Spec == Init /\ [][Next]_vars

----------------------------------------------------------------------------
(* The SYNC characters are there when the chip needs them, and no queue    *)
(* outgrows its capacity.                                                  *)
SyncsLoaded(u) ==
  /\ u.phase # "command" => u.sync_transmit_index = 0
  /\ u.phase = "sync2" => Len(u.syncs) = 1
  /\ u.phase = "command" /\ Synchronous(u) => u.sync_transmit_index < Len(u.syncs)

ChipOK(u) ==
  /\ u \in Chip /\ SyncsLoaded(u)
  /\ Len(u.transmit_buffer) <= 1
  /\ Len(u.queue) <= UartCapacity /\ Len(u.transmitted) <= UartCapacity
  /\ u.line = <<>> => u.rxd
(* A chip waiting for its mode word has nothing to send.                    *)
Fresh(u) == u.phase = "mode" => u.transmit_buffer = <<>> /\ ~u.transmit_active

TypeOK == ChipOK(chip) /\ traffic \in {"send", "receive"}

(* Three zeros and 40h reset the chip from whatever it was doing, whether  *)
(* a mode word, SYNC characters or a command came first: the sequence a    *)
(* program uses that does not know what was written before it.  The        *)
(* inputs keep their levels.                                               *)
AfterWorstCase(u) ==
  WriteControl(WriteControl(WriteControl(WriteControl(u, Zero), Zero), Zero), Reset40)
WorstCaseReset == AfterWorstCase(chip) = ResetChip(chip.cts, chip.dsr)

(* A frame that begins on RxD while the receiver is waiting for one is     *)
(* received once and before it ends, its character unchanged, without an   *)
(* error it does not have, and the receiver waits again; with the last     *)
(* character unread it is dropped and the overrun shows, and the unread    *)
(* one stays.                                                              *)
ReceivedWhole ==
  [][ /\ traffic = "receive" /\ due # <<>> /\ SamplesStop(chip) /\ chip' = ClockReceive(chip) =>
           /\ chip'.receive_ready
           /\ <<chip'.parity_error, chip'.framing_error, chip'.break_detected>>
                = <<chip.parity_error, chip.framing_error, chip.break_detected>>
           /\ IF chip.receive_ready
              THEN chip'.overrun_error /\ chip'.receive_buffer = chip.receive_buffer
              ELSE chip'.receive_buffer = due[1] /\ chip'.overrun_error = chip.overrun_error
      /\ due # <<>> /\ chip'.line = <<>> /\ ReceiveEdge =>
           /\ Followed(chip)[2] = 1
           /\ chip'.receive_phase = "idle" ]_vars

(* In a hunt the chip is exactly as far as the characters it has assembled *)
(* match, also when the first SYNC character comes twice, and SYNDET shows *)
(* that all of them have come, until the next hunt.                        *)
HuntIsExact ==
  /\ chip.sync_hunt =>
       chip.sync_hunt_index =
         (IF Len(chip.syncs) = 2 /\ seen # <<>> /\ SameNumber(seen[1], chip.syncs[1])
          THEN 1 ELSE 0)
  /\ chip.sync_detected =>
       /\ SameNumber(seen[1], chip.syncs[Len(chip.syncs)])
       /\ Len(chip.syncs) = 2 => SameNumber(seen[2], chip.syncs[1])

(* What the program writes leaves: with CTS active, the transmitter        *)
(* enabled and no break, a character waits no longer in the buffer than    *)
(* the frame in front of it, or a SYNC character, takes.                   *)
WrittenIsSent == waited <= BaudFactor(chip) * Len(Frame(chip, Zero))

(* Seen from outside the chip is a serial port, whatever it is programmed  *)
(* to: characters, never SYNC characters or parts of a frame, move whole   *)
(* and in order, CTS holds back the next frame and not the one on the      *)
(* line, and the peer's queues do not outlive it.                          *)
FirstBits(byte) == {[i \in 1 .. bits |-> byte[i]] : bits \in 1 .. 8}
Characters == UNION {FirstBits(byte) : byte \in Data}
PortOf(u) ==
  [rx |-> u.queue, tx |-> u.transmitted, buffer |-> u.transmit_buffer,
   shift |-> IF u.transmit_active /\ u.transmit_payload THEN <<u.transmit_character>> ELSE <<>>,
   cts |-> u.cts]
Port == INSTANCE SerialPort WITH Character <- Characters, uart <- PortOf(chip)
IsSerialPort == Port!Spec
=============================================================================
