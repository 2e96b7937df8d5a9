------------------------------ MODULE Uart8251 ------------------------------
(***************************************************************************)
(* The 8251 USART: class Uart8251 (src/src/core/uart8251.cpp), one         *)
(* operator per method, on a record with the members of the class.  A byte *)
(* is the sequence of its bits, D0 first.  The frame in the transmitter    *)
(* and the one on RxD are the bits still to come, and a character being    *)
(* received is the bits so far, which give receive_bit_index_,             *)
(* receive_shift_ and receive_parity_ones_ (what an EH command leaves in   *)
(* the last is not used before it is cleared).                             *)
(***************************************************************************)
EXTENDS Naturals, Sequences, FiniteSets

CONSTANTS
  ShortestCharacter,    \* 5: data bits for D3:D2 = 00 of the mode word
  Factor16, Factor64,   \* 16 and 64: edges in a bit for D1:D0 = 10 and 11
  UartCapacity          \* host_receive_queue_capacity, host_transmit_queue_capacity

ASSUME UartAssumption ==
  /\ ShortestCharacter \in 2 .. 5
  /\ {Factor16, Factor64, UartCapacity} \subseteq Nat \ {0}
  /\ Factor16 > 1 /\ Factor64 > 1

Byte == [1 .. 8 -> BOOLEAN]
Zero == [bit \in 1 .. 8 |-> FALSE]
Reset40 == [Zero EXCEPT ![7] = TRUE]     \* 40h

Phases == {"mode", "sync1", "sync2", "command"}
ReceivePhases == {"idle", "start", "data", "parity", "stop", "sync_data", "sync_parity"}

Chip == [phase : Phases, mode : Byte, command : Byte,
         syncs : Seq(Byte), sync_transmit_index : Nat,
         sync_hunt : BOOLEAN, sync_hunt_index : Nat, sync_detected : BOOLEAN,
         transmit_buffer : Seq(Seq(BOOLEAN)), transmit_frame : Seq(BOOLEAN),
         transmit_character : Seq(BOOLEAN), transmit_active : BOOLEAN,
         transmit_payload : BOOLEAN, transmit_clocks : Nat,
         transmitted : Seq(Seq(BOOLEAN)), txd : BOOLEAN,
         receive_phase : ReceivePhases, shift : Seq(BOOLEAN), receive_clocks : Nat,
         receive_buffer : Seq(BOOLEAN), receive_ready : BOOLEAN,
         parity_error : BOOLEAN, overrun_error : BOOLEAN, framing_error : BOOLEAN,
         pending_parity_error : BOOLEAN, break_detected : BOOLEAN, rxd : BOOLEAN,
         queue : Seq(Byte), line : Seq(BOOLEAN), line_clocks : Nat,
         cts : BOOLEAN, dsr : BOOLEAN]

(* reset: every member but the two status inputs, which the caller sets.   *)
ResetChip(cts, dsr) ==
  [phase |-> "mode", mode |-> Zero, command |-> Zero,
   syncs |-> <<>>, sync_transmit_index |-> 0,
   sync_hunt |-> FALSE, sync_hunt_index |-> 0, sync_detected |-> FALSE,
   transmit_buffer |-> <<>>, transmit_frame |-> <<>>,
   transmit_character |-> <<>>, transmit_active |-> FALSE,
   transmit_payload |-> FALSE, transmit_clocks |-> 0,
   transmitted |-> <<>>, txd |-> TRUE,
   receive_phase |-> "idle", shift |-> <<>>, receive_clocks |-> 0,
   receive_buffer |-> <<>>, receive_ready |-> FALSE,
   parity_error |-> FALSE, overrun_error |-> FALSE, framing_error |-> FALSE,
   pending_parity_error |-> FALSE, break_detected |-> FALSE, rxd |-> TRUE,
   queue |-> <<>>, line |-> <<>>, line_clocks |-> 0,
   cts |-> cts, dsr |-> dsr]

----------------------------------------------------------------------------
(* What the mode and command words say. *)

Synchronous(u) == ~u.mode[1] /\ ~u.mode[2]
BaudFactor(u) == IF ~u.mode[2] THEN 1 ELSE IF u.mode[1] THEN Factor64 ELSE Factor16
CharacterBits(u) ==
  ShortestCharacter + (IF u.mode[3] THEN 1 ELSE 0) + (IF u.mode[4] THEN 2 ELSE 0)
ParityEnabled(u) == u.mode[5]
EvenParity(u) == u.mode[6]
StopBits(u) == IF u.mode[8] THEN 2 ELSE 1
OneSync(u) == u.mode[8]

TransmitterEnabled(u) == u.phase = "command" /\ u.command[1]
ReceiverEnabled(u) == u.phase = "command" /\ u.command[3]
SendsBreak(u) == u.command[4]

(* Only the bits of a character count; a narrower number has no others.    *)
Masked(u, bits) == [i \in 1 .. CharacterBits(u) |-> i <= Len(bits) /\ bits[i]]
(* A number narrower than a byte compared with a byte. *)
SameNumber(bits, byte) ==
  \A i \in 1 .. 8 : byte[i] <=> (i <= Len(bits) /\ bits[i])

Odd(bits) == Cardinality({i \in 1 .. Len(bits) : bits[i]}) % 2 = 1
ParityBit(u, bits) == IF EvenParity(u) THEN Odd(bits) ELSE ~Odd(bits)

(* build_transmit_frame, start_queued_receive_frame: the bits on the line. *)
Frame(u, bits) ==
  LET data == Masked(u, bits)
  IN (IF Synchronous(u) THEN <<>> ELSE <<FALSE>>)
       \o data
       \o (IF ParityEnabled(u) THEN <<ParityBit(u, data)>> ELSE <<>>)
       \o (IF Synchronous(u) THEN <<>> ELSE [i \in 1 .. StopBits(u) |-> TRUE])

----------------------------------------------------------------------------
(* The CPU. *)

AcceptMode(u, value) ==
  LET v == [u EXCEPT !.mode = value, !.command = Zero, !.transmit_buffer = <<>>,
                     !.transmit_active = FALSE, !.receive_ready = FALSE,
                     !.receive_phase = "idle", !.sync_detected = FALSE,
                     !.sync_hunt = FALSE, !.syncs = <<>>]
  IN [v EXCEPT !.phase = IF Synchronous(v) THEN "sync1" ELSE "command"]

(* A faulty variant, used only by a mutation run. *)
InternalResetKeepsPhase(u) == [ResetChip(u.cts, u.dsr) EXCEPT !.phase = "command"]

(* The internal reset (IR, D6) keeps the inputs; RxD is high unless it was *)
(* driven low from outside.                                                *)
InternalReset(u) ==
  [ResetChip(u.cts, u.dsr) EXCEPT !.rxd = IF u.line # <<>> THEN TRUE ELSE u.rxd]

ResetErrors(u) ==
  [u EXCEPT !.parity_error = FALSE, !.overrun_error = FALSE,
            !.framing_error = FALSE, !.break_detected = FALSE]

EnterHunt(u) ==
  [u EXCEPT !.sync_hunt = TRUE, !.sync_detected = FALSE, !.sync_hunt_index = 0,
            !.receive_phase = "sync_data", !.shift = <<>>]

AcceptCommand(u, value) ==
  LET stored == [u EXCEPT !.command = value]
      cleared == IF value[5] THEN ResetErrors(stored) ELSE stored
      hunting == IF Synchronous(u) /\ value[8] THEN EnterHunt(cleared) ELSE cleared
      marking == IF value[1] THEN hunting ELSE [hunting EXCEPT !.txd = TRUE]
      idle == IF value[3] THEN marking ELSE [marking EXCEPT !.receive_phase = "idle"]
  IN IF value[7] THEN InternalReset(u) ELSE idle

WriteControl(u, value) ==
  CASE u.phase = "mode" -> AcceptMode(u, value)
    [] u.phase = "sync1" ->
         [u EXCEPT !.syncs = <<value>>, !.phase = IF OneSync(u) THEN "command" ELSE "sync2"]
    [] u.phase = "sync2" -> [u EXCEPT !.syncs = <<@[1], value>>, !.phase = "command"]
    [] u.phase = "command" -> AcceptCommand(u, value)

WriteData(u, value) == [u EXCEPT !.transmit_buffer = <<Masked(u, value)>>]
ReadData(u) == [u EXCEPT !.receive_ready = FALSE]

TxReady(u) == TransmitterEnabled(u) /\ u.cts /\ u.transmit_buffer = <<>>

----------------------------------------------------------------------------
(* TxC. *)

(* A faulty variant, used only by a mutation run. *)
FinishFrameForgetsPayload(u) ==
  IF u.transmit_active /\ u.transmit_frame = <<>>
  THEN [u EXCEPT !.transmit_active = FALSE,
                 !.transmitted = IF Len(@) < UartCapacity
                                 THEN Append(@, u.transmit_character) ELSE @]
  ELSE u

(* advance_transmitter at the end of a frame; host_transmit_queue_capacity *)
(* frames are kept, SYNC characters are not.                               *)
FinishFrame(u) ==
  IF u.transmit_active /\ u.transmit_frame = <<>>
  THEN [u EXCEPT !.transmit_active = FALSE,
                 !.transmitted = IF u.transmit_payload /\ Len(@) < UartCapacity
                                 THEN Append(@, u.transmit_character) ELSE @]
  ELSE u

LoadFrame(u, bits, payload) ==
  [u EXCEPT !.transmit_frame = Frame(u, bits), !.transmit_character = bits,
            !.transmit_payload = payload, !.transmit_active = TRUE]

(* A faulty variant, used only by a mutation run. *)
BeginFrameSyncsFirst(u) ==
  IF u.transmit_active \/ ~(TransmitterEnabled(u) /\ u.cts) THEN u
  ELSE IF Synchronous(u)
  THEN LoadFrame([u EXCEPT !.sync_transmit_index = (@ + 1) % Len(u.syncs)],
                 u.syncs[u.sync_transmit_index + 1], FALSE)
  ELSE IF u.transmit_buffer # <<>>
  THEN LoadFrame([u EXCEPT !.transmit_buffer = <<>>], u.transmit_buffer[1], TRUE)
  ELSE u

BeginFrame(u) ==
  IF u.transmit_active \/ ~(TransmitterEnabled(u) /\ u.cts) THEN u
  ELSE IF u.transmit_buffer # <<>>
  THEN LoadFrame([u EXCEPT !.transmit_buffer = <<>>], u.transmit_buffer[1], TRUE)
  ELSE IF Synchronous(u)
  THEN LoadFrame([u EXCEPT !.sync_transmit_index = (@ + 1) % Len(u.syncs)],
                 u.syncs[u.sync_transmit_index + 1], FALSE)
  ELSE u

AdvanceTransmitter(u) ==
  LET v == BeginFrame(FinishFrame(u))
  IN IF v.transmit_active
     THEN [v EXCEPT !.txd = Head(v.transmit_frame), !.transmit_frame = Tail(@)]
     ELSE [v EXCEPT !.txd = TRUE]

ClockTransmit(u) ==
  IF SendsBreak(u) THEN [u EXCEPT !.txd = FALSE]
  ELSE IF u.transmit_clocks + 1 < BaudFactor(u)
  THEN [u EXCEPT !.transmit_clocks = @ + 1]
  ELSE AdvanceTransmitter([u EXCEPT !.transmit_clocks = 0])

----------------------------------------------------------------------------
(* RxC. *)

(* A faulty variant, used only by a mutation run. *)
ReceiveByteOverwrites(u, bits, parityError, framingError) ==
  IF ~ReceiverEnabled(u) THEN u
  ELSE [u EXCEPT !.receive_buffer = Masked(u, bits), !.receive_ready = TRUE,
                 !.overrun_error = @ \/ u.receive_ready,
                 !.parity_error = @ \/ parityError,
                 !.framing_error = @ \/ framingError]

ReceiveByte(u, bits, parityError, framingError) ==
  IF ~ReceiverEnabled(u) THEN u
  ELSE IF u.receive_ready THEN [u EXCEPT !.overrun_error = TRUE]
  ELSE [u EXCEPT !.receive_buffer = Masked(u, bits), !.receive_ready = TRUE,
                 !.parity_error = @ \/ parityError,
                 !.framing_error = @ \/ framingError,
                 !.break_detected = @ \/ (framingError /\ \A i \in 1 .. Len(bits) : ~bits[i])]

AfterData(u) == IF ParityEnabled(u) THEN "parity" ELSE "stop"

SampleAsync(u) ==
  CASE u.receive_phase = "start" ->
         IF u.rxd THEN [u EXCEPT !.receive_phase = "idle"]
         ELSE [u EXCEPT !.receive_phase = "data", !.shift = <<>>,
                        !.pending_parity_error = FALSE]
    [] u.receive_phase = "data" ->
         [u EXCEPT !.shift = Append(@, u.rxd),
                   !.receive_phase =
                     IF Len(u.shift) + 1 >= CharacterBits(u) THEN AfterData(u) ELSE @]
    [] u.receive_phase = "parity" ->
         [u EXCEPT !.pending_parity_error = u.rxd # ParityBit(u, u.shift),
                   !.receive_phase = "stop"]
    [] u.receive_phase = "stop" ->
         [ReceiveByte(u, u.shift, u.pending_parity_error, ~u.rxd)
            EXCEPT !.receive_phase = "idle"]
    [] OTHER -> [u EXCEPT !.receive_phase = "idle"]

(* The start bit is looked at again in the middle of its time. *)
StartDelay(u) == IF BaudFactor(u) > 1 THEN BaudFactor(u) \div 2 ELSE 1

ReceiveAsync(u) ==
  IF u.receive_phase = "idle"
  THEN IF u.rxd THEN u
       ELSE [u EXCEPT !.receive_phase = "start", !.receive_clocks = StartDelay(u)]
  ELSE IF u.receive_clocks > 1 THEN [u EXCEPT !.receive_clocks = @ - 1]
  ELSE SampleAsync([u EXCEPT !.receive_clocks = BaudFactor(u)])

(* A faulty variant, used only by a mutation run. *)
HuntOnStartsOver(u) ==
  IF ~SameNumber(u.shift, u.syncs[u.sync_hunt_index + 1])
  THEN [u EXCEPT !.sync_hunt_index = 0]
  ELSE IF u.sync_hunt_index + 1 < Len(u.syncs)
  THEN [u EXCEPT !.sync_hunt_index = @ + 1]
  ELSE [u EXCEPT !.sync_detected = TRUE, !.sync_hunt = FALSE, !.sync_hunt_index = 0]

(* Hunting for the SYNC characters: whole characters are compared, from    *)
(* the bit after the command on.                                           *)
HuntOn(u) ==
  IF ~SameNumber(u.shift, u.syncs[u.sync_hunt_index + 1])
  THEN [u EXCEPT !.sync_hunt_index = IF SameNumber(u.shift, u.syncs[1]) THEN 1 ELSE 0]
  ELSE IF u.sync_hunt_index + 1 < Len(u.syncs)
  THEN [u EXCEPT !.sync_hunt_index = @ + 1]
  ELSE [u EXCEPT !.sync_detected = TRUE, !.sync_hunt = FALSE, !.sync_hunt_index = 0]

FinishSyncCharacter(u) ==
  LET v == IF u.sync_hunt THEN HuntOn(u)
           ELSE ReceiveByte(u, u.shift, u.pending_parity_error, FALSE)
  IN [v EXCEPT !.receive_phase = "sync_data", !.shift = <<>>,
               !.pending_parity_error = FALSE]

SampleSyncData(u) ==
  LET v == [u EXCEPT !.shift = Append(@, u.rxd)]
  IN IF Len(v.shift) < CharacterBits(u) THEN v
     ELSE IF ParityEnabled(u) THEN [v EXCEPT !.receive_phase = "sync_parity"]
     ELSE FinishSyncCharacter(v)

SampleSync(u) ==
  CASE u.receive_phase = "sync_data" -> SampleSyncData(u)
    [] u.receive_phase = "sync_parity" ->
         FinishSyncCharacter([u EXCEPT !.pending_parity_error = u.rxd # ParityBit(u, u.shift)])
    [] OTHER -> SampleSyncData([u EXCEPT !.receive_phase = "sync_data", !.shift = <<>>])

ReceiveClockEdge(u) ==
  IF ~ReceiverEnabled(u) THEN u
  ELSE IF Synchronous(u) THEN SampleSync(u) ELSE ReceiveAsync(u)

(* start_queued_receive_frame, the line's level, and the line's next bit:  *)
(* the host's bytes are serialised with the framing the chip is set to.    *)
StartsFrame(u) == u.line = <<>> /\ u.queue # <<>>

StartQueuedFrame(u) ==
  IF StartsFrame(u)
  THEN [u EXCEPT !.queue = Tail(@), !.line = Frame(u, Head(u.queue)),
                 !.line_clocks = BaudFactor(u)]
  ELSE u

DriveLine(u) == IF u.line # <<>> THEN [u EXCEPT !.rxd = Head(u.line)] ELSE u

AdvanceLine(u) ==
  CASE u.line = <<>> -> u
    [] u.line # <<>> /\ u.line_clocks > 1 -> [u EXCEPT !.line_clocks = @ - 1]
    [] u.line # <<>> /\ u.line_clocks <= 1 /\ Len(u.line) > 1 ->
         [u EXCEPT !.line = Tail(@), !.line_clocks = BaudFactor(u)]
    [] OTHER -> [u EXCEPT !.line = <<>>, !.line_clocks = 0, !.rxd = TRUE]

ClockReceive(u) == AdvanceLine(ReceiveClockEdge(DriveLine(StartQueuedFrame(u))))

----------------------------------------------------------------------------
(* The host. *)

QueueReceivedByte(u, byte) ==
  IF Len(u.queue) < UartCapacity THEN [u EXCEPT !.queue = Append(@, byte)] ELSE u

ClearQueuedReceiveBytes(u) ==
  [u EXCEPT !.queue = <<>>, !.line = <<>>, !.line_clocks = 0,
            !.receive_phase = "idle", !.receive_clocks = 0,
            !.pending_parity_error = FALSE, !.rxd = TRUE]

TakeTransmittedByte(u) ==
  IF u.transmitted = <<>> THEN u ELSE [u EXCEPT !.transmitted = Tail(@)]

(* Machine::set_serial_connected, set_serial_clear_to_send. *)
SetSerialConnected(u, on) ==
  LET v == [u EXCEPT !.cts = on, !.dsr = on]
  IN IF on THEN v ELSE [ClearQueuedReceiveBytes(v) EXCEPT !.transmitted = <<>>]

SetSerialClearToSend(u, clear) == [u EXCEPT !.cts = u.dsr /\ clear]
=============================================================================
