---------------------------- MODULE SerialBridge ----------------------------
(***************************************************************************)
(* The raw TCP bridge of the serial port: TcpSerialLink                    *)
(* (src/src/frontend/serial_tcp.cpp), synchronize_serial in                *)
(* src/src/frontend/main.cpp and the host side of the 8251, between a peer *)
(* that connects, sends, reads and goes as it likes and a UART that is     *)
(* clocked between two calls of synchronize_serial.  The UART is the       *)
(* abstract one, SerialPort, programmed and with its transmitter and       *)
(* receiver enabled.                                                       *)
(*                                                                         *)
(* A byte is the number it was given when it entered its direction.        *)
(***************************************************************************)
EXTENDS Naturals, SequencesExt

CONSTANTS
  LinkCapacity,  \* TcpSerialLink::queue_capacity
  UartCapacity,  \* host_receive_queue_capacity, host_transmit_queue_capacity
  WireCapacity,  \* what the host's socket buffers hold in one direction
  FrameBytes,    \* bytes the 8251 can complete in one call of run_cycles
  MaxIn, MaxOut  \* bound: bytes in either direction

ASSUME SerialAssumption ==
  /\ {LinkCapacity, UartCapacity, WireCapacity, FrameBytes} \subseteq Nat \ {0}
  /\ {MaxIn, MaxOut} \subseteq Nat
  /\ FrameBytes <= UartCapacity

VARIABLES
  mode,     \* TcpSerialMode
  link,     \* TcpSerialLink::Impl, and the sockets' buffers behind it
  stage,    \* where the frontend's loop is
  connected, clear,    \* serial_connected, serial_clear_to_send of Machine
  pendIn, pendOut,     \* pending_serial_input, pending_serial_output
  uart,     \* the 8251, a SerialPort
  done,     \* the frames it has completed since the last synchronize_serial
  lastIn, lastOut,     \* the last byte sent by the peer, and by the program
  taken     \* history: the last byte of the peer that went onto RxD, or was dropped

vars == <<mode, link, stage, connected, clear, pendIn, pendOut, uart, done,
          lastIn, lastOut, taken>>
machine == <<connected, clear, pendIn, pendOut>>

Port == INSTANCE SerialPort WITH Character <- Nat

LinkState == {"listening", "reconnect_wait", "connecting", "connected"}
Link == [state : LinkState, incoming : Seq(Nat), outgoing : Seq(Nat),
         peer : {"none", "open", "gone"}, wireIn : Seq(Nat), wireOut : Seq(Nat)]
Uart == [rx : Seq(Nat), tx : Seq(Nat), buffer : Seq(Nat), shift : Seq(Nat),
         cts : BOOLEAN]

Connected(n) == n.state = "connected"
First(s, k) == SubSeq(s, 1, k)
After(s, k) == SubSeq(s, k + 1, Len(s))
Less(i, j) == IF i < j THEN i ELSE j
OneOf(s) == IF s = <<>> THEN <<>> ELSE <<Head(s)>>
OthersOf(s) == IF s = <<>> THEN <<>> ELSE Tail(s)

----------------------------------------------------------------------------
(* TcpSerialLink. *)

NoPeer(state) == [state |-> state, incoming |-> <<>>, outgoing |-> <<>>,
                  peer |-> "none", wireIn |-> <<>>, wireOut |-> <<>>]

(* mark_connected, schedule_reconnect, disconnect_peer: no queue survives. *)
MarkConnected == [NoPeer("connected") EXCEPT !.peer = "open"]
ScheduleReconnect == NoPeer("reconnect_wait")
DisconnectPeer == NoPeer(IF mode = "listen" THEN "listening" ELSE "reconnect_wait")

(* Faulty variants, used only by the mutation runs. *)
ReceivePendingGreedy(n) ==
  LET moved == [n EXCEPT !.incoming = First(@ \o n.wireIn, Less(LinkCapacity, Len(@ \o n.wireIn))),
                         !.wireIn = <<>>]
  IN IF ~Connected(n) THEN n
     ELSE IF n.peer = "gone" THEN DisconnectPeer ELSE moved
FitsBelow(s, queue, capacity) == Less(Len(s), capacity - 1 - Len(queue))

(* send_pending: what a peer that has gone is sent is lost, or found out.  *)
SendPending(n) ==
  LET k == Less(Len(n.outgoing), WireCapacity - Len(n.wireOut))
  IN IF n.peer = "gone" /\ n.outgoing # <<>>
     THEN {[n EXCEPT !.outgoing = <<>>], DisconnectPeer}
     ELSE {[n EXCEPT !.outgoing = After(@, k), !.wireOut = @ \o First(n.outgoing, k)]}

(* receive_pending: the end of the stream is seen only with room to spare. *)
ReceivePending(n) ==
  LET k == Less(Len(n.wireIn), LinkCapacity - Len(n.incoming))
      moved == [n EXCEPT !.incoming = @ \o First(n.wireIn, k), !.wireIn = After(@, k)]
  IN IF ~Connected(n) THEN n
     ELSE IF n.peer = "gone" /\ Len(moved.incoming) < LinkCapacity THEN DisconnectPeer
     ELSE moved

(* poll: what it can leave; the network decides on accept and connect, the *)
(* clock on retry_at.                                                      *)
Polled(n) ==
  CASE n.state = "listening" -> {n, MarkConnected}
    [] n.state = "reconnect_wait" -> {n, NoPeer("connecting"), MarkConnected}
    [] n.state = "connecting" -> {n, MarkConnected, ScheduleReconnect}
    [] n.state = "connected" -> {ReceivePending(sent) : sent \in SendPending(n)}

----------------------------------------------------------------------------
(* class Machine. *)

Reset ==
  /\ stage = "frame"
  /\ uart' = Port!Empty(connected /\ clear)
  /\ taken' = taken + Len(uart.rx)
  /\ lastOut' = lastOut - Len(uart.tx \o uart.shift \o uart.buffer)
  /\ UNCHANGED <<mode, link, stage, machine, done, lastIn>>

(* The program writes a character to an empty transmit buffer. *)
UartWrite ==
  /\ stage = "frame"
  /\ uart.buffer = <<>> /\ lastOut < MaxOut
  /\ lastOut' = lastOut + 1
  /\ uart' = [uart EXCEPT !.buffer = <<lastOut + 1>>]
  /\ UNCHANGED <<mode, link, stage, machine, done, lastIn, taken>>

AdvanceTransmitter ==
  /\ stage = "frame"
  /\ uart.shift # <<>> => done < FrameBytes
  /\ uart' = Port!Loaded(Port!Finished(uart))
  /\ done' = done + Len(uart.shift)
  /\ UNCHANGED <<mode, link, stage, machine, lastIn, lastOut, taken>>

(* start_queued_receive_frame: the next byte goes onto the RxD line. *)
UartReceive ==
  /\ stage = "frame"
  /\ Port!Receive
  /\ taken' = taken + 1
  /\ UNCHANGED <<mode, link, stage, machine, done, lastIn, lastOut>>

----------------------------------------------------------------------------
(* synchronize_serial, up to its second poll. *)

(* Of s, what fits is passed on; the byte that was refused is held back.   *)
Fits(s, queue, capacity) == Less(Len(s), capacity - Len(queue))

ClearToSend(held) == held = <<>>

Unplug ==
  /\ connected' = FALSE /\ clear' = TRUE
  /\ pendIn' = <<>> /\ pendOut' = <<>>
  /\ uart' = Port!Connected(uart, FALSE)
  /\ taken' = lastIn

Bridge(n) ==
  LET u == IF connected THEN uart ELSE Port!Connected(uart, TRUE)
      in == pendIn \o n.incoming
      inFits == Fits(in, u.rx, UartCapacity)
      out == pendOut \o u.tx
      outFits == Fits(out, n.outgoing, LinkCapacity)
  IN /\ connected' = TRUE
     /\ pendIn' = OneOf(After(in, inFits))
     /\ pendOut' = OneOf(After(out, outFits))
     /\ clear' = ClearToSend(pendOut')
     /\ link' = [n EXCEPT !.incoming = OthersOf(After(in, inFits)),
                          !.outgoing = @ \o First(out, outFits)]
     /\ uart' = [u EXCEPT !.rx = @ \o First(in, inFits),
                          !.tx = OthersOf(After(out, outFits)),
                          !.cts = clear']
     /\ UNCHANGED taken

Synchronize ==
  /\ stage = "frame"
  /\ \E n \in Polled(link) :
       IF Connected(n)
       THEN Bridge(n) /\ stage' = "repoll"
       ELSE /\ link' = n /\ stage' = "frame"
            /\ IF connected THEN Unplug
               ELSE UNCHANGED <<machine, uart, taken>>
  /\ done' = 0
  /\ UNCHANGED <<mode, lastIn, lastOut>>

(* The second poll gives new output to the socket at once. *)
Repoll ==
  /\ stage = "repoll" /\ stage' = "frame"
  /\ \E n \in Polled(link) :
       /\ link' = n
       /\ IF connected # Connected(n) THEN Unplug
          ELSE UNCHANGED <<machine, uart, taken>>
  /\ done' = 0
  /\ UNCHANGED <<mode, lastIn, lastOut>>

----------------------------------------------------------------------------
(* The peer. *)

PeerSend ==
  /\ link.peer = "open" /\ lastIn < MaxIn
  /\ Len(link.wireIn) < WireCapacity
  /\ lastIn' = lastIn + 1
  /\ link' = [link EXCEPT !.wireIn = Append(@, lastIn + 1)]
  /\ UNCHANGED <<mode, stage, machine, uart, done, lastOut, taken>>

PeerReceive ==
  /\ link.peer = "open" /\ link.wireOut # <<>>
  /\ link' = [link EXCEPT !.wireOut = Tail(@)]
  /\ UNCHANGED <<mode, stage, machine, uart, done, lastIn, lastOut, taken>>

(* It goes, in order or with what it sent last lost on the way. *)
PeerGoes(lost) ==
  /\ link.peer = "open"
  /\ lost \in {0, Len(link.wireIn)}
  /\ link' = [link EXCEPT !.peer = "gone",
                          !.wireIn = First(@, Len(@) - lost), !.wireOut = <<>>]
  /\ lastIn' = lastIn - lost
  /\ UNCHANGED <<mode, stage, machine, uart, done, lastOut, taken>>

----------------------------------------------------------------------------
(* start, and main before its loop. *)
Init ==
  /\ \/ mode = "listen" /\ link = NoPeer("listening")
     \/ mode = "connect" /\ link \in {NoPeer("connecting"), MarkConnected, ScheduleReconnect}
  /\ stage = "frame"
  /\ connected = Connected(link) /\ clear = TRUE
  /\ pendIn = <<>> /\ pendOut = <<>>
  /\ uart = Port!Empty(Connected(link)) /\ done = 0
  /\ lastIn = 0 /\ lastOut = 0 /\ taken = 0

Next ==
  \/ Synchronize
  \/ Repoll
  \/ UartWrite
  \/ AdvanceTransmitter
  \/ UartReceive
  \/ Reset
  \/ PeerSend
  \/ PeerReceive
  \/ \E lost \in 0 .. WireCapacity : PeerGoes(lost)

(* The loop goes on, every frame clocks the 8251 while the emulator is not *)
(* paused, and an open peer reads what it is sent.                         *)
Fairness == /\ WF_vars(Synchronize) /\ WF_vars(Repoll)
            /\ SF_vars(UartReceive) /\ SF_vars(AdvanceTransmitter)
            /\ SF_vars(PeerReceive)

Spec == Init /\ [][Next]_vars /\ Fairness

----------------------------------------------------------------------------
InFlight == uart.rx \o pendIn \o link.incoming \o link.wireIn
OutFlight == link.wireOut \o link.outgoing \o pendOut \o uart.tx
               \o uart.shift \o uart.buffer

(* Every queue keeps to its capacity: a full one pushes back on the one    *)
(* before it (README.md, serial port over TCP).                            *)
TypeOK ==
  /\ mode \in {"listen", "connect"} /\ link \in Link /\ stage \in {"frame", "repoll"}
  /\ connected \in BOOLEAN /\ clear \in BOOLEAN
  /\ pendIn \in Seq(Nat) /\ pendOut \in Seq(Nat) /\ uart \in Uart /\ done \in Nat
  /\ Len(link.incoming) <= LinkCapacity /\ Len(link.outgoing) <= LinkCapacity
  /\ Len(uart.rx) <= UartCapacity /\ Len(uart.tx) <= UartCapacity
  /\ Len(pendIn) <= 1 /\ Len(pendOut) <= 1
  /\ Len(uart.buffer) <= 1 /\ Len(uart.shift) <= 1

(* The peer's bytes reach RxD in order, none lost or repeated, as long as  *)
(* its connection lasts and the machine is not reset, and none of an       *)
(* earlier connection is among them.  So do the program's on the way to    *)
(* the peer, through the transmit buffer, a held-back byte and a socket    *)
(* that takes a part: the 8251 never completes a frame its full host queue *)
(* would drop.                                                             *)
BytesInOrder ==
  /\ InFlight = [n \in 1 .. lastIn - taken |-> taken + n]
  /\ OutFlight = [n \in 1 .. Len(OutFlight) |-> lastOut - Len(OutFlight) + n]

(* While no peer is connected CTS is inactive and nothing is held back     *)
(* from the last connection but the frame that was on the line; with one,  *)
(* CTS is active exactly while no output byte is held back, also after a   *)
(* reset of the machine in the middle.  Every queue keeps to its capacity. *)
CtsFollowsBridge ==
  /\ TypeOK
  /\ uart.cts = (connected /\ pendOut = <<>>)
  /\ ~connected => pendIn = <<>> /\ pendOut = <<>> /\ uart.rx = <<>> /\ Len(uart.tx) <= 1

(* The bridge passes the bytes on and paces them.                          *)
BridgeIsFaithful == BytesInOrder /\ CtsFollowsBridge

(* What the peer sends gets through, however full the queues were; and     *)
(* what the program writes gets to a peer that stays: CTS, once dropped,   *)
(* returns.                                                                *)
BytesGetThrough ==
  /\ \A n \in 1 .. MaxIn : (n \in Range(InFlight)) ~> (n \notin Range(InFlight))
  /\ \A n \in 1 .. MaxOut :
       (n \in Range(OutFlight)) ~> (n \notin Range(OutFlight) \/ link.peer # "open")
=============================================================================
