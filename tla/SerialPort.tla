----------------------------- MODULE SerialPort -----------------------------
(***************************************************************************)
(* What the 8251 promises the two sides it joins: a queue towards RxD, and *)
(* a transmit buffer, a shift register and a queue from TxD, between which *)
(* characters move whole and in order.  Uart8251Line shows that the chip   *)
(* of src/src/core/uart8251.cpp implements it bit by bit; SerialBridge     *)
(* takes its operators for the 8251.                                       *)
(***************************************************************************)
EXTENDS Naturals, Sequences

CONSTANTS UartCapacity,  \* host_receive_queue_capacity, host_transmit_queue_capacity
          Character      \* what either side may send

VARIABLE uart  \* rx, tx: host queues; buffer, shift: at most one character; cts

Empty(cts) == [rx |-> <<>>, tx |-> <<>>, buffer |-> <<>>, shift |-> <<>>, cts |-> cts]

(* advance_transmitter at a frame's end or with none on the line: the      *)
(* character joins the host queue, and CTS lets the next frame begin.      *)
Loads(u) == u.cts /\ u.buffer # <<>>
Finished(u) ==
  [u EXCEPT !.tx = IF Len(@) < UartCapacity THEN @ \o u.shift ELSE @, !.shift = <<>>]
Loaded(u) == IF Loads(u) THEN [u EXCEPT !.shift = u.buffer, !.buffer = <<>>] ELSE u

(* Without a peer no queue of the host survives; a frame in the shift      *)
(* register goes on.                                                       *)
Connected(u, on) ==
  IF on THEN [u EXCEPT !.cts = TRUE]
        ELSE [u EXCEPT !.cts = FALSE, !.rx = <<>>, !.tx = <<>>]

Init == \E cts \in BOOLEAN : uart = Empty(cts)

Write == \E c \in Character : uart' = [uart EXCEPT !.buffer = <<c>>]

(* With the transmitter disabled or the line held at a break, the buffered *)
(* character waits.                                                        *)
Advance == uart' \in {Loaded(Finished(uart)), Finished(uart)}

Receive == uart.rx # <<>> /\ uart' = [uart EXCEPT !.rx = Tail(@)]

Queue ==
  /\ Len(uart.rx) < UartCapacity
  /\ \E c \in Character : uart' = [uart EXCEPT !.rx = Append(@, c)]

Take == uart.tx # <<>> /\ uart' = [uart EXCEPT !.tx = Tail(@)]

SetConnected == \E on \in BOOLEAN : uart' = Connected(uart, on)
SetClearToSend == \E clear \in BOOLEAN : uart' = [uart EXCEPT !.cts = clear]
Reset == \E cts \in BOOLEAN : uart' = Empty(cts)

Next == \/ Write \/ Advance \/ Receive \/ Queue \/ Take
        \/ SetConnected \/ SetClearToSend \/ Reset

Spec == Init /\ [][Next]_uart
=============================================================================
