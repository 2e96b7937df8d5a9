--------------------------- MODULE OnePlaceBuffer ---------------------------
(***************************************************************************)
(* What a handshaking port of an 8255 promises its two sides: a buffer of  *)
(* one place that hands every byte over once and in order.                 *)
(***************************************************************************)
EXTENDS Sequences

CONSTANT Byte

VARIABLES
  slot,    \* <<>> or <<the byte in the port>>
  put,     \* every byte the producer has handed over
  taken    \* every byte the consumer has taken

vars == <<slot, put, taken>>

Init == slot = <<>> /\ put = <<>> /\ taken = <<>>

Put(v) == /\ slot = <<>>
          /\ slot' = <<v>>
          /\ put' = Append(put, v)
          /\ UNCHANGED taken

Take == /\ slot # <<>>
        /\ taken' = Append(taken, Head(slot))
        /\ slot' = <<>>
        /\ UNCHANGED put

Next == Take \/ \E v \in Byte : Put(v)

Spec == Init /\ [][Next]_vars
=============================================================================
