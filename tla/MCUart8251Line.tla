--------------------------- MODULE MCUart8251Line ---------------------------
(***************************************************************************)
(* The control words and bytes for the runs of Uart8251Line: with the      *)
(* shortest character of 2 bits, two of the four characters.               *)
(***************************************************************************)
EXTENDS Uart8251Line

Word(ones) == [bit \in 1 .. 8 |-> (bit - 1) \in ones]

MCData == {Word({}), Word({0})}
MCSyncs == {Word({0}), Word({0, 1})}

(* D1:D0 the factor or synchronous, D4 parity, D5 even, D7 two stop bits   *)
(* or one SYNC character.                                                  *)
MCModes == {Word({1, 4, 5, 7}), Word({0, 1}), Word({}), Word({4, 7})}
TimesOne == {Word({0})}

(* TxEN = D0, SBRK = D3; RxE = D2, with ER = D4 or EH = D7; neither; IR.  *)
MCCommands ==
  [send |-> {Word({0}), Word({0, 3}), Word({}), Reset40},
   receive |-> {Word({2, 4}), Word({2, 7}), Word({}), Reset40}]
=============================================================================
