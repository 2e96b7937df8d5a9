------------------------ MODULE MCMachineInterrupts ------------------------
(* MachineInterrupts with one data wire, so two bytes and two key codes.   *)
EXTENDS MachineInterrupts
CONSTANT d0
MCDataWire == {d0}
MCByte == SUBSET MCDataWire
MCZero == {}
=============================================================================
