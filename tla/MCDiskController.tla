-------------------------- MODULE MCDiskController --------------------------
EXTENDS DiskController

\* A6h: port A strobed output, port B strobed input.
MCPpiWords == {[modeA |-> 1, inA |-> FALSE, inCU |-> FALSE,
                modeB |-> 1, inB |-> TRUE, inCL |-> FALSE]}

\* OUT 50h with 0, RE, and RE and RDM; and with WRE, FOR, and WRE and FOR.
MCReadRegisters ==
  {AuxClear, [AuxClear EXCEPT !.re = TRUE], [AuxClear EXCEPT !.re = TRUE, !.dm = TRUE]}
MCRegisters ==
  MCReadRegisters \cup
    {[AuxClear EXCEPT !.we = TRUE], [AuxClear EXCEPT !.fm = TRUE],
     [AuxClear EXCEPT !.we = TRUE, !.fm = TRUE]}
=============================================================================
