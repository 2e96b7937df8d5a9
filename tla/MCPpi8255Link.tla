--------------------------- MODULE MCPpi8255Link ---------------------------
EXTENDS Ppi8255Link

\* Modes 0, 1 in, 1 out and 2 for group A, with 0, 1 in and 1 out for group B.
MCWords == {w \in ControlWord :
             /\ w.inCU = w.inA
             /\ ~w.inCL
             /\ w.modeA = 2 => w.inA
             /\ w.modeB = 0 => w.inB}
=============================================================================
