--------------------------- MODULE MCFloppyDrives ---------------------------
EXTENDS FloppyDrives

\* Track 1 has room for a second cell where one position of track 0 fits;
\* the other is too near its cell across the Index.
MCImage == [t \in TrackIndex |-> IF t = 0 THEN [p \in {0, 2} |-> Zero] ELSE [p \in {4} |-> Zero]]

\* Drive A gets it to write on, drive B gets it protected.
MCMedia == [d \in Drive |-> {<<MCImage, d = "A">>}]

\* A6h, and 88h: ports A, B and the lower half of C drive the machine.
MCDataWords == {[modeA |-> 1, inA |-> FALSE, inCU |-> FALSE,
                 modeB |-> 1, inB |-> TRUE, inCL |-> FALSE]}
MCControlWords == {ResetWord, [ResetWord EXCEPT !.inA = FALSE, !.inB = FALSE, !.inCL = FALSE]}
=============================================================================
