----------------------------- MODULE MCDiskFiles -----------------------------
(***************************************************************************)
(* DiskFiles with one image, one name of no file, and the printer's file,  *)
(* which happens to have the size of an image; four sectors of one byte,   *)
(* every gap one byte long.  A format that begins three bytes late loses   *)
(* the end of the last field, and the program then writes that field       *)
(* across the Index.                                                       *)
(***************************************************************************)
EXTENDS DiskFiles
CONSTANTS f1, f2, log
MCPath == {f1, f2, log}
MCProtected == {log}
MCInitialFiles ==
  [p \in MCPath |-> CASE p = f1 -> <<11, 12, 13, 14>>
                      [] p = f2 -> Absent
                      [] p = log -> <<21, 22, 23, 24>>]
MCOne(path, access) ==
  [d \in Drive |-> IF d = "A" THEN [path |-> path, access |-> access] ELSE NoMount]
MCCommandLines == {MCOne(NoPath, "ro"), MCOne(f1, "rw")}
MCGap == [before |-> 1, zeros |-> 1, after |-> 1, id |-> 1, data |-> 1, track |-> 1]
MCFormats == {[late |-> 3, length |-> 65]}
=============================================================================
