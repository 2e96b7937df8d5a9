---------------------------- MODULE DiskTransfer ----------------------------
(***************************************************************************)
(* The disk electronics of DiskController under a disciplined driver and a *)
(* rotating track: find an ID field, read it, then read or write the data  *)
(* field or format the track, again and again.  The driver follows         *)
(* hardware-spec.md 8.2, 8.3, 9, 11.1 and 14.5 and the boot ROM's handlers *)
(* of the interrupts; it is not code of the repository.  Its OUTs are      *)
(* separate steps: bytes pass and CLK1 ticks between any two of them.      *)
(*                                                                         *)
(* The driver answers I7 within a byte time (~disk.level in Turn), and the *)
(* delay of counter 1, which the ID mark starts, ends only when the write  *)
(* it is meant for has been armed, or in the middle of a data field that   *)
(* it interrupts as the watchdog (PulseInTime).                            *)
(***************************************************************************)
EXTENDS DiskController, FiniteSets

CONSTANTS
  IdLength, DataLength   \* what the driver loads into counter 2

ASSUME TransferAssumption ==
  /\ IdLength \in 1 .. ByteBase - 1 /\ DataLength \in 1 .. ByteBase - 1
  /\ IsFiniteSet(Ticks) /\ Ticks = 0 .. Cardinality(Ticks) - 1

VARIABLES
  task,    \* what the driver is at: "id", "data" (read), "write" or "format"
  phase,   \* the OUT it issues next, or "transfer" while it serves interrupts
  got,     \* the bytes it has read from PB in this field
  put,     \* the bytes it has written to PA
  field,   \* what has passed the head from the mark it asked for on
  media    \* the cells the disk was told to write

steps == <<task, phase, got, put>>
tvars == <<disk, steps, field, media>>

Length(t) == IF t = "id" THEN IdLength ELSE DataLength

A6h == [modeA |-> 1, inA |-> FALSE, inCU |-> FALSE, modeB |-> 1, inB |-> TRUE, inCL |-> FALSE]

Enable(t) == CASE t = "id" -> [AuxClear EXCEPT !.re = TRUE]
               [] t = "data" -> [AuxClear EXCEPT !.re = TRUE, !.dm = TRUE]
               [] t = "write" -> [AuxClear EXCEPT !.we = TRUE]
               [] t = "format" -> [AuxClear EXCEPT !.fm = TRUE]

TransferInit ==
  /\ Init
  /\ task = "id" /\ phase = "ppi"
  /\ got = <<>> /\ put = <<>> /\ field = <<>> /\ media = <<>>

----------------------------------------------------------------------------
(* The driver. *)

(* Each OUT with the state it leaves and the one that follows it.  Counter *)
(* 1 counts one CLK1 from GATE1; counter 2 counts the bytes of the field.  *)
Out(current, after, d) ==
  /\ phase = current /\ phase' = after
  /\ disk' = Refresh(d)
  /\ UNCHANGED <<task, got, field, media>>

Other(current, after, d) == Out(current, after, d) /\ UNCHANGED put

SetUp ==
  \/ Other("ppi", "inteB", [disk EXCEPT !.ppi = WriteMode(@, A6h)])
  \/ Other("inteB", "inteA", [disk EXCEPT !.ppi = BitSetReset(@, 2, TRUE)])
  \/ Other("inteA", "timing", [disk EXCEPT !.ppi = BitSetReset(@, 6, TRUE)])
  \/ Other("stop", "timing", SynchronizeControl([disk EXCEPT !.pa6 = TRUE]))
  \/ Other("timing", "mode1",
           SynchronizeControl([disk EXCEPT !.aOut = TRUE, !.pa6 = FALSE, !.markClocks = FALSE]))
  \/ Other("mode1", "count1",
           [disk EXCEPT !.c1 = Configure(@, "lsb", 1, FALSE), !.timeout = FALSE])
  \/ Other("count1", "mode2", [disk EXCEPT !.c1 = WriteChannel(@, 1)])

Arm ==
  \/ Other("mode2", IF task = "format" THEN "first" ELSE "count2",
           [disk EXCEPT !.c2 = Configure(@, "lsb", 0, FALSE)])
  \/ Other("count2", IF task = "write" THEN "first" ELSE "enable",
           [disk EXCEPT !.c2 = WriteChannel(@, Length(task))])
  \/ \E v \in WriteBytes :
       /\ Out("first", "enable", [disk EXCEPT !.ppi = WriteA(@, v)])
       /\ put' = <<v>>
  \/ /\ phase = "enable" /\ phase' = "transfer"
     /\ disk' = AfterWriteAux(disk, Enable(task))
     /\ UNCHANGED <<task, got, put, field, media>>

Writing == task \in {"write", "format"}

(* I7 is above I6 and I6 above I5. *)
ServeI7 ==
  /\ phase = "transfer" /\ disk.level
  /\ IF Writing
     THEN \E v \in WriteBytes :
            DataPpi(WriteA(disk.ppi, v)) /\ put' = Append(put, v) /\ UNCHANGED got
     ELSE /\ ReadData
          /\ got' = Append(got, GroupReadValue(disk.ppi.b))
          /\ UNCHANGED put
  /\ UNCHANGED <<task, phase, field, media>>

NextField(t, first) ==
  /\ task' = t /\ phase' = first
  /\ got' = <<>> /\ put' = <<>> /\ field' = <<>> /\ media' = <<>>

(* The boot ROM's I6 handler: OUT 50h,0.  That leaves disk_sync_latch set,  *)
(* so the driver switches disk timing off and on before it looks for the ID *)
(* again.                                                                   *)
ServeI6 ==
  /\ phase = "transfer" /\ ~disk.level /\ disk.timeout
  /\ disk' = AfterWriteAux(disk, AuxClear)
  /\ NextField("id", "stop")

ServeI5 ==
  /\ phase = "transfer" /\ ~disk.level /\ ~disk.timeout /\ disk.c2.output
  /\ UNCHANGED disk
  /\ \E t \in IF task = "id" THEN {"data", "write", "format"} ELSE {"id"} : NextField(t, "mode2")

(* The end of formatting raises no interrupt; the driver looks for Index.  *)
Formatted == task = "format" /\ disk.aux = AuxClear
EndFormat ==
  /\ phase = "transfer" /\ ~disk.level /\ Formatted
  /\ UNCHANGED disk
  /\ NextField("id", "mode2")

Driver == SetUp \/ Arm \/ ServeI7 \/ ServeI6 \/ ServeI5 \/ EndFormat

----------------------------------------------------------------------------
(* The disk. *)

(* b is the state CLK1 finds. *)
PulseInTime(b, pulse) ==
  pulse /\ b.c1.running =>
    phase = "transfer" /\ task \in {"write", "data"}

Flushed(b, pulse) == media' = media \o BeforeFlush(b, pulse).pending

Following(tick) == (tick + 1) % Cardinality(Ticks)

Turn(cell, pulse) ==
  /\ cell.tick = Following(disk.tick) /\ ~disk.level
  /\ PulseInTime(ProcessByte(disk, cell), pulse)
  /\ AdvanceByte(cell, pulse)
  /\ Flushed(ProcessByte(disk, cell), pulse)
  /\ field' = IF disk.aux.re /\ (field # <<>> \/ SelectedMark(disk, cell))
              THEN Append(field, cell.data) ELSE field
  /\ UNCHANGED <<task, phase, got, put>>

Pulse == /\ PulseInTime(disk, TRUE) /\ AdvanceIdle(TRUE)
         /\ Flushed(disk, TRUE)
         /\ UNCHANGED <<task, phase, got, put, field>>

(* The rest of the program writes to the control PPI (motor, step, scroll) *)
(* while the transfer goes on.                                             *)
Interfere == WriteControlOther /\ UNCHANGED <<steps, field, media>>

TransferNext == \/ Driver \/ Pulse \/ Interfere
                \/ \E cell \in Cell, pulse \in BOOLEAN : Turn(cell, pulse)

TransferSpec == TransferInit /\ [][TransferNext]_tvars

(* Fairness: the driver goes on with its OUTs and serves the interrupts,   *)
(* the track turns unless I7 waits, CLK1 goes on ticking, and the mark the *)
(* detector looks for passes the head again and again.  Each condition is  *)
(* weak (the mark: strong) fairness of the step it names, with ENABLED     *)
(* written out and the step told by what only it changes.                  *)
Requested == disk.level \/ disk.timeout \/ disk.c2.output \/ Formatted
Delaying == task = "write" /\ phase = "transfer" /\ disk.c1.running
Searching == disk.aux.re /\ field = <<>> /\ ~disk.level

Fairness ==
  /\ []<>(phase = "transfer" /\ ~Requested) \/ []<><<steps' # steps>>_tvars
  /\ []<>disk.level \/ []<><<disk'.tick # disk.tick>>_tvars
  /\ []<>~Delaying \/ []<><<disk'.c1.current # disk.c1.current>>_tvars
  /\ <>[]~Searching \/ []<><<field = <<>> /\ field' # <<>>>>_tvars

FairTransferSpec == TransferSpec /\ Fairness

----------------------------------------------------------------------------
Unread == IF disk.ppi.b.ibf THEN <<disk.ppi.b.latch>> ELSE <<>>

(* What the driver reads from PB is the mark it asked for and the bytes    *)
(* behind it, in order, without a byte lost, repeated or read before the   *)
(* mark; and never more than counter 2 was loaded with.                    *)
ReadIsTheField ==
  ~Writing => /\ got \o Unread = field
              /\ Len(field) <= Length(task) + 1

(* What the disk is told to write is what the driver put into PA, in       *)
(* order, in successive cells, and never more than counter 2 allows.       *)
WriteIsThePut ==
  /\ Len(media) <= (IF Writing THEN Len(put) ELSE 0)
  /\ task = "write" => Len(media) <= DataLength
  /\ \A i \in 1 .. Len(media) :
       /\ media[i].data = put[i]
       /\ i > 1 => media[i].tick = Following(media[i - 1].tick)

(* I5 comes when the last byte has been transferred and read, not sooner:  *)
(* the byte that ends the count is still delivered through I7.  Formatting *)
(* has then replaced every cell of the track exactly once, from Index to   *)
(* Index, with the bytes the driver put (hardware-spec.md 11.1).           *)
EndIsComplete ==
  [][/\ ServeI5 => IF task = "write" THEN Len(media) = DataLength
                   ELSE Len(got) = Length(task) + 1
     /\ EndFormat => /\ Len(media) = Cardinality(Ticks)
                     /\ \A i \in 1 .. Len(media) :
                          media[i].tick = i - 1 /\ media[i].data = put[i]]_tvars

(* With the marks on the track every field the driver arms is finished.    *)
FieldsEnd == phase = "transfer" ~> phase # "transfer"
=============================================================================
