--------------------------- MODULE DiskController ---------------------------
(***************************************************************************)
(* The FK-1 disk electronics: the disk-data 8255, counters 1 and 2 of the  *)
(* 8253, the auxiliary register and the TTL latches that class Machine     *)
(* (src/src/core/machine.cpp) wires together.  The CPU may do anything, in *)
(* any order; the disk may present any byte at any time.  Drives, heads    *)
(* and media are the module FloppyDrives.                                  *)
(*                                                                         *)
(* Each operation of the code runs to completion on one thread, so each is *)
(* one action; its body is a composition of operators on the record disk.  *)
(***************************************************************************)
EXTENDS Ppi8255, Pit8253, Sequences

CONSTANTS
  Ticks,         \* positions of a byte on the revolution; 0 is the Index
  IdMark,        \* data byte FEh
  DataMarks,     \* data bytes FBh and F8h
  PpiWords,      \* control words the CPU writes to the disk-data PPI
  Intes,         \* port C bits it sets and resets: the INTE flip-flops 2 and 6
  WriteBytes,    \* bytes it writes to PA
  Clocks,        \* whether PA0 and PA1 of the control PPI ask for C7h clocks
  Registers,     \* values it writes to the auxiliary register
  Modes1, Modes2,\* modes it programs counters 1 and 2 to
  Counts1, Counts2 \* counts it loads into them

(* The auxiliary register: RE, WRE, RDM and FOR. *)
Aux == [re : BOOLEAN, we : BOOLEAN, dm : BOOLEAN, fm : BOOLEAN]
AuxClear == [re |-> FALSE, we |-> FALSE, dm |-> FALSE, fm |-> FALSE]

(* An FM byte: where it is, its data, and whether its clocks are C7h. *)
Cell == [tick : Ticks, data : Byte, c7 : BOOLEAN]

ASSUME DiskAssumption ==
  /\ 0 \in Ticks
  /\ IdMark \in Byte /\ DataMarks \subseteq Byte /\ IdMark \notin DataMarks
  /\ PpiWords \subseteq ControlWord /\ Intes \subseteq Bit /\ WriteBytes \subseteq Byte
  /\ Clocks \subseteq BOOLEAN /\ Registers \subseteq Aux
  /\ Modes1 \subseteq 0 .. 5 /\ Modes2 \subseteq 0 .. 5
  /\ Counts1 \subseteq 0 .. ByteBase - 1 /\ Counts2 \subseteq 0 .. ByteBase - 1

VARIABLE disk

vars == <<disk>>

DiskState ==
  [ppi : PpiState, c1 : Channel, c2 : Channel, aux : Aux,
   aOut : BOOLEAN,      \* the control PPI drives its port A ...
   pa6 : BOOLEAN,       \* ... with this level on PA6 (1 = timing off)
   markClocks : BOOLEAN,\* ... and PA0 = PA1 = 1: written bytes get mark clocks
   timing : BOOLEAN,    \* disk_timing_enabled
   sync : BOOLEAN,      \* disk_sync_latch
   level : BOOLEAN,     \* disk_data_interrupt_level
   suppress : BOOLEAN,  \* suppress_disk_byte_counter_once
   ordinary : BOOLEAN, format : BOOLEAN,    \* the two write-active latches
   timeout : BOOLEAN,   \* disk_timeout_latch
   tick : Ticks,        \* last_disk_byte_tick
   pending : Seq(Cell)] \* pending_disk_writes

----------------------------------------------------------------------------
(* refresh_interrupt_sources: the rising edge of INTR_A OR INTR_B clocks   *)
(* counter 2, and OUT2 is a level that holds the auxiliary register reset. *)

(* Faulty variants, named for the slip, stand before what they vary and are *)
(* used by nothing here: the mutation runs put them in its place.           *)
EndOfDataKeepsSync(d) ==
  [d EXCEPT !.aux = AuxClear, !.ordinary = FALSE, !.format = FALSE]

EndOfDataKeepsWrite(d) ==
  [d EXCEPT !.aux = AuxClear, !.sync = FALSE, !.format = FALSE,
            !.c1 = IF d.timing THEN SetGate(@, FALSE) ELSE @]

EndOfData(d) ==
  [d EXCEPT !.aux = AuxClear, !.sync = FALSE, !.ordinary = FALSE, !.format = FALSE,
            !.c1 = IF d.timing THEN SetGate(@, FALSE) ELSE @]

CountFall(d) ==
  LET line == d.ppi.a.intr \/ d.ppi.b.intr
      edge == ~line /\ d.level
  IN [d EXCEPT !.level = line,
               !.suppress = @ /\ ~edge,
               !.c2 = IF edge /\ ~d.suppress THEN ClockOnce(@) ELSE @]

CountLevel(d) ==
  LET line == d.ppi.a.intr \/ d.ppi.b.intr
  IN [d EXCEPT !.suppress = @ /\ ~line,
               !.c2 = IF line /\ ~d.suppress THEN ClockOnce(@) ELSE @]

CountEdge(d) ==
  LET line == d.ppi.a.intr \/ d.ppi.b.intr
      edge == line /\ ~d.level
  IN [d EXCEPT !.level = line,
               !.suppress = @ /\ ~edge,
               !.c2 = IF edge /\ ~d.suppress THEN ClockOnce(@) ELSE @]

Refresh(d) ==
  LET counted == CountEdge(d)
  IN IF counted.c2.output THEN EndOfData(counted) ELSE counted

----------------------------------------------------------------------------
(* The byte path. *)

WrittenCell(d, tick) == [tick |-> tick, data |-> d.ppi.a.out, c7 |-> d.markClocks]

(* transfer_floppy_write_byte: the serializer takes PA and asks for more. *)
TransferWriteByte(d, tick) ==
  Refresh([d EXCEPT !.pending = Append(@, WrittenCell(d, tick)),
                    !.ppi = PulseAckA(@)])

Deserialize(d, v) == Refresh([d EXCEPT !.ppi = PulseStrobeB(@, v)])

SelectedMark(d, cell) ==
  cell.c7 /\ IF d.aux.dm THEN cell.data \in DataMarks ELSE cell.data = IdMark

SynchronizeCountsMark(d) == [d EXCEPT !.sync = TRUE, !.c1 = SetGate(@, TRUE)]

SynchronizeKeepsGate(d) == [d EXCEPT !.sync = TRUE, !.suppress = TRUE]

Synchronize(d) ==
  [d EXCEPT !.sync = TRUE, !.suppress = TRUE, !.c1 = SetGate(@, TRUE)]

(* The second Index ends a format operation and writes nothing more. *)
FormatEnd(d) ==
  Refresh([d EXCEPT !.ordinary = FALSE, !.format = FALSE, !.aux = AuxClear,
                    !.sync = FALSE, !.c1 = SetGate(@, FALSE)])

(* The write half of process_floppy_byte. *)
ByteWritten(d, cell) ==
  IF d.format \/ d.ordinary THEN TransferWriteByte(d, cell.tick) ELSE d

(* The read half; what is written passes under the read head as well. *)
ByteRead(d, cell) ==
  IF ~d.aux.re THEN d
  ELSE IF d.sync THEN Deserialize(d, cell.data)
  ELSE IF SelectedMark(d, cell) THEN Deserialize(Synchronize(d), cell.data)
  ELSE d

AtIndex(d, cell) == d.timing /\ d.aux.fm /\ cell.tick = 0

ProcessByteFormatsOn(d, cell) ==
  LET at == [d EXCEPT !.tick = cell.tick, !.format = @ \/ AtIndex(d, cell)]
      seen == IF at.format \/ at.ordinary THEN WrittenCell(at, cell.tick) ELSE cell
  IN IF d.timing THEN ByteRead(ByteWritten(at, cell), seen) ELSE at

ProcessByte(d, cell) ==
  LET at == [d EXCEPT !.tick = cell.tick, !.format = @ \/ AtIndex(d, cell)]
      seen == IF at.format \/ at.ordinary THEN WrittenCell(at, cell.tick) ELSE cell
  IN IF ~d.timing THEN at
     ELSE IF d.format /\ AtIndex(d, cell) THEN FormatEnd(at)
     ELSE ByteRead(ByteWritten(at, cell), seen)

----------------------------------------------------------------------------
(* advance_time.  An instruction is shorter than the 32 us of an FM byte,  *)
(* so at most one byte passes per call.                                    *)

Out1Rises(d) == ~d.c1.output /\ ClockOnce(d.c1).output

(* CLK1 ticks: OUT1 can raise the timeout or open the write gate. *)
ClockCounterOne(d) ==
  LET rises == Out1Rises(d)
      t == [d EXCEPT !.c1 = ClockOnce(@),
                     !.timeout = @ \/ (d.timing /\ d.aux.re /\ d.aux.dm /\ rises)]
  IN IF rises /\ d.timing /\ d.aux.we /\ ~d.ordinary
     THEN TransferWriteByte([t EXCEPT !.ordinary = TRUE], d.tick)
     ELSE t

(* What the call has done when flush_pending_disk_writes runs, given the   *)
(* state after the disk's part of it; the flush empties the list.          *)
BeforeFlush(b, pulse) == IF pulse THEN ClockCounterOne(b) ELSE b
AfterAdvance(b, pulse) == Refresh([BeforeFlush(b, pulse) EXCEPT !.pending = <<>>])

AdvanceByte(cell, pulse) == disk' = AfterAdvance(ProcessByte(disk, cell), pulse)
AdvanceIdle(pulse) == disk' = AfterAdvance(disk, pulse)

----------------------------------------------------------------------------
(* CPU accesses; read_io and write_io end with a refresh. *)

DataPpi(p) == disk' = Refresh([disk EXCEPT !.ppi = p])

ProgramDataPpi == \E cw \in PpiWords : DataPpi(WriteMode(disk.ppi, cw))
SetDataPpiBit ==
  \E bit \in Intes, set \in BOOLEAN : DataPpi(BitSetReset(disk.ppi, bit, set))
WriteData == \E v \in WriteBytes : DataPpi(WriteA(disk.ppi, v))
ReadData == DataPpi(ReadB(disk.ppi))

(* A control word for counter 1 acknowledges the timeout. *)
ProgramCounter1 ==
  \E mode \in Modes1 :
    disk' = Refresh([disk EXCEPT !.c1 = Configure(@, "lsb", mode, FALSE), !.timeout = FALSE])
ProgramCounter2 ==
  \E mode \in Modes2 : disk' = Refresh([disk EXCEPT !.c2 = Configure(@, "lsb", mode, FALSE)])
LoadCounter1 == \E v \in Counts1 : disk' = Refresh([disk EXCEPT !.c1 = WriteChannel(@, v)])
LoadCounter2 == \E v \in Counts2 : disk' = Refresh([disk EXCEPT !.c2 = WriteChannel(@, v)])

(* OUT 50h. *)
AfterWriteAux(d, a) ==
  Refresh([d EXCEPT !.ordinary = @ /\ a.we, !.format = @ /\ a.fm,
                    !.timeout = @ /\ (a.re \/ a.fm),
                    !.aux = IF d.timing THEN a ELSE AuxClear])

WriteAux == \E a \in Registers : disk' = AfterWriteAux(disk, a)

(* OUT 60h..63h: synchronize_control_outputs runs after every write. *)
SynchronizeControlNoStop(d) ==
  LET on == d.aOut /\ ~d.pa6
  IN [d EXCEPT !.timing = on, !.c1 = SetGate(@, ~on \/ d.sync)]

SynchronizeControl(d) ==
  LET on == d.aOut /\ ~d.pa6
      s == IF on THEN [d EXCEPT !.timing = TRUE]
           ELSE [d EXCEPT !.timing = FALSE, !.sync = FALSE, !.ordinary = FALSE,
                          !.format = FALSE, !.timeout = FALSE, !.aux = AuxClear]
  IN [s EXCEPT !.c1 = SetGate(@, ~s.timing \/ s.sync)]

ProgramControlPpi ==
  \E out \in BOOLEAN :
    disk' = Refresh(SynchronizeControl(
              [disk EXCEPT !.aOut = out, !.pa6 = FALSE, !.markClocks = FALSE]))
WriteControlPortA ==
  \E off \in BOOLEAN, marks \in Clocks :
    disk' = Refresh(SynchronizeControl([disk EXCEPT !.pa6 = off, !.markClocks = marks]))
WriteControlOther == disk' = Refresh(SynchronizeControl(disk))

(* Machine::reset; the pull-up on PC5 is the only pin that is not 0. *)
ResetDisk ==
  [ppi |-> [ResetPpi EXCEPT !.pinC = {5}],
   c1 |-> SetGate(ResetChannel, TRUE), c2 |-> SetGate(ResetChannel, TRUE),
   aux |-> AuxClear, aOut |-> FALSE, pa6 |-> FALSE, markClocks |-> FALSE,
   timing |-> FALSE, sync |-> FALSE, level |-> FALSE, suppress |-> FALSE,
   ordinary |-> FALSE, format |-> FALSE, timeout |-> FALSE, tick |-> 0, pending |-> <<>>]

Reset == disk' = Refresh(ResetDisk)

----------------------------------------------------------------------------
Init == disk = Refresh(ResetDisk)

Cpu == \/ ProgramDataPpi \/ SetDataPpiBit \/ WriteData \/ ReadData
       \/ ProgramCounter1 \/ ProgramCounter2 \/ LoadCounter1 \/ LoadCounter2
       \/ WriteAux \/ ProgramControlPpi \/ WriteControlPortA \/ WriteControlOther
       \/ Reset

Next == \/ Cpu
        \/ \E pulse \in BOOLEAN : AdvanceIdle(pulse) \/ \E cell \in Cell : AdvanceByte(cell, pulse)

Spec == Init /\ [][Next]_vars

----------------------------------------------------------------------------
TypeOK == disk \in DiskState

(* refresh_interrupt_sources has run at the end of every operation: once   *)
(* more would change nothing, so no edge is waiting to be counted and no   *)
(* byte to be flushed, whatever the order of the calls.                    *)
Settled == Refresh(disk) = disk /\ disk.pending = <<>>

(* GATE1 is what hardware-spec.md 8.2 says: forced to 1 while disk timing  *)
(* is off (the UART clock), and the synchronization latch while it is on.  *)
GateFollowsSync == disk.c1.gate = (~disk.timing \/ disk.sync)

(* With disk timing off nothing of an operation is left over.              *)
OffIsIdle ==
  ~disk.timing => /\ disk.aux = AuxClear
                  /\ ~disk.sync /\ ~disk.ordinary /\ ~disk.format /\ ~disk.timeout

(* While OUT2 is high the register is held reset and the write gates are   *)
(* shut: no operation goes on after its last byte.                         *)
EndOfDataHolds ==
  disk.c2.output => /\ disk.aux = AuxClear
                    /\ ~disk.sync /\ ~disk.ordinary /\ ~disk.format

(* The write gates open only under their enable bits, and shut with them.  *)
WriteGatesEnabled == /\ disk.ordinary => disk.aux.we
                     /\ disk.format => disk.aux.fm

(* The latches of the circuit agree with each other and with the register, *)
(* whatever was programmed, switched off or reached its end in between.    *)
LatchesAgree == TypeOK /\ GateFollowsSync /\ OffIsIdle /\ EndOfDataHolds /\ WriteGatesEnabled

(* Counter 2 reaches its end only at an interrupt request: I5 never comes  *)
(* before the I7 of the last byte (hardware-spec.md 8.3).                  *)
LastByteIsAnnounced == [][~disk.c2.output /\ disk'.c2.output => disk'.level]_vars

(* The second Index of a format operation ends it before the serializer    *)
(* takes another byte, whatever OUT1 does in the same call: formatting     *)
(* lasts exactly one revolution (machine.cpp:853).                         *)
SecondIndexWritesNothing ==
  \A cell \in Cell, pulse \in BOOLEAN :
    disk.format /\ AtIndex(disk, cell) =>
      LET after == AfterAdvance(ProcessByte(disk, cell), pulse)
      IN /\ after.aux = AuxClear /\ ~after.format /\ ~after.ordinary
         /\ after.ppi = disk.ppi

(* I6 arises only while the data mark is still awaited (machine.cpp:339    *)
(* and hardware-spec.md 8.2).                                              *)
TimeoutMeansNoMark == [][~disk.timeout /\ disk'.timeout => ~disk.sync]_vars
=============================================================================
