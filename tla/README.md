# Verification of the FK-1 emulator

TLA+ models of the program in `src/`, an emulator of the Czechoslovak FK-1
microcomputer (Z80, three 8255s, an 8253, an 8251, two 8" floppy drives), with
TLC configurations and TLAPS proofs.

## 1. The system

One thread runs everything: the frontend loop gives class `Machine` a frame's
worth of CPU cycles (`run_cycles`), the Z80 core executes one instruction at a
time and calls `read_io` and `write_io`, and `advance_time` lets the peripherals
catch up before each access and after each instruction. The concurrency the code
has to get right is that of the emulated hardware: bytes pass under the head,
counters tick and keys are pressed between any two accesses of the program.

| component | state | operations | talks to |
|---|---|---|---|
| 8255 (`ppi8255.cpp`), three of them | ports, handshake lines, IBF, /OBF, INTE, INTR | `read`, `write`, strobes, acknowledges | interrupts, disk, keyboard, printer |
| 8253 (`pit8253.cpp`) | three channels | `read`, `write`, `set_gate`, `clock` | UART clock, disk delay, byte count |
| disk electronics (`machine.cpp`) | auxiliary register, latches, pending writes | `process_floppy_byte`, `advance_time`, OUT 10h, 20h, 50h, 60h | both chips, drives, interrupts |
| drives (`floppy.cpp`) | media, head, rotation, selection | insert, eject, step, advance, write | disk electronics, files |
| interrupts (`interrupt_controller3214.cpp`, `refresh_interrupt_sources`) | mask, inputs, I3 and I4 latches | `set_mask`, `set_input`, `vector` | all |
| keyboard (`keyboard.cpp`) | decoder (language, dead keys, half a byte), held key, repeat | `translate`, key events, `advance` | event loop, 8255 |
| mouse, printer (`machine.cpp`) | Gray phase, queued motion, wires, printed bytes | motion, buttons, `advance_mouse` | event loop, I3, 8255 |
| 8251 (`uart8251.cpp`) | mode, command, shift registers, queues | `read`, `write`, clocks | timer, bridge |
| serial bridge (`serial_tcp.cpp`, `main.cpp`) | sockets, queues, pending bytes | `poll`, `synchronize_serial` | UART, network |
| disk files (`disk_files.cpp`, `ui.cpp`) | mounted paths, access | mount, eject, replace, dialogs | drives, file system |
| image format (`disk_image_8sd.cpp`) | none | `import`, `export_image` | disk files |
| event loop (`main.cpp`) | mouse capture, pause | SDL events, a frame | keyboard, mouse, machine |
| machine time (`machine.cpp`) | overrun, accumulators of timer and video | `run_cycles`, `synchronize_cpu_io`, `advance_time` | all |
| memory map, video (`machine.cpp`) | map bits, pixels | reads, writes | CPU, window |


What the code is exposed to:

* **Order inside one operation.** `refresh_interrupt_sources` is called at the
  end of some twenty operations, counts edges, and feeds back (OUT2 resets the
  auxiliary register and the latches, which move GATE1, which starts counter 1,
  whose OUT1 is a timeout or opens a write gate). `advance_time` runs rotation,
  serializer, counters, keyboard, mouse and latches in a fixed order.
* **Order of the program's accesses.** Every register may be written at any
  time: in the middle of a field, with the end of data pending, with disk timing
  off. The latches must agree with each other whatever the order.
* **Handshakes with two edges.** /STB and /ACK fall and rise in separate calls,
  and the CPU can act in between.
* **Time cut into pieces.** Cycles reach `advance_time` in pieces of any length;
  key repeat, mouse edges and rotation must not depend on the cut.
* **Boundaries.** A count of 0, the Index in the middle of a field, a full host
  queue, a saturated mouse queue, a mask above 8.
* **The outside.** A peer that disconnects between two polls, a file dialog that
  answers from another thread, a save that fails half way, a file that another
  program damages.

What makes each component correct:

| component | it is correct when |
|---|---|
| 8255 | the INTR pins and port C say what the handshake is, a request has a cause, and each port in a handshake mode is a one-place buffer in which no byte waits for ever |
| 8253 | terminal counts and rates are exact to the clock, a latched count survives until it is read |
| disk electronics | no interrupt edge is uncounted, the latches agree, a format is one revolution, the driver reads the whole field and nothing else, what it puts is what is written |
| drives | cells stay a byte time apart and pass in turn, a protected disk never changes, the status and the selection are never old |
| interrupts | /INT and the vector are those of the enabled requests, a latched request lasts until it is acknowledged, the printer answers when it is online and only then |
| 8251 | four writes reset it from anywhere, characters pass whole and in order or not at all, an error shows when there is one, a hunt ends on the SYNC characters and nothing else, a written character is not kept waiting |
| keyboard, mouse | repeats come on time, a byte entered in hexadecimal is the one typed, motion comes out without loss and no faster than the interval, every change is announced, no button sticks |
| machine time | no cycle is lost or run twice, wherever instructions end and whatever they access |
| serial bridge | bytes keep their order, none is lost on a lasting connection or crosses to the next, CTS is dropped and returns |
| disk files and their format | no write of the program is lost, no file is written that was not opened for writing, a file is never owned by two drives, what is saved is what the program reads |

## 2. Modules

The classes that are pure state are operators on a record, so that the boards
that hold several of them compose them; each component that acts is a module
with its `VARIABLES`, `Init`, one action per operation, `Next` and `Spec`.

| module | models | composes |
|---|---|---|
| `Ppi8255` | class `Ppi8255`, one operator per method | |
| `Ppi8255Chip` | one 8255 under every public operation | `Ppi8255` |
| `Ppi8255Link` | an 8255 set up with A6h between an interrupt-driven CPU and two devices | `Ppi8255Chip`, refines `OnePlaceBuffer` twice |
| `OnePlaceBuffer` | what a handshaking port promises: a buffer of one place | |
| `Pit8253` | one channel of class `Pit8253` | |
| `Pit8253Channel` | a channel under the CPU, the gate and the clock | `Pit8253` |
| `DiskController` | the disk side of `Machine`: `process_floppy_byte`, `advance_time`, OUT 10h, 20h, 50h, 60h, `refresh_interrupt_sources` | `Ppi8255`, `Pit8253` (two channels) |
| `DiskTransfer` | a driver and a turning track around the disk electronics | `DiskController` |
| `FloppyDrives` | `FloppyTrack`, `FloppyDrive`, `FloppySubsystem`, and `Machine`'s selection and status | `Ppi8255` (two chips) |
| `MachineInterrupts` | the 3214, the latches of I3 and I4, the keyboard and printer port | `Ppi8255`, `Keyboard` |
| `AtKeyboard`, `Keyboard`, `MouseEncoder` | class `AtKeyboard`; class `Keyboard`; the mouse fields of `PeripheralState` and `advance_mouse` | |
| `MachineClock` | `run_cycles`, `synchronize_cpu_io`, the dividers of `advance_time` | |
| `HostInput` | the frontend's loop: events, mouse capture, frames, reset | `AtKeyboard`, `Keyboard`, `MouseEncoder`, `MachineClock` |
| `Uart8251` | class `Uart8251`, one operator per method | |
| `Uart8251Line` | the 8251 between CPU, clock, peer and reset | `Uart8251`, refines `SerialPort` |
| `SerialPort` | what the 8251 promises: two queues, a buffer and a shift register of whole characters | |
| `SerialBridge` | `TcpSerialLink`, `synchronize_serial` and a peer | `SerialPort`'s operators as the 8251 |
| `Ibm3740` | class `Ibm3740SectorImage` for one track | |
| `DiskFiles` | `disk_files.cpp`, the disk menus and dialog of `ui.cpp`, start and exit of `main.cpp` | `Ibm3740` |
| `Ppi8255Lemmas` | lemmas about the operators of the 8255, for the modules that compose it | |
| `Ppi8255Link_proofs`, `DiskTransfer_proofs`, `Uart8251_proofs`, `Host_proofs`, `MachineInterrupts_proofs`, `FloppyDrives_proofs`, `SerialBridge_proofs` | the theorems about each specification and those it extends | |
| `MC...` | the instances TLC checks | |

Names follow the source where TLA+ allows it: `UpdateInterrupts` is
`update_interrupts`, `DisconnectPeer` is `disconnect_peer`, `disk.ordinary` is
`ordinary_write_active`. `PROJECT.json` maps every definition to its lines.
Definitions named for a slip (`CountLevel`, `EndOfDataKeepsSync`) stand just
before the one they vary and are used by no specification: replacing the right
definition by one of them has to violate the property `PROJECT.json` names with
it.

State and actions, where the correspondence is not one to one:

* A byte is an element of a set. The disk electronics tell apart mark bytes and
  others; the 8255 tells apart nothing.
* A group of an 8255 is a record; group B has one INTE flip-flop where group A
  has two, and keeps the same value in both fields. Port C is a set of bits.
* A counter has a base: `NibbleBase` (16 in the 8253) fixes how far a nibble
  counts, so the run uses two-valued nibbles, eight- and sixteen-bit registers
  becoming two and four bits wide; the code's arithmetic on 16 bits is
  arithmetic modulo `WordBase`.
* Each operation of `Machine` runs to completion on one thread, so it is one
  action, however many calls it makes; the action's body composes the operators
  of those calls in their order, and ends with `Refresh` where the code ends with
  `refresh_interrupt_sources`.
* `AdvanceByte` is `advance_time` over a stretch in which one byte passes the
  head, `AdvanceIdle` one in which none does; `pulse` says whether CLK1 ticked.
* A track is a function from positions to data, and its domain is the set of
  cells; positions are ticks of a revolution.
* In `SerialBridge` a byte is the number it was given when it entered its
  direction, so order and loss are visible; the sockets' buffers belong to the
  link.
* In `Uart8251` a byte is the sequence of its bits, and a frame is the bits still
  to come, so an index and a size of the code become one sequence;
  `transmit_frame_index_ >= transmit_frame_size_` is the empty sequence. The
  status byte is a reading of the flags and has no operator.
* `Uart8251Line` has traffic in one direction in a behaviour: transmitter and
  receiver share nothing but the control words and the inputs, and each is seen
  with every sequence of them. `SerialBridge` takes the abstract `SerialPort` for
  the chip, which `IsSerialPort` shows it to be.
* A byte of a track in `Ibm3740` is its data, with 256 added when its clocks are
  those of a mark; the CRC is a constant, because `import` writes it and
  `export_image` does not look at it. The two loops of `export_image` over a
  track are a recursive function from the place reached to the sectors found.
* In `DiskFiles` a file is its image and a disk the bytes of a track; the program
  in the machine writes fields behind the ID fields that pass, with new data each
  time, and formats; a save that fails half way leaves `Torn`.
* In `HostInput` an instruction is a length and, if it accesses a device, the T
  state of the access: `Synchronize` is `synchronize_cpu_io`, `Access` the IN or
  OUT of the mouse's ports that follows it, `Complete` the rest of the
  instruction. Events are handled between frames.

## 3. Runs

| run | specification | checks | shows |
|---|---|---|---|
| `ppi_link` | `LinkSpec` | `StatusIsTrue`, `RequestsHaveCause`, `PortsAreBuffers`, `EveryByteArrives` | whatever was done to the chip before, from A6h on both ports refine `OnePlaceBuffer`, and no byte waits for ever |
| `pit_channel` | `ChannelSpec` | `CountIsExact`, `LatchedReadIsTrue` | counts, rates and latched reads of a channel under everything the CPU and the gate may do |
| `uart` | `Spec` | `WorstCaseReset`, `HuntIsExact`, `WrittenIsSent`, `ReceivedWhole`, `IsSerialPort` | the 8251 programmed in any order, with a peer that comes and goes |
| `disk_controller` | `Spec` | `Settled`, `LatchesAgree`, `SecondIndexWritesNothing`, `LastByteIsAnnounced` | the circuit is consistent under an arbitrary program |
| `disk_transfer` | `FairTransferSpec` | `ReadIsTheField`, `WriteIsThePut`, `EndIsComplete`, `FieldsEnd` | under a disciplined driver fields are read, written and formatted exactly, and every field ends |
| `floppy_drives` | `Spec` | `TracksSpaced`, `ProtectedIsUnchanged`, `StatusIsCurrent`, `CellsPassInTurn` | media, rotation, heads and status of two drives |
| `machine_interrupts` | `Spec` | `LineIsCurrent`, `LatestKeyIsRead`, `PrinterAnswers` | interrupts, key codes and printer bytes |
| `host_input` | `HostSpec` | `RepeatsOnTime`, `BytesAreTyped`, `ButtonsAreHeld`, `CyclesAreKept`, `MotionIsConserved`, `EdgesAreSpaced`, `ChangesAreAnnounced` | keys, mouse and the machine's time in the frontend's loop |
| `serial_bridge` | `Spec` | `BridgeIsFaithful`, `BytesGetThrough` | the TCP bridge end to end |
| `disk_files` | `FilesSpec` | `MountsAreSound`, `NoWriteIsLost`, `SavedIsRead`, `FilesAreSaved`, `PauseIsTheUsers` | images, dialogs, failures, exit and restart, with the conversion between track and image |
| `disk_timeout`, `uart_times_one` | `Spec` | one property each | the disagreements of section 4 |

Related questions about one specification share a run; a property that stands
for several facts names each as a conjunct (`LatchesAgree` is the type,
`GateFollowsSync`, `OffIsIdle`, `EndOfDataHolds` and `WriteGatesEnabled`).

### Bounds

* `ppi_link`: two byte values, the mode pairs of both groups (0, 1 in, 1 out, 2
  with 0, 1 in, 1 out) and the three INTE bits before A6h; three bytes in each
  direction after it. The buffer holds one byte, so a third byte meets every
  state the second did. The other bits of port C reach nothing but the port. A
  run may end with all bytes transferred, so deadlock is not checked.
* `pit_channel`: nibbles of one bit, so a 4-bit counter in which 0 means 16;
  counts of 0, 1 and 3 per byte give the full range, 1, odd, even and two-byte
  values. All modes (with 6 and 7, which mean 2 and 3) and all three accesses.
  Binary counting only: the BCD decoding is covered by the lemma `DecodeType`,
  for both number systems.
* `disk_controller`: one byte value (the ID mark, with ordinary clocks allowed:
  a cell is a mark or not by its clocks), two positions (Index or not), the
  register values of reading an ID or a data field, writing, formatting and the
  mixture of the last two; counter 1 in mode 1, counter 2 in mode 0, as the
  electronics are used, each loaded with 1 or, through `Reset` and
  reprogramming, not loaded. Data marks are in `disk_timeout` and
  `disk_transfer`.
* `disk_transfer`: a track of five cells, an ID field of four bytes and a data
  field of five after the mark (so a field runs over the Index), and every
  content of the track, chosen anew at each revolution.
* `floppy_drives`: two tracks, five ticks a revolution and two a byte, so cells
  are adjacent or one tick apart from adjacent and the Index falls inside a
  cell; drive A writable, drive B protected.
* `machine_interrupts`: one data wire (two bytes), two keys, one request of the
  other parts (I5: above the keyboard, latches and printer in priority), masks
  0, 4, 7 and 9 (nothing, the upper half, all but I0, and a mask that must be
  clamped), one byte in the printer's queue.
* `uart`: two of the four characters of two bits (the code's shortest has five;
  each bit is sent, received and compared like the one before), factors 2 and 4
  for 16 and 64, so that the middle of a bit is not its first edge; host queues
  of one byte; mode words for asynchronous with and without parity and with
  either stop length, synchronous with one and two SYNC characters; commands
  that enable, disable, break, hunt, reset errors and reset the chip, and any
  SYNC characters, a data byte among them.
* `host_input`: one user has the keyboard and another the mouse (the two share
  only time, which both have); an edge every two ticks, two steps of motion queued
  at most (motions of -1, 0 and 3, so saturation happens), instructions of one and
  three cycles in frames of two, so that an instruction overruns a whole frame
  budget, with the access at any cycle; a tick a cycle, two a timer clock and
  three a frame of the video, none of which divides another; five keys (a letter
  that is a digit of a byte, one that takes an accent, the dead key, the language
  toggle and one of the cursor block) with the modifiers that change them; repeat
  after three ticks and then every two. The history of a held key takes off whole
  repeats, so a key may be held for ever.
* `serial_bridge`: a link queue and a wire of one byte each way, UART queues of
  two, two bytes a frame; four bytes in, five out, so each queue fills and drains
  and a byte is held back on either side.
* `disk_files`: one image, one name that is no file, and a protected file of the
  size of an image; command lines without a disk and with one for writing. Four
  sectors of one byte with a skew of two, every gap one byte: the shortest
  tracks on which sectors are not in order, a field is longer than a gap, and a
  late format pushes the last field over the Index. The program formats a whole
  track once, three bytes late, and writes one sector, in time or one byte late; a
  second write would meet the same tracks.

### Fairness

* `Ppi8255Link`: the CPU enables the requests and serves INTR_B, and a device
  that began a pulse ends it. The devices' methods are called by the program's
  own code in pairs, and an interrupt-driven program is what A6h is for. The CPU
  need not write, nor the input device offer a byte.
* `DiskTransfer`: the driver goes on with its OUTs and serves what is requested;
  the track turns, CLK1 ticks, since both are driven by `advance_time`; the mark
  passes the head again and again (strong, as it is a property of the medium).
  ENABLED is written out in the conditions. The driver answers I7 within a byte
  time, which `Turn`'s guard says: with 384 ticks a byte the data sheet demands
  it, and a late driver loses bytes on the real machine too.
* `SerialBridge`: the loop goes on (weak); an open peer reads, and a frame clocks
  the 8251, both strong, because a pause of the emulator and a full socket
  interrupt them again and again.

All other properties are safety properties of specifications without fairness.

## 4. Findings

Found by the runs marked violation:

1. `disk_timeout`: `advance_time` latches I6 at every rising edge of OUT1 with
   RE and RDM set, whether the data mark was found or not (`machine.cpp:342`),
   although its comment and hardware-spec 8.2 tie I6 to waiting for the mark.
   Finding the mark opens GATE1, which starts counter 1: the timeout comes in
   the middle of the field.
2. `uart_times_one`: with the factor 1 an edge of RxC is a whole bit. The edge
   that notices the start bit sets `receive_clock_count_` to 1
   (`uart8251.cpp:411`), and the next edge, which is data bit 0, is sampled as
   the start bit: a 1 there sends the receiver back to idle, a 0 shifts the
   character. `src/README.md:337` lists the factor 1 with reception. Transmitting
   with it, and the factors 16 and 64, are right (`uart`).

Observations met while modelling, which no run states:

* `suppress_disk_byte_counter_once` (`machine.cpp:884`) stays set when the
  mark's strobe raises no edge (INTE off, or the request already high), and then
  swallows the edge of a later field byte. `DiskTransfer`'s driver sets INTE
  first and leaves no byte unread, and is not affected.
* OUT 50h,0 (`machine.cpp:773`), the boot ROM's acknowledgement of I6, leaves
  `disk_sync_latch` set; with RE set again the next byte is delivered, from the
  middle of a gap if that is under the head. `DiskTransfer`'s driver switches
  disk timing off and on after I6.
* `set_gate` in mode 4 (`pit8253.cpp:60`) lets a count that has strobed run
  again when GATE is set to the level it already has, which every write to group
  60h does. No document of the repository has an FK-1 program use mode 4.
* `--disk-a-rw` and `--disk-b-rw` mount one file in both drives
  (`main.cpp:481`), which the menu refuses (`ui.cpp:143`); at exit the second
  save overwrites the first and the status is success. The command lines of
  `disk_files` mount one drive.
* Selecting the mounted file again after another program has damaged it ejects
  the disk: `disk_files.cpp:167` must eject before it reads, and its comment "a
  bad selection must not eject a working disk" is about other files.
* When the peer closes, bytes received in the same poll are cleared with the
  connection (`serial_tcp.cpp:476`), so the last ones may never arrive; neither
  code nor documentation promises them.
* `SDL_GetKeyboardState` is asked for Scroll Lock when an event is processed, not
  when it happened, so a byte typed within one frame may miss its modifier.
* A hunt compares whole characters counted from the EH command on, where an 8251
  compares at every bit; a SYNC character wider than the characters is never
  matched. Clearing TxEN in the middle of a frame forces TxD high until the next
  clock, and the frame goes on.
* A field that runs across the Index can be read by the program and not be
  exported (`disk_image_8sd.cpp:171`); the disk then stays in the drive, as
  `NoWriteIsLost` says. `export_image` checks no CRC.
* With both dead keys waiting, the acute accent is used first and the caron waits
  for the key after (`keyboard.cpp:236`).

## 5. Proofs

| theorem | module | says |
|---|---|---|
| `TypeCorrect` | `Ppi8255Link_proofs` | the 8255's state keeps its type |
| `StatusAlwaysTrue` | `Ppi8255Link_proofs` | `StatusIsTrue`: INTR pins and port C agree with the handshake |
| `RequestsAlwaysHaveCause` | `Ppi8255Link_proofs` | `RequestsHaveCause`: INTR rises only at the end of a pulse or as the CPU sets an INTE |
| `PortsAlwaysBuffers` | `Ppi8255Link_proofs` | `PortsAreBuffers`: from A6h on each port refines `OnePlaceBuffer` |
| `LinkAlwaysTrue` | `Ppi8255Link_proofs` | `StatusIsTrue` and `RequestsHaveCause` of the linked chip |
| `AlwaysSettled` | `DiskTransfer_proofs` | `Settled`: one more `refresh_interrupt_sources` would change nothing |
| `LatchesAlwaysAgree` | `DiskTransfer_proofs` | `LatchesAgree`: type, GATE1, idleness with timing off, end of data, write gates |
| `FormatEndsAtSecondIndex` | `DiskTransfer_proofs` | `SecondIndexWritesNothing` |
| `LastByteAlwaysAnnounced` | `DiskTransfer_proofs` | `LastByteIsAnnounced`, if counter 2 is only programmed in mode 0 |
| `TransferCorrect` | `DiskTransfer_proofs` | the inductive invariant `TransferInv` of a driver and a turning track |
| `ReadAlwaysTheField` | `DiskTransfer_proofs` | `ReadIsTheField`: the driver reads the field, whole and in order |
| `WriteAlwaysThePut` | `DiskTransfer_proofs` | `WriteIsThePut`: what is put is what is written, cell after cell |
| `EndsAlwaysComplete` | `DiskTransfer_proofs` | `EndIsComplete`: I5 and the second Index come when everything has been transferred |
| `ChannelTypeCorrect` | `DiskTransfer_proofs` | a channel of the 8253 keeps its type, in BCD too |
| `CountAlwaysExact` | `DiskTransfer_proofs` | `CountIsExact`: OUT moves exactly as the count is complete, rates and waves keep their period |
| `LatchedReadAlwaysTrue` | `DiskTransfer_proofs` | `LatchedReadIsTrue`: a latched count is read as it was when it was latched |
| `TypeCorrect` | `Uart8251_proofs` | the 8251 keeps its type, SYNC characters where it indexes them and queues within their capacity |
| `AlwaysWorstCaseReset` | `Uart8251_proofs` | `WorstCaseReset`: three zeros and 40h reset it from every state |
| `HuntAlwaysExact` | `Uart8251_proofs` | `HuntIsExact`: the index and SYNDET say what the characters since EH have matched |
| `WrittenAlwaysSent` | `Uart8251_proofs` | `WrittenIsSent`: a written character waits for one frame at most |
| `ReceivedAlwaysWhole` | `Uart8251_proofs` | `ReceivedWhole`, if no mode word has the factor 1 |
| `Implements` | `Uart8251_proofs` | `IsSerialPort`: the 8251 bit by bit implements a port of whole characters |
| `CyclesAlwaysKept` | `Host_proofs` | `CyclesAreKept`: no cycle, timer clock or video frame is lost or comes twice |
| `BytesAlwaysTyped` | `Host_proofs` | `BytesAreTyped`: a byte entered in hexadecimal is that of its two digits |
| `RepeatsAlwaysOnTime` | `Host_proofs` | `RepeatsOnTime`: a held key has sent the codes it owes, and no other |
| `MotionAlwaysConserved` | `Host_proofs` | `MotionIsConserved`: the motion shown and that queued are the motion received |
| `EdgesAlwaysSpaced` | `Host_proofs` | `EdgesAreSpaced`: no more edges than intervals, and the axes take turns |
| `ChangesAlwaysAnnounced` | `Host_proofs` | `ChangesAreAnnounced`: I3 is latched for every change of a wire |
| `ButtonsAlwaysHeld` | `Host_proofs` | `ButtonsAreHeld`, if what a test forces leaves the buttons up |
| `FilesTypeCorrect` | `Host_proofs` | mounts, media and dialog keep their types; at most one dialog is open or unanswered |
| `MountsAlwaysSound` | `Host_proofs` | `MountsAreSound`, if the command line asks for nothing the menus would refuse |
| `FilesAlwaysSaved` | `Host_proofs` | `FilesAreSaved`, under the same hypothesis |
| `ImportedIsExported` | `Host_proofs` | an image laid on a track and taken back from it is the same image |
| `SavedAlwaysRead` | `Host_proofs` | `SavedIsRead`, if data fields are late by no more than the gaps bear and formats are complete |
| `NoWriteEverLost` | `Host_proofs` | `NoWriteIsLost`, under the hypotheses of `SavedAlwaysRead` and `MountsAlwaysSound` |
| `PauseAlwaysTheUsers` | `Host_proofs` | `PauseIsTheUsers`: a dialog's own pause ends with it |
| `LineAlwaysCurrent` | `MachineInterrupts_proofs` | `LineIsCurrent`: /INT and the vector are those of the enabled requests |
| `LatestKeyIsAlwaysRead` | `MachineInterrupts_proofs` | `LatestKeyIsRead`: port B holds the last press, IBF whether it has been read |
| `PrinterAlwaysAnswers` | `MachineInterrupts_proofs` | `PrinterAnswers`: a byte is acknowledged when the printer is online and only then |
| `TracksAlwaysSpaced` | `FloppyDrives_proofs` | `TracksSpaced`: cells stay a byte time apart |
| `ProtectedAlwaysUnchanged` | `FloppyDrives_proofs` | `ProtectedIsUnchanged` |
| `StatusAlwaysCurrent` | `FloppyDrives_proofs` | `StatusIsCurrent`: selection, status pins, and a restore that ends |
| `CellsAlwaysPassInTurn` | `FloppyDrives_proofs` | `CellsPassInTurn`: the cells pass the head one after the other |
| `AlwaysFaithful` | `SerialBridge_proofs` | `BridgeIsFaithful`: bytes in order, none lost, repeated or of an earlier connection, and CTS |

They hold for every value of the constants (sets of bytes, control words and
masks, counts, delays, instruction lengths, tables of scan codes, tracks and
revolutions) that meets the assumptions of the modules: `ByteAssumption`,
`ChipAssumption`, `PitAssumption`, `DiskAssumption`, `UartAssumption`,
`LineAssumption`, `KeyboardAssumption`, `AtKeyboardAssumption`,
`ClockAssumption`, `MouseAssumption`, `HostAssumption`, `InterruptAssumption`,
`FloppyAssumption`, `TransferAssumption`, `MaxBytesAssumption`,
`SerialAssumption`, `ChannelAssumption`, `ImageAssumption`, `SkewAssumption`,
`FilesAssumption` and `CommandLineAssumption`. Eight theorems assume more, in their
statements: counter 2 is
programmed in mode 0 (hardware-spec 8.3; in mode 2 or 4 OUT2 would rise with a
control word), what a test forces on the mouse's wires leaves both buttons up
(no code of `src/` outside the tests calls `set_mouse_signals`), no mode word
of the 8251 has the factor 1 (with it the receiver does miss frames: the run
`uart_times_one`), for three of them no command line names the ROM for a disk
or one file for both drives with one of them writing (`ProperCommandLines`: the
menus refuse both, `main.cpp:480` does not; section 4), and for the three about
what is on a disk two things more. `ByteSized` is no restriction of the code: files
consist of bytes, a sector's number is one (255 sectors at most; the code has 26),
and so is the data a program writes in the model. `TimelyPrograms` is one of the
program in the machine: a data field begins late by no more than the gaps around
it, and a format writes the whole track, however late it begins. A data field later
than that leaves the old data mark in front of its own, or runs into the next ID
field; a format given up half way over one with another lateness may leave two
fields of one sector, and a program that reads either has no data to lose. The
instance of the run `disk_files` meets all three. TLC evaluates the modules'
assumptions on the runs' instances. In every module the argument is an inductive
invariant, stronger than the property, with one lemma for each action that touches it.

**8255.** `InterruptsSettled` with the type is inductive. The work is in
`UpdateInterruptsSettles`: the request of a group does not read the group's own
`intr`, so updating twice is updating once. `CpuOperationsSettle` and
`DeviceOperationsSettle` give it for every method, and `PortCShowsHandshake`
needs the type alone. `RequestsHaveCause` compares the pins before and after each
method (`StepHasCause`): the invariant says that the old pins are the requests of
the old groups, so a pin rises only where the method changed what a request reads.

With A6h programmed, a port's one place is `~obf` or `ibf`. `LinkInv` adds to the
settled chip that the linked groups keep their directions and that nothing has
been written while /OBF was low from before (`written = <<>> => obf`); without it
the first write could overwrite a byte that `OnePlaceBuffer` does not know.
`LinkStep` then shows for each step what it hands over on either port
(`Handed`), and `BufferedSteps` that this is a step of the buffer or a stutter.

**Disk electronics.** None of the properties is inductive by itself: in the
middle of an operation the edge is not counted yet and OUT2 has not reset the
latches. Two predicates on the record split an operation. `Stable(d)` is what
every piece of an operation keeps: the type, a settled 8255, GATE1 following
timing and synchronization, write gates under their enable bits, and, with
timing off, an idle circuit without a timeout. `Good(d)` is what holds between
operations: `Stable(d)`, no pending writes, an idle circuit while OUT2 is high,
and `Refresh(d) = d`. One lemma per operator shows that it keeps `Stable`
(`ProcessByteStable`, `ClockCounterOneStable`, `SynchronizeControlStable`, ...);
`RefreshGood` shows that `Refresh` turns a `Stable` record into a `Good` one, its
core being that a second `Refresh` finds no edge and that resetting the latches
closes a gate that is already where it should be (`SetGateTwice`); then
`Inv == Good(disk)` is preserved by every action (`CpuKeepsInv`, `Correct`).
`FormatEndsAtSecondIndex` follows a format's last byte through the operators:
after `FormatEnd` the record is `Stopped`, and neither `Refresh` nor OUT1 starts
it again.

The channels of the 8253 come first in the module: decoding, loading,
configuring, gating and clocking one keep its type for every base and both number
systems. For `LastByteIsAnnounced` the operators are followed once more with
`Announces(d, was)`: if OUT2 is high, it was so when the call began, or the
circuit is idle and the request stands. In mode 0 only a counted edge raises OUT2
(`ModeZeroKept`), an edge is a request, and what follows it in the same call finds
the circuit idle and so takes no byte that would answer it.

**A channel of the 8253.** `ChannelInv` relates the histories to the counter: what
has been counted of a load and what `current` holds make up the count
(`Remaining`), and of a period what has passed and what is left of it
(`Periodic`, where the halves of an odd square wave differ by one: `Halves`). Both
need the counts in range, which in BCD is not the range of a word: `DecodeRange`
and `EncodeRange` say that four digits make a count below ten thousand and that
the conversion back makes digits again. A latch is the value promised until its
last byte is read.

**The transfer.** `TransferInv` says, for each OUT the driver has reached, what is
programmed (`Wired`, `CounterTwo`, `Resting`), and for each kind of field where
its bytes are: what has been read and what PB holds are together the field, and
counter 2 has as many left as the field lacks, one more before the mark, whose
strobe is suppressed (`Reading`); what has been put is what the cells hold and at
most the one byte in PA more (`Offered`, `Told`), the counter has the rest
(`WritingField`); a format has filled the cells from Index to where the head is
(`Formatting`). None of it is inductive without the latches: `sync`, `ordinary`
and `format` are set exactly when the first byte has passed, and the register
holds what the driver enabled until OUT2 or the second Index clears it. The
operators of the disk electronics are first described field by field under these
circumstances (`ByteReads`, `ByteWrites`, `ByteEnds`, `ByteIdles`,
`AdvanceOpens`, ...), so that the steps of the driver and of the disk never see
their definitions; `Takes` is the step shared by the serializer's byte and the one
OUT1 asks for as it opens the write gate.

**8251.** `ChipInv == TypeOK /\ Fresh(chip)`. The type alone is not enough for the
refinement: it allows a chip that waits for its mode word and holds characters,
which the mode word would then discard, a step `SerialPort` does not have.
`Fresh` says that such a chip holds none, and every reset establishes it.
`StepChip` is the refinement's step: every operation of CPU, clock, peer and
machine maps to a step of `SerialPort` or leaves its variables alone, one lemma
an operator. `WorstCaseReset` follows from the type by cases on what the chip
expects next.

*Hunting.* `HuntInv` adds that only a programmed synchronous chip hunts or has
detected, never both, and that a character being assembled is shorter than the
mode says (`HuntOK`); then the index follows the last character and SYNDET the
last two (`Exact`).

*Transmitting.* `EdgesLeft` counts the edges until the transmitter is free, from
what is left of the frame and of its bit. Every edge that a character waits takes
one of them, so that `waited + EdgesLeft(chip)` never exceeds a frame (`WaitInv`).

*Receiving.* `FollowInv` says how far the receiver is behind the line: it has the
bits the line has shown, and samples the next half a bit before that bit ends
(`Follows`, `Tracked`); the two positions are counted in edges from the end of the
frame, so one edge moves both by one. Where the sample falls in the line's frame
is then division with remainder by the factor, and half a factor above 1 is
neither 0 nor the whole: this is what fails with the factor 1.

**The machine's time.** `ClockInv` says that the histories are what the clock
shows: the cycles still owed are the rest of the frame's budget less what the
instruction has used and what the last frame ran over, and each prescaler holds
the remainder. `Prescaler` is the arithmetic: taking whole periods off a sum
leaves its remainder, wherever the ticks are cut.

**The byte entered in hexadecimal.** `TypingInv` ties the half byte of the decoder
to the digit of the history. The step is that a key's digit does not depend on
what else the decoder holds: the case of KOI-8 letters is exchanged where no
digit is (`OutputKeepsDigits`), and with Scroll Lock neither accents nor control
codes apply (`MainWithScroll`).

**Repeats.** `KeysOnTime` gives the countdown for every age of a held key. Its step
under `HostAdvance` compares the quotients that the code and the history take
(`Division`); that a pressed key's code is one the keyboard can hold is
`TranslateIsByte`, for every table and decoder state.

**The mouse.** `MouseInv` adds to the properties that the history of slack is the
tick count of the encoder, that the axis whose turn it is not leads by one edge at
most (`InTurn`), that phases and queue make up the target (`Balanced`,
`ShowsPhase`), and that the latch is gated while the program is told of changes.
`advance_mouse` turns an edge for each interval that fits its ticks: `Turned` is a
recursive function over the number of edges; that it has a value is `Recursion`, and
one induction over it (`Counting`), with what a single `Turn` does, gives all four
facts for any stretch of time.

**The disk images.** `FilesInv` is about the host, the dialog and the pause. A mount
is sound (`DiskOK`) if a disk is in the drive exactly while a file is shown for it
and that file exists, since `SharedWritable` recognizes only existing files: an
image deleted under its mount could be mounted twice, so no operation may make a
mounted file vanish (`FilesStay`; what is saved is never the absent file, whole or
torn: `ImageExists`, `TornExists`). Each operation of the menus has one lemma that
says what its outcomes have in common (`Outcome`: sound mounts, the other drive as
it was, no file changed but by a disk of this drive saved over it), and the
operations that call others cite them: `SaveOutcome`, `EjectOutcome`,
`ReplaceOutcome`, `SelectedOutcome`. Exit ejects one drive after the other, and
`QuitOutcome` needs that two writing drives never share a file: the second save
would otherwise be over the first. That a disk is never the empty sequence, which
means no disk, needs the length of a track: `Import` and `Found` are recursive
functions over places, so `Fixpoint` proves that a recursion which only looks at
smaller points of a measure has a value and `Descent` is the induction over it;
`ImportInts` then gives the length of every track and `ExportType` the bytes of
every image. `PauseInv` adds to the property that a dialog's pause is the user's
unless the emulation was running as it opened.

*The round trip.* `Laid(track, b)` says what a fresh track looks like: shifted by
`b`, the ID field of each sector in its place and no other ID mark, and in each field
a first data mark that is late by no more than the gaps; what follows it is
`Recorded`. `ImportLaid`: what `import` lays on a track is so, and has recorded the
sectors of the image. `ExportLaid`: on such a track `export_image` finds every sector
and takes what is recorded (the scan passes the fields one by one: `Scans`). The two
together are `ImportedIsExported`.

*What is on a disk.* `SavedIsRead` and `NoWriteIsLost` speak of what a scan from any
place of a track finds, which is not inductive; nor is `Laid`, since a format that
begins late loses the end of its last field and puts the head of the track elsewhere,
and a sector written after it may lie across the Index. What stays true is seen from
where the last format began. A disk is `InOrder` if it is as long as a track and, turned
by some `b` (`Rotated`), is `Orderly`: an ID mark only at the places of the fields,
each with the address of its sector unless the format was cut short within it
(`Cut`), and behind a whole ID field no data mark before the place of the data. A
sector is `OnDisk` with a value if in one such turn its ID field and, late by no more
than the gaps, its data field are whole.

* `LaidOrderly` and `ImportInOrder`: an imported disk is in order. `FormatInOrder`:
  so is one formatted late by any number of bytes, which is a fresh track cut off at
  the end and filled up with gap (`CutOrderly`).
* `SectorWritten`: a sector the program writes is on the disk, which stays in order,
  and every other sector that was on it still is. To write at a place of the disk is to
  write at the turned place of the turned disk (`RotatedOverwritten`), across the
  Index too, and there it is `WriteOrderly`.
* `SectorRead`: of a sector on the disk a program reads the data, from wherever it
  starts, since the next ID mark with its address is the only one.
* `ExportIs`, `ScanFetches` and `FoundFetched`: what `export_image` takes for a sector
  lies behind an ID field with its address, at the next mark. `ExportRead`: on a disk
  in order that is the place where a program finds it. `export_image` does not look
  across the Index, so it may refuse a disk, and then the save fails and the disk
  stays in the drive.

*No write is lost.* `KeepingInv` adds to `FilesInv` that the disks in the drives are
in order, that files consist of bytes, that no disk is mounted while the program
does not run, and for each sector written where its newest data is (`KeptAt`): on
the disk of the drive that writes to the file, or, if there is none, in the file,
whole. One lemma for each operation shows that it leaves this so (`SavedSafe`,
`EjectSafe`, `OpenedSafe`, `ReplaceSafe`, ..., `StartSafe`, `QuitSafe`): a save that
fails, torn or not, leaves the disk where it is; one that succeeds leaves the data
in the file before the drive is empty; another drive may read the file but not
write to it, so a file that is opened for writing is the newest (`OneWriter`).

**Interrupts, keyboard and printer.** `LineInv` (inputs are the sources, /INT is
what is pending under the mask) is inductive, because every operation that moves
a source ends in a refresh. The other two properties need `DeskInv`: no pulse is
under way between operations, the groups have the directions of AEh while the
driver's program is in force, the held code is that of the last press, and the
printer's answer agrees with /OBF and INTR (`Board`, `KeyWaits`,
`HeldIsPressed`, `PrinterHolds`).

**Drives.** `FloppyInv` adds two facts to what the properties say: the cable's step
signal is the one the port drives, so that a pulse counts once, and the selected
head is never further out than `LastTrack` less the pulses it has had since. The
nearest cell exists because the distances are natural numbers (`SmallestOf`, from
the well-foundedness of < on them). `TurnInv` says of the cells that have passed:
the last one is still on the track, and none lies between it and the head. Cells
are a byte time apart, so at most one passes in a call (`OnePasses`), and it is the
next one behind the last, across the Index too (`PassesNext`).

**The serial bridge.** A byte is its number, so each queue on the way of a direction
(the wire, the link's queue, the byte held back, the queue of the 8251) holds a run
of consecutive numbers, and the runs follow each other: `Inbound` and `Outbound`
say so, and cutting and joining runs (`JoinRuns` and its like) is all an operation
does. A connection that closes empties the bridge and the receive queue, so the
next one's run begins where it ends. `Paced` bounds what is queued in the 8251: as
long as CTS is up, by the bytes of this frame; once it is dropped, by the queue's
capacity. CTS is up exactly while a connection is open and no byte is held back.

Only model-checked:

* The liveness properties `EveryByteArrives`, `FieldsEnd` and `BytesGetThrough`:
  liveness under fairness and ENABLED are out of the prover's reach.

Every safety property of the passing runs is a theorem. The library's induction
theorems cannot be instantiated, so `Host_proofs` states induction with a set for the
predicate (`Counting` and `Descent`, from the well-foundedness of <) and proves that
recursive functions exist (`Recursion`, `Fixpoint`).

## 6. Not modelled

* The Z80 (a third-party library): an instruction is a length and an access.
  The memory map and the rendering of the screen, which are pure data; the
  drawing of the menus, fonts and option parsing.
* `set_rxd` and `set_sync_detect` of the 8251: pins nothing in the machine drives.
* `ascii_code` and `special_code` of `Keyboard`, pure functions no part of the
  program calls; the contents of the scan code tables, which are a constant of
  `AtKeyboard` with the entries of five keys in the run.
* Tracks other than one in `Ibm3740`, and the CRC's arithmetic.
* Reads of PA and writes of PB and PC of the disk-data PPI, which reach nothing
  of it under A6h.
* Name resolution and the opening of the listener; deletion of a mounted file by
  another program.
* The driver of `DiskTransfer`, the peer, the printer's reader and the host's
  other programs are not code of the repository: they are modelled from how the
  code meets them, and marked external in the map.
* `FloppyDrives` and `DiskController` each leave the other free: any byte may be
  written, any byte may pass. Their meeting point is the cell.

## 7. Plan

Done: every component of section 1 but the memory map and the video, and the
theorems of section 5.

Next, in this order; a new property joins the run of the component it belongs to:

1. Composition: `DiskController` with `FloppyDrives`, so that the cells that pass
   are those of the medium and writes reach it.
2. Models: deletion of mounted files in `DiskFiles`; opening of the listener in
   `SerialBridge`.
