---------------------------- MODULE FloppyDrives ----------------------------
(***************************************************************************)
(* The two drives of src/src/core/floppy.cpp and the ports of class        *)
(* Machine that select, step and load them: PC5 of the disk-data 8255, the *)
(* lower half of port C of the control 8255, and the status on its upper   *)
(* half.  What the disk electronics ask to be written is left to them      *)
(* (module DiskController): here any byte may be.                          *)
(*                                                                         *)
(* A track is a function from the positions of its cells to their data.    *)
(***************************************************************************)
EXTENDS Ppi8255, FiniteSets

CONSTANTS
  RevolutionTicks, ByteTicks,
  LastTrack,
  Media,         \* for each drive the <<image, access>> that can be inserted
  DataWords, ControlWords, \* control words of the two 8255s
  Widths         \* index pulse widths the frontend configures

Tick == 0 .. RevolutionTicks - 1
TrackIndex == 0 .. LastTrack
Drive == {"A", "B"}

(* Ticks from one position of a revolution on to another.                  *)
Forward(from, to) == (to + RevolutionTicks - from) % RevolutionTicks

(* set_bytes: neighbours at least a byte apart, across the Index as well.  *)
Spaced(positions) == \A p, q \in positions : p = q \/ Forward(p, q) >= ByteTicks

Track == UNION {[positions -> Byte] : positions \in SUBSET Tick}
EmptyTrack == [p \in {} |-> Zero]
Image == [TrackIndex -> Track]
NoImage == [t \in TrackIndex |-> EmptyTrack]

ASSUME FloppyAssumption ==
  /\ ByteTicks \in Nat \ {0} /\ RevolutionTicks \in Nat /\ ByteTicks <= RevolutionTicks
  /\ LastTrack \in Nat
  /\ \A d \in Drive : \A m \in Media[d] :
       m[1] \in Image /\ m[2] \in BOOLEAN /\ \A t \in TrackIndex : Spaced(DOMAIN m[1][t])
  /\ DataWords \subseteq ControlWord /\ ControlWords \subseteq ControlWord
  /\ Widths \subseteq Tick

VARIABLES
  drives,      \* the two FloppyDrives
  cable,       \* the rest of FloppySubsystem
  data,        \* the disk-data 8255
  control,     \* the control 8255
  lastTick,    \* last_disk_byte_tick
  inserted,    \* history: the images as they were inserted
  fresh,       \* history: the last byte passed on the track now under the head
  inward       \* history: pulses towards track 0 since anything else was done

vars == <<drives, cable, data, control, lastTick, inserted, fresh, inward>>

DriveState == [present : BOOLEAN, image : Image, writable : BOOLEAN,
               phase : Tick, head : TrackIndex]
Cable == [selected : Drive, step : BOOLEAN, outward : BOOLEAN, loaded : BOOLEAN,
          width : Tick]

----------------------------------------------------------------------------
(* FloppyTrack and FloppyDrive. *)

(* Faulty variants, named for the slip, stand before what they vary and are *)
(* used by nothing here: the mutation runs put them in its place.           *)
TrackWriteNoWrap(track, tick, v) ==
  IF \A p \in DOMAIN track \ {tick} : p - tick >= ByteTicks \/ tick - p >= ByteTicks
  THEN [p \in DOMAIN track \cup {tick} |-> IF p = tick THEN v ELSE track[p]]
  ELSE track

(* write_byte: a cell is overwritten in place; a new one needs its room.   *)
TrackWrite(track, tick, v) ==
  LET others == DOMAIN track
      previous == CHOOSE p \in others : \A q \in others : Forward(p, tick) <= Forward(q, tick)
      next == CHOOSE p \in others : \A q \in others : Forward(tick, p) <= Forward(tick, q)
  IN IF tick \in others THEN [track EXCEPT ![tick] = v]
     ELSE IF others = {} \/ (Forward(previous, tick) >= ByteTicks
                             /\ Forward(tick, next) >= ByteTicks)
     THEN [p \in others \cup {tick} |-> IF p = tick THEN v ELSE track[p]]
     ELSE track

UnderHead(dr) == dr.image[dr.head]

PassingInclusive(dr, n) ==
  {p \in DOMAIN UnderHead(dr) : dr.present /\ Forward(dr.phase, p) <= n}

(* visit_bytes: the cells that pass in the next n ticks of the revolution. *)
Passing(dr, n) == {p \in DOMAIN UnderHead(dr) : dr.present /\ Forward(dr.phase, p) < n}

Rotate(dr, n) ==
  IF dr.present THEN [dr EXCEPT !.phase = (@ + n) % RevolutionTicks] ELSE dr

WriteAnyDisk(dr, tick, v) ==
  IF dr.present THEN [dr EXCEPT !.image[dr.head] = TrackWrite(@, tick, v)] ELSE dr

WriteProtected(dr) == ~dr.present \/ ~dr.writable

WriteByte(dr, tick, v) ==
  IF WriteProtected(dr) THEN dr
  ELSE [dr EXCEPT !.image[dr.head] = TrackWrite(@, tick, v)]

Step(dr, outward) ==
  [dr EXCEPT !.head = IF outward THEN IF @ < LastTrack THEN @ + 1 ELSE @
                      ELSE IF @ # 0 THEN @ - 1 ELSE @]

IndexActive(dr, width) == dr.present /\ dr.phase < width

----------------------------------------------------------------------------
(* FloppySubsystem and its wiring in Machine. *)

(* control_port_c_inputs: PC6 pulled up, /TRACK 00, /WRITE PROTECT, /INDEX. *)
Status(ds, c) ==
  LET dr == ds[c.selected]
  IN {6} \cup {b \in {4} : dr.head = 0} \cup {b \in {5} : WriteProtected(dr)}
         \cup {b \in {7} : IndexActive(dr, c.width)}

RefreshFloppyInputs(ds, c, p) == [p EXCEPT !.pinC = Status(ds, c)]

SelectionOf(p) == IF p.inCU \/ 5 \in p.outC THEN "B" ELSE "A"

(* set_control_port_c: the drives after it and the cable after it.         *)
Driven(p) == ~p.inCL
StepEnds(c, p) == Driven(p) /\ c.step /\ 0 \notin p.outC
Stepped(ds, c, p) ==
  IF StepEnds(c, p) THEN [ds EXCEPT ![c.selected] = Step(@, 1 \in p.outC)] ELSE ds
ControlCable(c, p) ==
  [c EXCEPT !.step = Driven(p) /\ 0 \in p.outC,
            !.outward = Driven(p) /\ 1 \in p.outC,
            !.loaded = Driven(p) /\ 3 \in p.outC]

----------------------------------------------------------------------------
Init ==
  /\ drives = [d \in Drive |-> [present |-> FALSE, image |-> NoImage, writable |-> FALSE,
                                phase |-> 0, head |-> 0]]
  /\ cable = [selected |-> "B", step |-> FALSE, outward |-> FALSE, loaded |-> FALSE, width |-> 0]
  /\ data = [ResetPpi EXCEPT !.pinC = {5}]
  /\ control = RefreshFloppyInputs(drives, cable, ResetPpi)
  /\ lastTick = 0
  /\ inserted = [d \in Drive |-> NoImage] /\ fresh = FALSE /\ inward = 0

(* The frontend. *)
Insert(d, image, writable) ==
  /\ drives' = [drives EXCEPT ![d].present = TRUE, ![d].image = image, ![d].writable = writable]
  /\ control' = RefreshFloppyInputs(drives', cable, control)
  /\ inserted' = [inserted EXCEPT ![d] = image]
  /\ fresh' = (fresh /\ d # cable.selected)
  /\ UNCHANGED <<cable, data, lastTick, inward>>

EjectForgetsStatus(ds, c, p) == p

AfterEject(ds, c, p) == RefreshFloppyInputs(ds, c, p)

Eject(d) ==
  /\ drives' = [drives EXCEPT ![d].present = FALSE, ![d].image = NoImage, ![d].writable = FALSE]
  /\ control' = AfterEject(drives', cable, control)
  /\ inserted' = [inserted EXCEPT ![d] = NoImage]
  /\ fresh' = (fresh /\ d # cable.selected)
  /\ UNCHANGED <<cable, data, lastTick, inward>>

SetIndexPulseWidth(w) ==
  /\ cable' = [cable EXCEPT !.width = w]
  /\ control' = RefreshFloppyInputs(drives, cable', control)
  /\ UNCHANGED <<drives, data, lastTick, inserted, fresh, inward>>

ResetController(c) ==
  [c EXCEPT !.selected = "B", !.step = FALSE, !.outward = FALSE, !.loaded = FALSE]

(* Machine::reset: media, rotation and heads stay as they are.             *)
Reset ==
  /\ cable' = ResetController(cable)
  /\ data' = [ResetPpi EXCEPT !.pinC = {5}]
  /\ control' = RefreshFloppyInputs(drives, cable', ResetPpi)
  /\ lastTick' = 0
  /\ fresh' = FALSE /\ inward' = 0
  /\ UNCHANGED <<drives, inserted>>

(* advance_time: a cell passes, then what the electronics have queued for  *)
(* the position of the last one reaches the medium.                        *)
AdvanceTime(n, writes, v) ==
  LET now == drives[cable.selected]
      passing == Passing(now, n)
      tick == IF passing = {} THEN lastTick
              ELSE CHOOSE p \in passing : \A q \in passing :
                     Forward(now.phase, q) <= Forward(now.phase, p)
      turned == [d \in Drive |-> Rotate(drives[d], n)]
  IN /\ lastTick' = tick
     /\ drives' = IF writes /\ cable.loaded
                  THEN [turned EXCEPT ![cable.selected] = WriteByte(@, tick, v)]
                  ELSE turned
     /\ control' = RefreshFloppyInputs(turned, cable, control)
     /\ fresh' = (passing # {} \/ (fresh /\ lastTick \in DOMAIN UnderHead(now)))
     /\ UNCHANGED <<cable, data, inserted, inward>>

(* OUT 20h..23h. *)
WriteDataPpi(p) ==
  /\ data' = p
  /\ cable' = [cable EXCEPT !.selected = SelectionOf(p)]
  /\ control' = RefreshFloppyInputs(drives, cable', control)
  /\ fresh' = (fresh /\ cable'.selected = cable.selected)
  /\ inward' = IF cable'.selected = cable.selected THEN inward ELSE 0
  /\ UNCHANGED <<drives, lastTick, inserted>>

(* OUT 60h..63h; a mode set clears port C and so ends a pulse.             *)
WriteControlPpi(p) ==
  /\ drives' = Stepped(drives, cable, p)
  /\ cable' = ControlCable(cable, p)
  /\ control' = RefreshFloppyInputs(drives', cable', p)
  /\ fresh' = (fresh /\ ~StepEnds(cable, p))
  /\ inward' = IF 0 \in control.outC /\ 0 \notin p.outC /\ Driven(control) /\ Driven(p)
               THEN IF 1 \in p.outC THEN 0 ELSE IF inward < LastTrack THEN inward + 1 ELSE inward
               ELSE inward
  /\ UNCHANGED <<data, lastTick, inserted>>

Next ==
  \/ \E d \in Drive : Eject(d) \/ \E m \in Media[d] : Insert(d, m[1], m[2])
  \/ \E w \in Widths : SetIndexPulseWidth(w)
  \/ Reset
  \/ \E n \in 1 .. ByteTicks, writes \in BOOLEAN, v \in Byte : AdvanceTime(n, writes, v)
  \/ \E w \in DataWords : WriteDataPpi(WriteMode(data, w))
  \/ \E set \in BOOLEAN : WriteDataPpi(BitSetReset(data, 5, set))
  \/ \E w \in ControlWords : WriteControlPpi(WriteMode(control, w))
  \/ \E bits \in SUBSET {0, 1, 3} : WriteControlPpi(WriteC(control, bits))

Spec == Init /\ [][Next]_vars

----------------------------------------------------------------------------
TypeOK ==
  /\ drives \in [Drive -> DriveState] /\ cable \in Cable
  /\ data \in PpiState /\ control \in PpiState /\ lastTick \in Tick

(* Whatever is written at whatever position, the one of the last byte of   *)
(* another drive or track among them, the cells of a track stay a byte     *)
(* time apart all round: no two bytes pass faster than the CPU can answer. *)
TracksSpaced == \A d \in Drive, t \in TrackIndex : Spaced(DOMAIN drives[d].image[t])

(* A medium inserted read-only comes out as it went in.                    *)
ProtectedIsUnchanged ==
  \A d \in Drive : ~drives[d].writable => drives[d].image = inserted[d]

Ahead(from, to) == IF to = from THEN RevolutionTicks ELSE Forward(from, to)

(* The cells of a track pass one after the other: none is skipped and none *)
(* passes twice, however the ticks are cut into calls and wherever the     *)
(* Index falls.                                                            *)
CellsPassInTurn ==
  [][\A n \in 1 .. ByteTicks, writes \in BOOLEAN, v \in Byte :
       LET now == drives[cable.selected] IN
       AdvanceTime(n, writes, v) /\ fresh /\ Passing(now, n) # {} =>
         \A p \in DOMAIN UnderHead(now) : Ahead(lastTick, lastTick') <= Ahead(lastTick, p)]_vars

(* The drive a byte is read from is the one the 8255's PC5 names, through  *)
(* resets, mode sets and bit sets of it; and port C of the control 8255    *)
(* never shows an old track 0, protection or Index, whichever of the four  *)
(* parties changed it last.  After as many pulses towards track 0 as there *)
(* are tracks PC4 says so, wherever the head was and whatever happened in  *)
(* between: a driver's restore ends.                                       *)
StatusIsCurrent ==
  /\ TypeOK
  /\ cable.selected = SelectionOf(data)
  /\ control.pinC = Status(drives, cable)
  /\ inward = LastTrack => 4 \in control.pinC
=============================================================================
