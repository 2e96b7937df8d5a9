------------------------- MODULE FloppyDrives_proofs -------------------------
(***************************************************************************)
(* Proofs about the drives and their wiring: cells keep their room, a      *)
(* protected medium its contents, the ports show the drives as they are,   *)
(* and the cells of a track pass one after the other, for every medium,    *)
(* number of tracks and length of a revolution.                            *)
(***************************************************************************)
EXTENDS FloppyDrives, Ppi8255Lemmas, WellFoundedInduction, TLAPS

----------------------------------------------------------------------------
(* Positions of a revolution. *)

LEMMA SmallestOf ==
  ASSUME NEW S \in SUBSET Nat, S # {}
  PROVE  \E x \in S : \A y \in S : x <= y
<1>1. PICK x \in S : \A y \in S : ~(<<y, x>> \in OpToRel(<, Nat))
  BY NatLessThanWellFounded, WFMin
<1>2. \A y \in S : ~(y < x)
  BY <1>1 DEF OpToRel
<1> QED BY <1>2

LEMMA Revolution ==
  /\ RevolutionTicks \in Nat \ {0} /\ ByteTicks \in Nat \ {0} /\ 0 \in Tick
  /\ \A p, q \in Tick : Forward(p, q) \in Tick
  /\ \A p \in Tick, n \in Nat : (p + n) % RevolutionTicks \in Tick
<1>1. RevolutionTicks \in Nat \ {0} /\ ByteTicks \in Nat \ {0}
  BY FloppyAssumption
<1>2. \A n \in Nat : n % RevolutionTicks \in Tick
  BY <1>1 DEF Tick
<1>3. 0 \in Tick
  BY <1>1 DEF Tick
<1>4. ASSUME NEW p \in Tick, NEW q \in Tick PROVE Forward(p, q) \in Tick
  <2>1. q + RevolutionTicks - p \in Nat
    BY <1>1 DEF Tick
  <2> QED BY <1>2, <2>1 DEF Forward
<1>5. ASSUME NEW p \in Tick, NEW n \in Nat PROVE (p + n) % RevolutionTicks \in Tick
  <2>1. p + n \in Nat
    BY DEF Tick
  <2> QED BY <1>2, <2>1
<1> QED BY <1>1, <1>3, <1>4, <1>5

(* Of some positions one is the next, and one was the last, from any place.*)
LEMMA Nearest ==
  ASSUME NEW S \in SUBSET Tick, S # {}, NEW t \in Tick
  PROVE  /\ \E p \in S : \A q \in S : Forward(p, t) <= Forward(q, t)
         /\ \E p \in S : \A q \in S : Forward(t, p) <= Forward(t, q)
         /\ \E p \in S : \A q \in S : Forward(t, q) <= Forward(t, p)
<1> DEFINE T == {Forward(q, t) : q \in S}
           U == {Forward(t, q) : q \in S}
           W == {RevolutionTicks - Forward(t, q) : q \in S}
<1>1. /\ RevolutionTicks \in Nat
      /\ \A q \in S : Forward(q, t) \in Tick /\ Forward(t, q) \in Tick
  BY Revolution
<1>2. T \in SUBSET Nat /\ U \in SUBSET Nat /\ W \in SUBSET Nat
  BY <1>1 DEF Tick
<1>3. T # {} /\ U # {} /\ W # {}
  OBVIOUS
<1>4. \E x \in T : \A y \in T : x <= y
  BY <1>2, <1>3, SmallestOf
<1>5. \E x \in U : \A y \in U : x <= y
  BY <1>2, <1>3, SmallestOf
<1>6. \E x \in W : \A y \in W : x <= y
  BY <1>2, <1>3, SmallestOf
<1>7. \E p \in S : \A q \in S : Forward(p, t) <= Forward(q, t)
  BY <1>4
<1>8. \E p \in S : \A q \in S : Forward(t, p) <= Forward(t, q)
  BY <1>5
<1>9. \E p \in S : \A q \in S : RevolutionTicks - Forward(t, p) <= RevolutionTicks - Forward(t, q)
  BY <1>6
<1>10. \A p, q \in S : RevolutionTicks - Forward(t, p) <= RevolutionTicks - Forward(t, q)
                         => Forward(t, q) <= Forward(t, p)
  BY <1>1 DEF Tick
<1> QED BY <1>7, <1>8, <1>9, <1>10

----------------------------------------------------------------------------
(* Tracks. *)

LEMMA TrackCells ==
  ASSUME NEW track \in Track
  PROVE  DOMAIN track \in SUBSET Tick /\ track \in [DOMAIN track -> Byte]
BY DEF Track

(* A write leaves a track, and room for a byte between any two cells.      *)
LEMMA WriteKeepsRoom ==
  ASSUME NEW track \in Track, Spaced(DOMAIN track), NEW tick \in Tick, NEW v \in Byte
  PROVE  LET written == TrackWrite(track, tick, v)
         IN written \in Track /\ Spaced(DOMAIN written)
<1> DEFINE others == DOMAIN track
           previous == CHOOSE p \in others : \A q \in others : Forward(p, tick) <= Forward(q, tick)
           next == CHOOSE p \in others : \A q \in others : Forward(tick, p) <= Forward(tick, q)
           wider == [p \in others \cup {tick} |-> IF p = tick THEN v ELSE track[p]]
           written == TrackWrite(track, tick, v)
<1>1. others \in SUBSET Tick /\ track \in [others -> Byte]
  BY TrackCells
<1>2. CASE tick \in others
  <2>1. written = [track EXCEPT ![tick] = v]
    BY <1>2 DEF TrackWrite
  <2>2. written \in [others -> Byte] /\ DOMAIN written = others
    BY <1>1, <2>1
  <2>3. written \in Track
    BY <1>1, <2>2 DEF Track
  <2> QED BY <2>2, <2>3
<1>3. CASE tick \notin others /\ (others = {} \/ (Forward(previous, tick) >= ByteTicks
                                                /\ Forward(tick, next) >= ByteTicks))
  <2>1. written = wider
    BY <1>3 DEF TrackWrite
  <2>2. wider \in [others \cup {tick} -> Byte] /\ DOMAIN wider = others \cup {tick}
    BY <1>1
  <2>3. wider \in Track
    <3>1. others \cup {tick} \in SUBSET Tick
      BY <1>1
    <3> HIDE DEF wider
    <3> QED BY <2>2, <3>1 DEF Track
  <2>4. ASSUME NEW q \in others
        PROVE  Forward(tick, q) >= ByteTicks /\ Forward(q, tick) >= ByteTicks
    <3>1. others # {} /\ q \in Tick
      BY <1>1
    <3>2. previous \in others /\ Forward(previous, tick) <= Forward(q, tick)
      BY <1>1, <3>1, Nearest
    <3>3. next \in others /\ Forward(tick, next) <= Forward(tick, q)
      BY <1>1, <3>1, Nearest
    <3>4. Forward(previous, tick) >= ByteTicks /\ Forward(tick, next) >= ByteTicks
      BY <1>3, <3>1
    <3>5. /\ Forward(previous, tick) \in Nat /\ Forward(q, tick) \in Nat
          /\ Forward(tick, next) \in Nat /\ Forward(tick, q) \in Nat
      BY <1>1, <3>1, <3>2, <3>3, Revolution DEF Tick
    <3>6. ByteTicks \in Nat
      BY Revolution
    <3> HIDE DEF previous, next
    <3> QED BY <3>2, <3>3, <3>4, <3>5, <3>6
  <2>5. Spaced(others \cup {tick})
    BY <2>4 DEF Spaced
  <2> QED BY <2>1, <2>2, <2>3, <2>5
<1>4. CASE tick \notin others /\ ~(others = {} \/ (Forward(previous, tick) >= ByteTicks
                                                 /\ Forward(tick, next) >= ByteTicks))
  <2>1. written = track
    BY <1>4 DEF TrackWrite
  <2> QED BY <2>1
<1> QED BY <1>2, <1>3, <1>4

----------------------------------------------------------------------------
(* Drives. *)

(* A drive and its medium, and the image it was inserted with. *)
Sound(dr, image) ==
  /\ dr \in DriveState
  /\ \A t \in TrackIndex : Spaced(DOMAIN dr.image[t])
  /\ ~dr.writable => dr.image = image

LEMMA TrackNumbers == LastTrack \in Nat /\ 0 \in TrackIndex
BY FloppyAssumption DEF TrackIndex

LEMMA EmptyImage ==
  /\ NoImage \in Image
  /\ \A t \in TrackIndex : Spaced(DOMAIN NoImage[t])
<1>1. EmptyTrack \in [{} -> Byte] /\ {} \in SUBSET Tick /\ DOMAIN EmptyTrack = {}
  BY DEF EmptyTrack
<1>2. EmptyTrack \in Track
  BY <1>1 DEF Track
<1>3. NoImage \in Image
  BY <1>2 DEF NoImage, Image
<1>4. \A t \in TrackIndex : NoImage[t] = EmptyTrack
  BY DEF NoImage
<1> QED BY <1>1, <1>3, <1>4 DEF Spaced

LEMMA RotateSound ==
  ASSUME NEW image, NEW dr, Sound(dr, image), NEW n \in Nat
  PROVE  /\ Sound(Rotate(dr, n), image)
         /\ Rotate(dr, n).head = dr.head /\ Rotate(dr, n).present = dr.present
         /\ Rotate(dr, n).writable = dr.writable
<1> DEFINE r == Rotate(dr, n)
<1>1. dr \in DriveState /\ dr.phase \in Tick
  BY DEF Sound, DriveState
<1>2. (dr.phase + n) % RevolutionTicks \in Tick
  BY <1>1, Revolution
<1>3. /\ r \in DriveState /\ r.head = dr.head /\ r.present = dr.present
      /\ r.writable = dr.writable /\ r.image = dr.image
  BY <1>1, <1>2 DEF Rotate, DriveState
<1> HIDE DEF r
<1> QED BY <1>3 DEF Sound, r

LEMMA WriteSound ==
  ASSUME NEW image, NEW dr, Sound(dr, image), NEW tick \in Tick, NEW v \in Byte
  PROVE  LET w == WriteByte(dr, tick, v)
         IN /\ Sound(w, image)
            /\ w.head = dr.head /\ w.present = dr.present /\ w.writable = dr.writable
            /\ w.phase = dr.phase
<1> DEFINE w == WriteByte(dr, tick, v)
           written == TrackWrite(dr.image[dr.head], tick, v)
           other == [dr.image EXCEPT ![dr.head] = written]
<1>1. /\ dr \in DriveState /\ dr.head \in TrackIndex /\ dr.image \in Image
      /\ dr.writable \in BOOLEAN /\ dr.present \in BOOLEAN
  BY DEF Sound, DriveState
<1>2. CASE WriteProtected(dr)
  <2>1. w = dr
    BY <1>2 DEF WriteByte
  <2> QED BY <2>1
<1>3. CASE ~WriteProtected(dr)
  <2>1. dr.writable
    BY <1>3 DEF WriteProtected
  <2>2. dr.image[dr.head] \in Track /\ Spaced(DOMAIN dr.image[dr.head])
    BY <1>1 DEF Image, Sound
  <2>3. written \in Track /\ Spaced(DOMAIN written)
    BY <2>2, WriteKeepsRoom
  <2>4. w = [dr EXCEPT !.image = other]
    BY <1>1, <1>3 DEF WriteByte, DriveState
  <2> HIDE DEF written
  <2>5. other \in Image /\ \A t \in TrackIndex : Spaced(DOMAIN other[t])
    BY <1>1, <2>3 DEF Image, Sound
  <2> HIDE DEF other, w
  <2>6. /\ w \in DriveState /\ w.image = other /\ w.head = dr.head /\ w.present = dr.present
        /\ w.writable = dr.writable /\ w.phase = dr.phase
    BY <1>1, <2>4, <2>5 DEF DriveState
  <2> QED BY <2>1, <2>5, <2>6 DEF Sound, w
<1> QED BY <1>2, <1>3

(* A step towards track 0 gets there, or is there already. *)
LEMMA StepSound ==
  ASSUME NEW image, NEW dr, Sound(dr, image), NEW outward
  PROVE  LET s == Step(dr, outward)
         IN /\ Sound(s, image)
            /\ ~outward => s.head = IF dr.head # 0 THEN dr.head - 1 ELSE 0
<1> DEFINE s == Step(dr, outward)
           head == IF outward THEN IF dr.head < LastTrack THEN dr.head + 1 ELSE dr.head
                   ELSE IF dr.head # 0 THEN dr.head - 1 ELSE dr.head
<1>1. dr \in DriveState /\ dr.head \in 0 .. LastTrack
  BY DEF Sound, DriveState, TrackIndex
<1>2. s = [dr EXCEPT !.head = head]
  BY <1>1 DEF Step, DriveState
<1>3. head \in TrackIndex
  BY <1>1, TrackNumbers DEF TrackIndex
<1>4. ~outward => head = IF dr.head # 0 THEN dr.head - 1 ELSE 0
  BY <1>1
<1> HIDE DEF head, s
<1>5. s \in DriveState /\ s.head = head /\ s.image = dr.image /\ s.writable = dr.writable
  BY <1>1, <1>2, <1>3 DEF DriveState
<1> QED BY <1>4, <1>5 DEF Sound, s

----------------------------------------------------------------------------
(* The wiring. *)

LEMMA PinsEffect ==
  ASSUME NEW p, SettledPpi(p), NEW pins \in SUBSET Bit
  PROVE  LET q == [p EXCEPT !.pinC = pins]
         IN /\ SettledPpi(q) /\ q.pinC = pins
            /\ q.outC = p.outC /\ q.inCL = p.inCL /\ q.inCU = p.inCU
<1> DEFINE q == [p EXCEPT !.pinC = pins]
<1>1. p \in PpiState /\ p.a.intr = Request(p.a) /\ p.b.intr = Request(p.b)
  BY SettledPins DEF SettledPpi
<1>2. /\ q \in PpiState /\ q.a = p.a /\ q.b = p.b /\ q.pinC = pins
      /\ q.outC = p.outC /\ q.inCL = p.inCL /\ q.inCU = p.inCU
  BY <1>1 DEF PpiState
<1> HIDE DEF q
<1> QED BY <1>1, <1>2, SettledPins DEF SettledPpi, q

LEMMA RefreshEffect ==
  ASSUME NEW p, SettledPpi(p), NEW ds, NEW c
  PROVE  LET q == RefreshFloppyInputs(ds, c, p)
         IN /\ SettledPpi(q) /\ q.pinC = Status(ds, c)
            /\ q.outC = p.outC /\ q.inCL = p.inCL /\ q.inCU = p.inCU
<1>1. Status(ds, c) \in SUBSET Bit
  BY DEF Status, Bit
<1> QED BY <1>1, PinsEffect DEF RefreshFloppyInputs

(* The drives, and the cable with what the two 8255s put on it.            *)
DrivesInv ==
  /\ drives \in [Drive -> DriveState] /\ inserted \in [Drive -> Image]
  /\ \A d \in Drive : Sound(drives[d], inserted[d])
  /\ lastTick \in Tick
CableInv ==
  /\ cable \in Cable /\ SettledPpi(data) /\ SettledPpi(control)
  /\ cable.selected = SelectionOf(data)
  /\ control.pinC = Status(drives, cable)
  /\ cable.step = (Driven(control) /\ 0 \in control.outC)

(* What the pulses that have been given leave of the way to track 0. *)
RestoreInv ==
  /\ inward \in 0 .. LastTrack
  /\ drives[cable.selected].head + inward <= LastTrack

FloppyInv == DrivesInv /\ CableInv /\ RestoreInv

LEMMA FloppyInvShows == FloppyInv => TracksSpaced /\ ProtectedIsUnchanged /\ StatusIsCurrent
<1> SUFFICES ASSUME FloppyInv PROVE TracksSpaced /\ ProtectedIsUnchanged /\ StatusIsCurrent
  OBVIOUS
<1>1. TracksSpaced /\ ProtectedIsUnchanged
  BY DEF FloppyInv, DrivesInv, Sound, TracksSpaced, ProtectedIsUnchanged
<1>2. TypeOK
  BY DEF FloppyInv, DrivesInv, CableInv, SettledPpi, TypeOK
<1>3. ASSUME inward = LastTrack PROVE 4 \in control.pinC
  <2>1. drives[cable.selected].head \in 0 .. LastTrack
    BY DEF FloppyInv, DrivesInv, CableInv, Cable, DriveState, TrackIndex
  <2>2. drives[cable.selected].head = 0
    BY <1>3, <2>1, TrackNumbers DEF FloppyInv, RestoreInv
  <2> QED BY <2>2 DEF FloppyInv, CableInv, Status
<1> QED BY <1>1, <1>2, <1>3 DEF FloppyInv, CableInv, StatusIsCurrent

(* A change of drives or cable that ends in a refresh. *)
LEMMA RefreshedInv ==
  ASSUME NEW p, SettledPpi(p), control' = RefreshFloppyInputs(drives', cable', p),
         DrivesInv', cable' \in Cable, SettledPpi(data'),
         cable'.selected = SelectionOf(data'),
         cable'.step = (Driven(p) /\ 0 \in p.outC),
         RestoreInv'
  PROVE  FloppyInv'
<1>1. /\ SettledPpi(control') /\ control'.pinC = Status(drives', cable')
      /\ control'.outC = p.outC /\ control'.inCL = p.inCL
  BY RefreshEffect
<1>2. cable'.step = (Driven(control') /\ 0 \in control'.outC)
  BY <1>1 DEF Driven
<1>3. CableInv'
  BY <1>1, <1>2 DEF CableInv, SettledPpi, Cable
<1> QED BY <1>3 DEF FloppyInv

(* The drives with one of them changed. *)
LEMMA OneDrive ==
  ASSUME DrivesInv, NEW d \in Drive, NEW dr, NEW image \in Image, Sound(dr, image)
  PROVE  LET ds == [drives EXCEPT ![d] = dr]
             is == [inserted EXCEPT ![d] = image]
         IN /\ ds \in [Drive -> DriveState] /\ is \in [Drive -> Image]
            /\ \A e \in Drive : Sound(ds[e], is[e])
            /\ ds[d] = dr /\ \A e \in Drive \ {d} : ds[e] = drives[e]
BY DEF DrivesInv, Sound

LEMMA InsertInv ==
  ASSUME FloppyInv, NEW d \in Drive, NEW image \in Image, NEW writable \in BOOLEAN,
         \A t \in TrackIndex : Spaced(DOMAIN image[t]), Insert(d, image, writable)
  PROVE  FloppyInv'
<1> DEFINE dr == [drives[d] EXCEPT !.present = TRUE, !.image = image, !.writable = writable]
<1>1. /\ drives \in [Drive -> DriveState] /\ drives[d] \in DriveState
  BY DEF FloppyInv, DrivesInv
<1>2. /\ dr \in DriveState /\ dr.image = image /\ dr.head = drives[d].head
  BY <1>1 DEF DriveState
<1>3. /\ drives' = [drives EXCEPT ![d] = dr] /\ inserted' = [inserted EXCEPT ![d] = image]
      /\ control' = RefreshFloppyInputs(drives', cable, control)
      /\ cable' = cable /\ data' = data /\ lastTick' = lastTick /\ inward' = inward
  BY <1>1 DEF Insert
<1> HIDE DEF dr
<1>4. Sound(dr, image)
  BY <1>2 DEF Sound
<1>5. DrivesInv'
  BY <1>3, <1>4, OneDrive DEF FloppyInv, DrivesInv, Sound, DriveState, Tick, Image
<1>6. \A e \in Drive : drives'[e].head = drives[e].head
  BY <1>1, <1>2, <1>3
<1>7. RestoreInv'
  BY <1>3, <1>6 DEF FloppyInv, CableInv, Cable, RestoreInv
<1> QED BY <1>3, <1>5, <1>7, RefreshedInv DEF FloppyInv, CableInv

LEMMA EjectInv == ASSUME FloppyInv, NEW d \in Drive, Eject(d) PROVE FloppyInv'
<1> DEFINE dr == [drives[d] EXCEPT !.present = FALSE, !.image = NoImage, !.writable = FALSE]
<1>1. /\ drives \in [Drive -> DriveState] /\ drives[d] \in DriveState
  BY DEF FloppyInv, DrivesInv
<1>2. /\ dr \in DriveState /\ dr.image = NoImage /\ dr.head = drives[d].head
  BY <1>1, EmptyImage DEF DriveState
<1>3. /\ drives' = [drives EXCEPT ![d] = dr] /\ inserted' = [inserted EXCEPT ![d] = NoImage]
      /\ control' = RefreshFloppyInputs(drives', cable, control)
      /\ cable' = cable /\ data' = data /\ lastTick' = lastTick /\ inward' = inward
  BY <1>1 DEF Eject, AfterEject
<1> HIDE DEF dr
<1>4. Sound(dr, NoImage)
  BY <1>2, EmptyImage DEF Sound
<1>5. DrivesInv'
  BY <1>3, <1>4, EmptyImage, OneDrive DEF FloppyInv, DrivesInv, Sound, DriveState, Tick, Image
<1>6. \A e \in Drive : drives'[e].head = drives[e].head
  BY <1>1, <1>2, <1>3
<1>7. RestoreInv'
  BY <1>3, <1>6 DEF FloppyInv, CableInv, Cable, RestoreInv
<1> QED BY <1>3, <1>5, <1>7, RefreshedInv DEF FloppyInv, CableInv

LEMMA WidthInv == ASSUME FloppyInv, NEW w \in Widths, SetIndexPulseWidth(w) PROVE FloppyInv'
<1>1. /\ cable' = [cable EXCEPT !.width = w]
      /\ control' = RefreshFloppyInputs(drives', cable', control)
      /\ drives' = drives /\ inserted' = inserted /\ data' = data /\ lastTick' = lastTick
      /\ inward' = inward
  BY DEF SetIndexPulseWidth
<1>2. w \in Tick /\ cable \in Cable
  BY FloppyAssumption DEF FloppyInv, CableInv
<1>3. cable' \in Cable /\ cable'.selected = cable.selected /\ cable'.step = cable.step
  BY <1>1, <1>2 DEF Cable
<1>4. DrivesInv'
  BY <1>1 DEF FloppyInv, DrivesInv, Sound, DriveState, Tick, Image
<1>5. RestoreInv'
  BY <1>1, <1>3 DEF FloppyInv, RestoreInv
<1> QED BY <1>1, <1>3, <1>4, <1>5, RefreshedInv DEF FloppyInv, CableInv

(* The 8255 as a reset leaves it, PC5 of the disk data pulled up.          *)
LEMMA ResetData ==
  /\ SettledPpi([ResetPpi EXCEPT !.pinC = {5}])
  /\ SelectionOf([ResetPpi EXCEPT !.pinC = {5}]) = "B"
  /\ ~Driven(ResetPpi)
<1>1. SettledPpi(ResetPpi) /\ ResetPpi.inCU = TRUE /\ ResetPpi.inCL = TRUE
  BY ResetSettles DEF ResetPpi
<1>2. {5} \in SUBSET Bit
  BY DEF Bit
<1> QED BY <1>1, <1>2, PinsEffect DEF SelectionOf, Driven

LEMMA ResetInv == ASSUME FloppyInv, Reset PROVE FloppyInv'
<1>1. /\ cable' = ResetController(cable) /\ data' = [ResetPpi EXCEPT !.pinC = {5}]
      /\ control' = RefreshFloppyInputs(drives', cable', ResetPpi)
      /\ drives' = drives /\ inserted' = inserted /\ lastTick' = 0 /\ inward' = 0
  BY DEF Reset
<1>2. cable \in Cable /\ drives \in [Drive -> DriveState]
  BY DEF FloppyInv, CableInv, DrivesInv
<1>3. cable' \in Cable /\ cable'.selected = "B" /\ cable'.step = FALSE
  BY <1>1, <1>2 DEF ResetController, Cable, Drive
<1>4. DrivesInv'
  BY <1>1, Revolution DEF FloppyInv, DrivesInv, Sound, DriveState, Tick, Image
<1>5. RestoreInv'
  <2>1. drives["B"].head \in 0 .. LastTrack
    BY <1>2 DEF Drive, DriveState, TrackIndex
  <2>2. inward' \in 0 .. LastTrack /\ drives'[cable'.selected].head + inward' <= LastTrack
    BY <1>1, <1>3, <2>1, TrackNumbers
  <2> QED BY <2>2 DEF RestoreInv
<1>6. SettledPpi(data') /\ cable'.selected = SelectionOf(data')
  BY <1>1, <1>3, ResetData
<1>7. SettledPpi(ResetPpi) /\ (Driven(ResetPpi) /\ 0 \in ResetPpi.outC) = FALSE
  BY ResetSettles, ResetData
<1> QED BY <1>1, <1>3, <1>4, <1>5, <1>6, <1>7, RefreshedInv

LEMMA AdvanceInv ==
  ASSUME FloppyInv, NEW n \in 1 .. ByteTicks, NEW writes \in BOOLEAN, NEW v \in Byte,
         AdvanceTime(n, writes, v)
  PROVE  FloppyInv'
<1> DEFINE sel == cable.selected
           now == drives[sel]
           passing == Passing(now, n)
           turned == [d \in Drive |-> Rotate(drives[d], n)]
           written == WriteByte(turned[sel], lastTick', v)
<1>1. /\ drives \in [Drive -> DriveState] /\ inserted \in [Drive -> Image] /\ lastTick \in Tick
      /\ \A d \in Drive : Sound(drives[d], inserted[d])
      /\ sel \in Drive /\ cable \in Cable
  BY DEF FloppyInv, DrivesInv, CableInv, Cable
<1>2. n \in Nat
  BY Revolution
<1>3. lastTick' \in Tick
  <2>1. CASE passing = {}
    BY <1>1, <2>1 DEF AdvanceTime
  <2>2. CASE passing # {}
    <3>1. now \in DriveState /\ now.phase \in Tick /\ UnderHead(now) \in Track
      BY <1>1 DEF DriveState, UnderHead, Image
    <3>2. passing \in SUBSET Tick
      BY <3>1, TrackCells DEF Passing
    <3>3. \E p \in passing : \A q \in passing : Forward(now.phase, q) <= Forward(now.phase, p)
      BY <2>2, <3>1, <3>2, Nearest, ZenonT(60)
    <3>4. lastTick' = CHOOSE p \in passing : \A q \in passing :
                        Forward(now.phase, q) <= Forward(now.phase, p)
      BY <2>2 DEF AdvanceTime
    <3>5. lastTick' \in passing
      BY <3>3, <3>4, Zenon
    <3> QED BY <3>2, <3>5
  <2> QED BY <2>1, <2>2
<1>4. \A d \in Drive : /\ Sound(turned[d], inserted[d]) /\ turned[d].head = drives[d].head
  BY <1>1, <1>2, RotateSound
<1>5. turned \in [Drive -> DriveState]
  BY <1>4 DEF Sound
<1>6. /\ drives' = IF writes /\ cable.loaded THEN [turned EXCEPT ![sel] = written] ELSE turned
      /\ control' = RefreshFloppyInputs(turned, cable, control)
      /\ cable' = cable /\ data' = data /\ inserted' = inserted /\ inward' = inward
  BY <1>1 DEF AdvanceTime
<1>7. /\ Sound(written, inserted[sel]) /\ written.head = turned[sel].head
      /\ written.present = turned[sel].present /\ written.writable = turned[sel].writable
      /\ written.phase = turned[sel].phase
  BY <1>1, <1>3, <1>4, WriteSound
<1> HIDE DEF turned, written
<1>8. /\ drives' \in [Drive -> DriveState]
      /\ \A d \in Drive : Sound(drives'[d], inserted[d]) /\ drives'[d].head = drives[d].head
      /\ drives'[sel].head = turned[sel].head /\ drives'[sel].present = turned[sel].present
      /\ drives'[sel].writable = turned[sel].writable /\ drives'[sel].phase = turned[sel].phase
  BY <1>1, <1>4, <1>5, <1>6, <1>7 DEF Sound
<1>9. Status(drives', cable) = Status(turned, cable)
  BY <1>8 DEF Status, WriteProtected, IndexActive
<1>10. control' = RefreshFloppyInputs(drives', cable', control)
  BY <1>6, <1>9 DEF RefreshFloppyInputs
<1>11. DrivesInv'
  BY <1>1, <1>3, <1>6, <1>8 DEF DrivesInv, Sound, DriveState, Tick, Image
<1>12. RestoreInv'
  BY <1>1, <1>6, <1>8 DEF FloppyInv, RestoreInv
<1> QED BY <1>6, <1>10, <1>11, <1>12, RefreshedInv DEF FloppyInv, CableInv

LEMMA WriteDataInv == ASSUME FloppyInv, NEW p, SettledPpi(p), WriteDataPpi(p) PROVE FloppyInv'
<1>1. /\ data' = p /\ cable' = [cable EXCEPT !.selected = SelectionOf(p)]
      /\ control' = RefreshFloppyInputs(drives', cable', control)
      /\ drives' = drives /\ inserted' = inserted /\ lastTick' = lastTick
      /\ inward' = IF cable'.selected = cable.selected THEN inward ELSE 0
  BY DEF WriteDataPpi
<1>2. cable \in Cable /\ drives \in [Drive -> DriveState] /\ SelectionOf(p) \in Drive
  BY DEF FloppyInv, CableInv, DrivesInv, SelectionOf, Drive
<1>3. cable' \in Cable /\ cable'.selected = SelectionOf(p) /\ cable'.step = cable.step
  BY <1>1, <1>2 DEF Cable
<1>4. DrivesInv'
  BY <1>1 DEF FloppyInv, DrivesInv, Sound, DriveState, Tick, Image
<1>5. RestoreInv'
  <2>1. drives[cable'.selected].head \in 0 .. LastTrack
    BY <1>2, <1>3 DEF DriveState, TrackIndex
  <2>2. inward' \in 0 .. LastTrack /\ drives'[cable'.selected].head + inward' <= LastTrack
    BY <1>1, <2>1, TrackNumbers DEF FloppyInv, RestoreInv
  <2> QED BY <2>2 DEF RestoreInv
<1> QED BY <1>1, <1>3, <1>4, <1>5, RefreshedInv DEF FloppyInv, CableInv

(* A pulse counts exactly when the drive sees one, because the cable's     *)
(* step line is what the port drove last.                                  *)
LEMMA WriteControlInv ==
  ASSUME FloppyInv, NEW p, SettledPpi(p), WriteControlPpi(p)
  PROVE  FloppyInv'
<1> DEFINE sel == cable.selected
           outward == 1 \in p.outC
           stepped == Step(drives[sel], outward)
<1>1. /\ drives' = IF StepEnds(cable, p) THEN [drives EXCEPT ![sel] = stepped] ELSE drives
      /\ cable' = ControlCable(cable, p)
      /\ control' = RefreshFloppyInputs(drives', cable', p)
      /\ data' = data /\ lastTick' = lastTick /\ inserted' = inserted
  BY DEF WriteControlPpi, Stepped
<1>2. /\ drives \in [Drive -> DriveState] /\ inserted \in [Drive -> Image]
      /\ \A d \in Drive : Sound(drives[d], inserted[d])
      /\ cable \in Cable /\ sel \in Drive /\ lastTick \in Tick
  BY DEF FloppyInv, DrivesInv, CableInv, Cable
<1>3. /\ cable' \in Cable /\ cable'.selected = sel
      /\ cable'.step = (Driven(p) /\ 0 \in p.outC)
  BY <1>1, <1>2 DEF ControlCable, Cable
<1>4. /\ Sound(stepped, inserted[sel])
      /\ ~outward => stepped.head = IF drives[sel].head # 0 THEN drives[sel].head - 1 ELSE 0
  <2>1. Sound(drives[sel], inserted[sel])
    BY <1>2
  <2> HIDE DEF outward, sel
  <2> QED BY <2>1, StepSound DEF stepped
<1> HIDE DEF stepped
<1>5. /\ drives' \in [Drive -> DriveState]
      /\ \A d \in Drive : Sound(drives'[d], inserted[d])
      /\ drives'[sel] = IF StepEnds(cable, p) THEN stepped ELSE drives[sel]
  BY <1>1, <1>2, <1>4 DEF Sound
<1>6. DrivesInv'
  BY <1>1, <1>2, <1>5 DEF DrivesInv, Sound, DriveState, Tick, Image
<1>7. StepEnds(cable, p)
        <=> 0 \in control.outC /\ 0 \notin p.outC /\ Driven(control) /\ Driven(p)
  BY DEF FloppyInv, CableInv, StepEnds
<1>8. inward' = IF StepEnds(cable, p)
                THEN IF outward THEN 0 ELSE IF inward < LastTrack THEN inward + 1 ELSE inward
                ELSE inward
  BY <1>7 DEF WriteControlPpi
<1>9. /\ inward \in 0 .. LastTrack /\ drives[sel].head \in 0 .. LastTrack
      /\ drives[sel].head + inward <= LastTrack
      /\ drives'[sel].head \in 0 .. LastTrack
  BY <1>2, <1>5 DEF FloppyInv, RestoreInv, DriveState, TrackIndex
<1>10. inward' \in 0 .. LastTrack /\ drives'[sel].head + inward' <= LastTrack
  <2>1. CASE StepEnds(cable, p) /\ outward
    BY <1>8, <1>9, <2>1, TrackNumbers
  <2>2. CASE StepEnds(cable, p) /\ ~outward
    <3>1. drives'[sel].head = IF drives[sel].head # 0 THEN drives[sel].head - 1 ELSE 0
      BY <1>4, <1>5, <2>2
    <3>2. inward' = IF inward < LastTrack THEN inward + 1 ELSE inward
      BY <1>8, <2>2
    <3> QED BY <1>9, <3>1, <3>2, TrackNumbers
  <2>3. CASE ~StepEnds(cable, p)
    BY <1>5, <1>8, <1>9, <2>3
  <2> QED BY <2>1, <2>2, <2>3
<1>11. RestoreInv'
  BY <1>3, <1>10 DEF RestoreInv
<1> QED BY <1>1, <1>3, <1>6, <1>11, RefreshedInv DEF FloppyInv, CableInv

LEMMA FloppyStep == FloppyInv /\ [Next]_vars => FloppyInv'
<1> SUFFICES ASSUME FloppyInv, [Next]_vars PROVE FloppyInv'
  OBVIOUS
<1>0. SettledPpi(data) /\ SettledPpi(control)
  BY DEF FloppyInv, CableInv
<1>1. ASSUME NEW d \in Drive, Eject(d) PROVE FloppyInv'
  BY <1>1, EjectInv
<1>2. ASSUME NEW d \in Drive, NEW m \in Media[d], Insert(d, m[1], m[2]) PROVE FloppyInv'
  <2>1. m[1] \in Image /\ m[2] \in BOOLEAN /\ \A t \in TrackIndex : Spaced(DOMAIN m[1][t])
    BY FloppyAssumption
  <2> QED BY <1>2, <2>1, InsertInv
<1>3. ASSUME NEW w \in Widths, SetIndexPulseWidth(w) PROVE FloppyInv'
  BY <1>3, WidthInv
<1>4. CASE Reset
  BY <1>4, ResetInv
<1>5. ASSUME NEW n \in 1 .. ByteTicks, NEW writes \in BOOLEAN, NEW v \in Byte,
             AdvanceTime(n, writes, v)
      PROVE  FloppyInv'
  BY <1>5, AdvanceInv
<1>6. ASSUME NEW w \in DataWords, WriteDataPpi(WriteMode(data, w)) PROVE FloppyInv'
  <2>1. SettledPpi(WriteMode(data, w))
    BY <1>0, FloppyAssumption, CpuOperationsSettle
  <2> QED BY <1>6, <2>1, WriteDataInv
<1>7. ASSUME NEW set \in BOOLEAN, WriteDataPpi(BitSetReset(data, 5, set)) PROVE FloppyInv'
  <2>1. 5 \in Bit
    BY DEF Bit
  <2>2. SettledPpi(BitSetReset(data, 5, set))
    BY <1>0, <2>1, CpuOperationsSettle
  <2> QED BY <1>7, <2>2, WriteDataInv
<1>8. ASSUME NEW w \in ControlWords, WriteControlPpi(WriteMode(control, w)) PROVE FloppyInv'
  <2>1. SettledPpi(WriteMode(control, w))
    BY <1>0, FloppyAssumption, CpuOperationsSettle
  <2> QED BY <1>8, <2>1, WriteControlInv
<1>9. ASSUME NEW bits \in SUBSET {0, 1, 3}, WriteControlPpi(WriteC(control, bits)) PROVE FloppyInv'
  <2>1. bits \in SUBSET Bit
    BY DEF Bit
  <2>2. SettledPpi(WriteC(control, bits))
    BY <1>0, <2>1, CpuOperationsSettle
  <2> QED BY <1>9, <2>2, WriteControlInv
<1>10. CASE UNCHANGED vars
  BY <1>10 DEF vars, FloppyInv, DrivesInv, CableInv, RestoreInv, Sound, DriveState, Tick, Image,
     Cable, SettledPpi, Status, WriteProtected, IndexActive
<1> QED BY <1>1, <1>2, <1>3, <1>4, <1>5, <1>6, <1>7, <1>8, <1>9, <1>10 DEF Next

LEMMA FloppyStart == Init => FloppyInv
<1> SUFFICES ASSUME Init PROVE FloppyInv
  OBVIOUS
<1> DEFINE dr == [present |-> FALSE, image |-> NoImage, writable |-> FALSE,
                  phase |-> 0, head |-> 0]
<1>1. /\ dr \in DriveState /\ dr.head = 0 /\ dr.image = NoImage
  BY EmptyImage, Revolution, TrackNumbers DEF DriveState
<1>2. drives = [d \in Drive |-> dr] /\ inserted = [d \in Drive |-> NoImage] /\ lastTick = 0
  BY DEF Init
<1> HIDE DEF dr
<1>3. Sound(dr, NoImage)
  BY <1>1, EmptyImage DEF Sound
<1>4. DrivesInv
  BY <1>1, <1>2, <1>3, EmptyImage, Revolution DEF DrivesInv
<1>5. cable \in Cable /\ cable.selected = "B" /\ cable.step = FALSE
  BY Revolution DEF Init, Cable, Drive
<1>6. /\ control = RefreshFloppyInputs(drives, cable, ResetPpi)
      /\ data = [ResetPpi EXCEPT !.pinC = {5}] /\ inward = 0
  BY DEF Init
<1>7. /\ SettledPpi(control) /\ control.pinC = Status(drives, cable)
      /\ control.inCL = ResetPpi.inCL
  BY <1>6, ResetSettles, RefreshEffect
<1>8. ~Driven(control)
  BY <1>7, ResetData DEF Driven
<1>9. CableInv
  BY <1>5, <1>6, <1>7, <1>8, ResetData DEF CableInv
<1>10. RestoreInv
  <2>1. drives["B"].head = 0
    BY <1>1, <1>2 DEF Drive
  <2> QED BY <1>5, <1>6, <2>1, TrackNumbers DEF RestoreInv
<1> QED BY <1>4, <1>9, <1>10 DEF FloppyInv

LEMMA FloppyAlways == Spec => []FloppyInv
BY FloppyStart, FloppyStep, PTL DEF Spec

(* The cells of every track stay a byte time apart, the Index included,    *)
(* whatever is written wherever, for every length of a revolution and      *)
(* every medium (FloppyTrack::write_byte).                                 *)
THEOREM TracksAlwaysSpaced == Spec => []TracksSpaced
<1>1. FloppyInv => TracksSpaced
  BY FloppyInvShows
<1> QED BY <1>1, FloppyAlways, PTL

(* A medium inserted read-only comes out as it went in, through every      *)
(* sequence of inserts, ejects, writes and resets (FloppyDrive::write_     *)
(* byte).                                                                  *)
THEOREM ProtectedAlwaysUnchanged == Spec => []ProtectedIsUnchanged
<1>1. FloppyInv => ProtectedIsUnchanged
  BY FloppyInvShows
<1> QED BY <1>1, FloppyAlways, PTL

(* The 8255s show the selected drive as it is, and as many pulses towards  *)
(* track 0 as there are tracks end there, for every number of tracks       *)
(* (Machine::refresh_floppy_inputs, FloppySubsystem::set_control_port_c).  *)
THEOREM StatusAlwaysCurrent == Spec => []StatusIsCurrent
<1>1. FloppyInv => StatusIsCurrent
  BY FloppyInvShows
<1> QED BY <1>1, FloppyAlways, PTL

----------------------------------------------------------------------------
(* The cells that pass. *)

LEMMA ForwardIs ==
  ASSUME NEW p \in Tick, NEW q \in Tick
  PROVE  Forward(p, q) = IF p <= q THEN q - p ELSE q + RevolutionTicks - p
<1>1. RevolutionTicks \in Nat \ {0} /\ p \in Nat /\ q \in Nat
        /\ p < RevolutionTicks /\ q < RevolutionTicks
  BY Revolution DEF Tick
<1>2. CASE p <= q
  <2>1. q + RevolutionTicks - p = (q - p) + RevolutionTicks /\ q - p \in 0 .. RevolutionTicks - 1
    BY <1>1, <1>2
  <2>2. ((q - p) + RevolutionTicks) % RevolutionTicks = q - p
    BY <1>1, <2>1
  <2> QED BY <1>2, <2>1, <2>2 DEF Forward
<1>3. CASE ~(p <= q)
  <2>1. q + RevolutionTicks - p \in 0 .. RevolutionTicks - 1
    BY <1>1, <1>3
  <2>2. (q + RevolutionTicks - p) % RevolutionTicks = q + RevolutionTicks - p
    BY <1>1, <2>1
  <2> QED BY <1>3, <2>2 DEF Forward
<1> QED BY <1>2, <1>3

(* Where a disk is n ticks, at most a revolution, after a position.        *)
LEMMA TurnedTo ==
  ASSUME NEW p \in Tick, NEW n \in 1 .. RevolutionTicks
  PROVE  (p + n) % RevolutionTicks
           = IF p + n < RevolutionTicks THEN p + n ELSE p + n - RevolutionTicks
<1>1. RevolutionTicks \in Nat \ {0} /\ p \in Nat /\ n \in Nat /\ p < RevolutionTicks
        /\ n <= RevolutionTicks
  BY Revolution DEF Tick
<1>2. CASE p + n < RevolutionTicks
  BY <1>1, <1>2
<1>3. CASE ~(p + n < RevolutionTicks)
  <2>1. p + n = (p + n - RevolutionTicks) + RevolutionTicks
          /\ p + n - RevolutionTicks \in 0 .. RevolutionTicks - 1
    BY <1>1, <1>3
  <2>2. ((p + n - RevolutionTicks) + RevolutionTicks) % RevolutionTicks = p + n - RevolutionTicks
    BY <1>1, <2>1
  <2> QED BY <1>3, <2>1, <2>2
<1> QED BY <1>2, <1>3

(* No cell lies between the one that passed last and the head.             *)
Unpassed(cells, from, phase) == \A p \in cells : Ahead(from, phase) <= Ahead(from, p)

(* Within n ticks, at most a byte time, one cell passes at most, and it is *)
(* then the last.                                                          *)
LEMMA OnePasses ==
  ASSUME NEW cells \in SUBSET Tick, Spaced(cells), NEW phase \in Tick,
         NEW n \in 1 .. ByteTicks, NEW t \in cells, Forward(phase, t) < n
  PROVE  /\ \A p \in cells : Forward(phase, p) < n => p = t
         /\ Unpassed(cells, t, (phase + n) % RevolutionTicks)
<1> DEFINE next == (phase + n) % RevolutionTicks
<1>1. /\ RevolutionTicks \in Nat \ {0} /\ ByteTicks \in Nat \ {0} /\ ByteTicks <= RevolutionTicks
      /\ n \in 1 .. RevolutionTicks
  BY Revolution, FloppyAssumption
<1>2. next = IF phase + n < RevolutionTicks THEN phase + n ELSE phase + n - RevolutionTicks
  BY <1>1, TurnedTo
<1>3. next \in Tick
  BY <1>1, Revolution
<1> HIDE DEF next
<1>4. t \in Tick /\ phase \in Nat /\ phase < RevolutionTicks /\ t \in Nat /\ t < RevolutionTicks
        /\ n \in Nat /\ n <= ByteTicks /\ next \in Nat /\ next < RevolutionTicks
  BY <1>1, <1>3 DEF Tick
<1>5. Forward(phase, t) = IF phase <= t THEN t - phase ELSE t + RevolutionTicks - phase
  BY <1>4, ForwardIs
<1>6. ASSUME NEW p \in cells, Forward(phase, p) < n PROVE p = t
  <2>1. p \in Tick /\ p \in Nat /\ p < RevolutionTicks
    BY <1>1 DEF Tick
  <2>2. /\ Forward(phase, p) = IF phase <= p THEN p - phase ELSE p + RevolutionTicks - phase
        /\ Forward(p, t) = IF p <= t THEN t - p ELSE t + RevolutionTicks - p
        /\ Forward(t, p) = IF t <= p THEN p - t ELSE p + RevolutionTicks - t
    BY <1>4, <2>1, ForwardIs
  <2>3. p = t \/ (Forward(p, t) >= ByteTicks /\ Forward(t, p) >= ByteTicks)
    BY DEF Spaced
  <2> QED BY <1>1, <1>4, <1>5, <1>6, <2>1, <2>2, <2>3
<1>7. ASSUME NEW p \in cells PROVE Ahead(t, next) <= Ahead(t, p)
  <2>1. p \in Tick /\ p \in Nat /\ p < RevolutionTicks
    BY <1>1 DEF Tick
  <2>2. /\ Forward(phase, p) = IF phase <= p THEN p - phase ELSE p + RevolutionTicks - phase
        /\ Forward(t, p) = IF t <= p THEN p - t ELSE p + RevolutionTicks - t
        /\ Forward(t, next) = IF t <= next THEN next - t ELSE next + RevolutionTicks - t
    BY <1>3, <1>4, <2>1, ForwardIs
  <2>3. p = t \/ Forward(phase, p) >= n
    <3>1. Forward(phase, p) \in Nat
      BY <2>1, Revolution DEF Tick
    <3> QED BY <1>4, <1>6, <3>1
  <2> QED BY <1>1, <1>2, <1>4, <1>5, <2>1, <2>2, <2>3 DEF Ahead
<1> QED BY <1>6, <1>7 DEF Unpassed, next

(* From one cell to the head, and on to the next cell or to where the head *)
(* is n ticks later.                                                       *)
LEMMA PassesNext ==
  ASSUME NEW cells \in SUBSET Tick, NEW from \in cells, NEW phase \in Tick,
         Unpassed(cells, from, phase), NEW n \in 1 .. RevolutionTicks
  PROVE  /\ (\A p \in cells : Forward(phase, p) >= n)
              => Unpassed(cells, from, (phase + n) % RevolutionTicks)
         /\ \A t \in cells : (\A p \in cells : Forward(phase, t) <= Forward(phase, p))
              => \A p \in cells : Ahead(from, t) <= Ahead(from, p)
<1> DEFINE next == (phase + n) % RevolutionTicks
<1>1. RevolutionTicks \in Nat \ {0} /\ n \in Nat
  BY Revolution
<1>2. next = IF phase + n < RevolutionTicks THEN phase + n ELSE phase + n - RevolutionTicks
  BY TurnedTo
<1>3. next \in Tick
  BY <1>1, Revolution
<1> HIDE DEF next
<1>4. from \in Tick /\ phase \in Nat /\ phase < RevolutionTicks /\ from \in Nat
        /\ from < RevolutionTicks /\ next \in Nat /\ next < RevolutionTicks
  BY <1>1, <1>3 DEF Tick
<1>5. ASSUME NEW p \in cells
      PROVE  Ahead(from, p) = Ahead(from, phase) + Forward(phase, p)
  <2>1. p \in Tick /\ p \in Nat /\ p < RevolutionTicks
    BY <1>1 DEF Tick
  <2>2. /\ Forward(phase, p) = IF phase <= p THEN p - phase ELSE p + RevolutionTicks - phase
        /\ Forward(from, p) = IF from <= p THEN p - from ELSE p + RevolutionTicks - from
        /\ Forward(from, phase)
             = IF from <= phase THEN phase - from ELSE phase + RevolutionTicks - from
    BY <1>4, <2>1, ForwardIs
  <2>3. Ahead(from, phase) <= Ahead(from, p)
    BY DEF Unpassed
  <2> QED BY <1>1, <1>4, <2>1, <2>2, <2>3 DEF Ahead
<1>6. /\ Ahead(from, phase) \in 1 .. RevolutionTicks
      /\ \A p \in cells : Forward(phase, p) \in Nat
  <2>1. Forward(from, phase)
          = IF from <= phase THEN phase - from ELSE phase + RevolutionTicks - from
    BY <1>4, ForwardIs
  <2>2. \A p \in cells : Forward(phase, p) \in Nat
    BY Revolution DEF Tick
  <2> QED BY <1>1, <1>4, <2>1, <2>2 DEF Ahead
<1>7. ASSUME \A p \in cells : Forward(phase, p) >= n
      PROVE  Unpassed(cells, from, next)
  <2>1. Ahead(from, from) = RevolutionTicks
    BY DEF Ahead
  <2>2. Ahead(from, phase) + Forward(phase, from) = RevolutionTicks /\ Forward(phase, from) >= n
    BY <1>5, <1>7, <2>1
  <2>3. Ahead(from, phase) + n <= RevolutionTicks
    BY <1>1, <1>6, <2>2
  <2>4. Ahead(from, next) = Ahead(from, phase) + n
    <3>1. /\ Forward(from, next) = IF from <= next THEN next - from
                                   ELSE next + RevolutionTicks - from
          /\ Forward(from, phase)
               = IF from <= phase THEN phase - from ELSE phase + RevolutionTicks - from
      BY <1>3, <1>4, ForwardIs
    <3> QED BY <1>1, <1>2, <1>4, <2>3, <3>1 DEF Ahead
  <2>5. ASSUME NEW p \in cells PROVE Ahead(from, next) <= Ahead(from, p)
    <3>1. Forward(phase, p) >= n /\ Forward(phase, p) \in Nat
      BY <1>6, <1>7
    <3> QED BY <1>1, <1>5, <1>6, <2>4, <3>1
  <2> QED BY <2>5 DEF Unpassed
<1>8. ASSUME NEW t \in cells, \A p \in cells : Forward(phase, t) <= Forward(phase, p),
             NEW p \in cells
      PROVE  Ahead(from, t) <= Ahead(from, p)
  BY <1>5, <1>6, <1>8
<1> QED BY <1>7, <1>8 DEF next

(* What the history says of the selected drive: a byte has passed, it is   *)
(* still on the track, and no other has passed since.                      *)
TurnInv ==
  fresh => LET now == drives[cable.selected]
           IN /\ now.present
              /\ lastTick \in DOMAIN UnderHead(now)
              /\ Unpassed(DOMAIN UnderHead(now), lastTick, now.phase)

(* An operation that leaves the selected drive as it was.                  *)
LEMMA SameTurn ==
  ASSUME TurnInv,
         fresh' => fresh /\ lastTick' = lastTick
                     /\ drives'[cable'.selected] = drives[cable.selected]
  PROVE  TurnInv'
BY DEF TurnInv

(* A cell that is written where it is leaves the others where they are.    *)
LEMMA WrittenInPlace ==
  ASSUME NEW dr \in DriveState, NEW tick \in DOMAIN UnderHead(dr), NEW v \in Byte
  PROVE  LET w == WriteByte(dr, tick, v)
         IN /\ w.present = dr.present /\ w.phase = dr.phase
            /\ DOMAIN UnderHead(w) = DOMAIN UnderHead(dr)
<1> DEFINE w == WriteByte(dr, tick, v)
           written == [dr.image[dr.head] EXCEPT ![tick] = v]
           other == [dr.image EXCEPT ![dr.head] = written]
<1>1. dr.head \in TrackIndex /\ dr.image \in Image /\ dr.image[dr.head] \in Track
  BY DEF DriveState, Image
<1>2. CASE WriteProtected(dr)
  BY <1>2 DEF WriteByte
<1>3. CASE ~WriteProtected(dr)
  <2>1. TrackWrite(dr.image[dr.head], tick, v) = written
    BY DEF TrackWrite, UnderHead
  <2>2. w = [dr EXCEPT !.image = other]
    BY <1>1, <1>3, <2>1 DEF WriteByte, DriveState
  <2>3. DOMAIN written = DOMAIN dr.image[dr.head]
    BY <1>1, TrackCells
  <2> HIDE DEF written
  <2>4. other[dr.head] = written
    BY <1>1 DEF Image
  <2> HIDE DEF other, w
  <2>5. w.image = other /\ w.head = dr.head /\ w.present = dr.present /\ w.phase = dr.phase
    BY <2>2 DEF DriveState
  <2> QED BY <2>3, <2>4, <2>5 DEF UnderHead, w
<1> QED BY <1>2, <1>3

(* What advance_time makes of the last byte and of the selected drive.     *)
LEMMA AdvancePasses ==
  ASSUME FloppyInv, NEW n \in 1 .. ByteTicks, NEW writes \in BOOLEAN, NEW v \in Byte,
         AdvanceTime(n, writes, v)
  PROVE  LET now == drives[cable.selected]
             passing == Passing(now, n)
         IN /\ now \in DriveState /\ cable' = cable
            /\ DOMAIN UnderHead(now) \in SUBSET Tick /\ Spaced(DOMAIN UnderHead(now))
            /\ passing # {} => lastTick' \in passing
            /\ passing = {} => lastTick' = lastTick
            /\ fresh' => passing # {} \/ (fresh /\ lastTick \in DOMAIN UnderHead(now))
            /\ lastTick' \in DOMAIN UnderHead(now) =>
                 LET then == drives'[cable.selected]
                 IN /\ then.present = now.present
                    /\ now.present => then.phase = (now.phase + n) % RevolutionTicks
                    /\ DOMAIN UnderHead(then) = DOMAIN UnderHead(now)
<1> DEFINE sel == cable.selected
           now == drives[sel]
           passing == Passing(now, n)
           turned == [d \in Drive |-> Rotate(drives[d], n)]
<1>1. /\ drives \in [Drive -> DriveState] /\ sel \in Drive
      /\ Sound(now, inserted[sel])
  BY DEF FloppyInv, DrivesInv, CableInv, Cable
<1>2. /\ now \in DriveState /\ now.phase \in Tick /\ now.head \in TrackIndex
      /\ UnderHead(now) \in Track /\ Spaced(DOMAIN UnderHead(now))
  BY <1>1 DEF Sound, DriveState, UnderHead, Image
<1>3. DOMAIN UnderHead(now) \in SUBSET Tick
  BY <1>2, TrackCells
<1>4. ASSUME passing # {} PROVE lastTick' \in passing
  <2>1. passing \in SUBSET Tick
    BY <1>3 DEF Passing
  <2>2. \E p \in passing : \A q \in passing : Forward(now.phase, q) <= Forward(now.phase, p)
    BY <1>2, <1>4, <2>1, Nearest, ZenonT(60)
  <2>3. lastTick' = CHOOSE p \in passing : \A q \in passing :
                      Forward(now.phase, q) <= Forward(now.phase, p)
    BY <1>4 DEF AdvanceTime
  <2> QED BY <2>2, <2>3, Zenon
<1>5. passing = {} => lastTick' = lastTick
  BY DEF AdvanceTime
<1>6. cable' = cable /\ (fresh' => passing # {} \/ (fresh /\ lastTick \in DOMAIN UnderHead(now)))
  BY DEF AdvanceTime
<1>7. n \in Nat
  BY Revolution
<1>8. /\ turned[sel] = Rotate(now, n) /\ turned \in [Drive -> DriveState]
  <2>1. \A d \in Drive : Rotate(drives[d], n) \in DriveState
    BY <1>7, RotateSound DEF FloppyInv, DrivesInv, Sound
  <2> QED BY <1>1, <2>1
<1>9. /\ turned[sel].present = now.present
      /\ now.present => turned[sel].phase = (now.phase + n) % RevolutionTicks
      /\ UnderHead(turned[sel]) = UnderHead(now)
  <2>1. /\ Rotate(now, n).present = now.present /\ Rotate(now, n).head = now.head
        /\ Rotate(now, n).image = now.image
        /\ now.present => Rotate(now, n).phase = (now.phase + n) % RevolutionTicks
    BY <1>2 DEF Rotate, DriveState
  <2> HIDE DEF now, turned
  <2> QED BY <1>8, <2>1 DEF UnderHead
<1>10. drives' = IF writes /\ cable.loaded
                 THEN [turned EXCEPT ![sel] = WriteByte(@, lastTick', v)] ELSE turned
  BY DEF AdvanceTime
<1> HIDE DEF turned
<1>11. ASSUME lastTick' \in DOMAIN UnderHead(now)
       PROVE  /\ drives'[sel].present = turned[sel].present
              /\ drives'[sel].phase = turned[sel].phase
              /\ DOMAIN UnderHead(drives'[sel]) = DOMAIN UnderHead(turned[sel])
  <2>1. CASE writes /\ cable.loaded
    <3>1. drives'[sel] = WriteByte(turned[sel], lastTick', v)
      BY <1>1, <1>8, <1>10, <2>1
    <3>2. lastTick' \in DOMAIN UnderHead(turned[sel]) /\ turned[sel] \in DriveState
      BY <1>1, <1>8, <1>9, <1>11
    <3> QED BY <3>1, <3>2, WrittenInPlace
  <2>2. CASE ~(writes /\ cable.loaded)
    BY <1>10, <2>2
  <2> QED BY <2>1, <2>2
<1> QED BY <1>2, <1>3, <1>4, <1>5, <1>6, <1>9, <1>11

LEMMA AdvanceTurn ==
  ASSUME FloppyInv, TurnInv, NEW n \in 1 .. ByteTicks, NEW writes \in BOOLEAN, NEW v \in Byte,
         AdvanceTime(n, writes, v)
  PROVE  /\ TurnInv'
         /\ LET now == drives[cable.selected]
            IN fresh /\ Passing(now, n) # {} =>
                 \A p \in DOMAIN UnderHead(now) : Ahead(lastTick, lastTick') <= Ahead(lastTick, p)
<1> DEFINE now == drives[cable.selected]
           then == drives'[cable.selected]
           cells == DOMAIN UnderHead(now)
           passing == Passing(now, n)
           next == (now.phase + n) % RevolutionTicks
<1>1. /\ now \in DriveState /\ cable' = cable /\ cells \in SUBSET Tick /\ Spaced(cells)
      /\ passing # {} => lastTick' \in passing
      /\ passing = {} => lastTick' = lastTick
      /\ fresh' => passing # {} \/ (fresh /\ lastTick \in cells)
      /\ lastTick' \in cells => /\ then.present = now.present
                                /\ now.present => then.phase = next
                                /\ DOMAIN UnderHead(then) = cells
  BY AdvancePasses
<1>2. now.phase \in Tick /\ n \in 1 .. RevolutionTicks
  BY <1>1, Revolution, FloppyAssumption DEF DriveState
<1>3. \A p \in cells : Forward(now.phase, p) \in Nat
  <2>1. \A p \in cells : Forward(now.phase, p) \in Tick
    BY <1>1, <1>2, Revolution
  <2> QED BY <2>1, Revolution DEF Tick
<1>4. passing = {p \in cells : now.present /\ Forward(now.phase, p) < n}
  BY DEF Passing
<1> HIDE DEF passing, cells, next, now, then
<1>5. CASE passing # {}
  <2>1. lastTick' \in cells /\ now.present /\ Forward(now.phase, lastTick') < n
    BY <1>1, <1>4, <1>5
  <2>2. /\ \A p \in cells : Forward(now.phase, p) < n => p = lastTick'
        /\ Unpassed(cells, lastTick', next)
    BY <1>1, <1>2, <2>1, OnePasses DEF next
  <2>3. TurnInv'
    BY <1>1, <2>1, <2>2 DEF TurnInv, then
  <2>4. ASSUME fresh
        PROVE  \A p \in cells : Ahead(lastTick, lastTick') <= Ahead(lastTick, p)
    <3>1. lastTick \in cells /\ Unpassed(cells, lastTick, now.phase)
      BY <2>4 DEF TurnInv, cells, now
    <3>2. \A p \in cells : Forward(now.phase, lastTick') <= Forward(now.phase, p)
      BY <1>2, <1>3, <2>1, <2>2
    <3> QED BY <1>1, <1>2, <2>1, <3>1, <3>2, PassesNext
  <2> QED BY <2>3, <2>4 DEF cells, now
<1>6. CASE passing = {}
  <2>1. ASSUME fresh' PROVE TurnInv'
    <3>1. lastTick' = lastTick /\ lastTick \in cells /\ now.present
            /\ Unpassed(cells, lastTick, now.phase)
      BY <1>1, <1>6, <2>1 DEF TurnInv, cells, now
    <3>2. \A p \in cells : Forward(now.phase, p) >= n
      BY <1>2, <1>3, <1>4, <1>6, <3>1
    <3>3. Unpassed(cells, lastTick, next)
      BY <1>1, <1>2, <3>1, <3>2, PassesNext DEF next
    <3> QED BY <1>1, <3>1, <3>3 DEF TurnInv, then
  <2>2. TurnInv'
    BY <2>1 DEF TurnInv
  <2> QED BY <1>6, <2>2 DEF passing, now
<1> QED BY <1>5, <1>6

LEMMA TurnStep == FloppyInv /\ TurnInv /\ [Next]_vars => TurnInv'
<1> SUFFICES ASSUME FloppyInv, TurnInv, [Next]_vars PROVE TurnInv'
  OBVIOUS
<1>0. drives \in [Drive -> DriveState] /\ cable \in Cable /\ cable.selected \in Drive
  BY DEF FloppyInv, DrivesInv, CableInv, Cable
<1>1. ASSUME NEW d \in Drive, Eject(d) PROVE TurnInv'
  <2>1. /\ cable' = cable /\ lastTick' = lastTick /\ fresh' = (fresh /\ d # cable.selected)
        /\ d # cable.selected => drives'[cable.selected] = drives[cable.selected]
    BY <1>0, <1>1 DEF Eject
  <2> QED BY <2>1, SameTurn
<1>2. ASSUME NEW d \in Drive, NEW m \in Media[d], Insert(d, m[1], m[2]) PROVE TurnInv'
  <2>1. /\ cable' = cable /\ lastTick' = lastTick /\ fresh' = (fresh /\ d # cable.selected)
        /\ d # cable.selected => drives'[cable.selected] = drives[cable.selected]
    BY <1>0, <1>2 DEF Insert
  <2> QED BY <2>1, SameTurn
<1>3. ASSUME NEW w \in Widths, SetIndexPulseWidth(w) PROVE TurnInv'
  <2>1. /\ cable'.selected = cable.selected /\ lastTick' = lastTick /\ fresh' = fresh
        /\ drives' = drives
    BY <1>0, <1>3 DEF SetIndexPulseWidth, Cable
  <2> QED BY <2>1, SameTurn
<1>4. CASE Reset
  BY <1>4 DEF Reset, TurnInv
<1>5. ASSUME NEW n \in 1 .. ByteTicks, NEW writes \in BOOLEAN, NEW v \in Byte,
             AdvanceTime(n, writes, v)
      PROVE  TurnInv'
  BY <1>5, AdvanceTurn
<1>6. ASSUME NEW p, WriteDataPpi(p) PROVE TurnInv'
  <2>1. /\ drives' = drives /\ lastTick' = lastTick
        /\ fresh' = (fresh /\ cable'.selected = cable.selected)
    BY <1>6 DEF WriteDataPpi
  <2> QED BY <2>1, SameTurn
<1>7. ASSUME NEW p, WriteControlPpi(p) PROVE TurnInv'
  <2>1. /\ cable'.selected = cable.selected /\ lastTick' = lastTick
        /\ fresh' = (fresh /\ ~StepEnds(cable, p))
        /\ ~StepEnds(cable, p) => drives' = drives
    BY <1>0, <1>7 DEF WriteControlPpi, ControlCable, Stepped, Cable
  <2> QED BY <2>1, SameTurn
<1>8. CASE UNCHANGED vars
  BY <1>8, SameTurn DEF vars
<1> QED BY <1>1, <1>2, <1>3, <1>4, <1>5, <1>6, <1>7, <1>8 DEF Next

(* The cells of a track pass one after the other, none skipped and none    *)
(* twice, for every length of a revolution and every cut of the time into  *)
(* calls of at most a byte (Machine::advance_time, FloppyDrive::visit_     *)
(* bytes).                                                                 *)
THEOREM CellsAlwaysPassInTurn == Spec => CellsPassInTurn
<1> DEFINE InTurn ==
      \A n \in 1 .. ByteTicks, writes \in BOOLEAN, v \in Byte :
        LET now == drives[cable.selected] IN
        AdvanceTime(n, writes, v) /\ fresh /\ Passing(now, n) # {} =>
          \A p \in DOMAIN UnderHead(now) : Ahead(lastTick, lastTick') <= Ahead(lastTick, p)
<1>1. Init => TurnInv
  BY DEF Init, TurnInv
<1>2. FloppyInv /\ TurnInv /\ [Next]_vars => TurnInv'
  BY TurnStep
<1>3. FloppyInv /\ TurnInv => InTurn
  BY AdvanceTurn
<1> QED BY <1>1, <1>2, <1>3, FloppyStart, FloppyStep, PTL DEF Spec, CellsPassInTurn
=============================================================================
