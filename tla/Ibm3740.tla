------------------------------ MODULE Ibm3740 ------------------------------
(***************************************************************************)
(* The conversion between a sector image and the bytes of a track: class   *)
(* Ibm3740SectorImage (src/src/core/disk_image_8sd.cpp), for one track.    *)
(* A byte of the track is its data, and 256 more when its clocks are those *)
(* of a mark.  The CRC is a constant: nothing here looks at it.            *)
(***************************************************************************)
EXTENDS Integers, Sequences

CONSTANTS
  Sectors,    \* sectors_per_track
  DataBytes,  \* bytes_per_sector
  Skew,       \* default_sector_skew
  Gap         \* the lengths of the gaps

ASSUME ImageAssumption ==
  /\ {Sectors, DataBytes, Skew} \subseteq Nat \ {0}
  /\ Gap \in [{"before", "zeros", "after", "id", "data", "track"} -> Nat \ {0}]

Sector == 1 .. Sectors
ImageSize == Sectors * DataBytes
NoImage == <<>>

Mark(data) == 256 + data
IndexMark == Mark(252)
IdMark == Mark(254)
DataMarks == {Mark(251), Mark(248)}
Crc == <<85, 85>>

Repeat(count, byte) == [i \in 1 .. count |-> byte]
SectorData(image, s) == SubSeq(image, (s - 1) * DataBytes + 1, s * DataBytes)

(* sector_map: the place of each sector behind the Index. *)
MapIndex[s \in Sector] ==
  IF s = 1 THEN 0
  ELSE LET next == MapIndex[s - 1] + Skew
       IN IF next >= Sectors THEN next - (Sectors - 1) ELSE next

(* The skew leaves no place twice; import fails otherwise. *)
ASSUME SkewAssumption ==
  \A s \in Sector : /\ MapIndex[s] < Sectors
                    /\ \A t \in Sector : MapIndex[s] = MapIndex[t] => s = t

SectorAt(place) == CHOOSE s \in Sector : MapIndex[s] = place

DataField(data) == Repeat(Gap.zeros, 0) \o <<Mark(251)>> \o data \o Crc
SectorField(number, s, data) ==
  Repeat(Gap.zeros, 0) \o <<IdMark, number, 0, s, 0>> \o Crc
    \o Repeat(Gap.id, 255) \o DataField(data) \o Repeat(Gap.data, 255)

Import(number, image) ==
  LET upTo[places \in 0 .. Sectors] ==
        IF places = 0
        THEN Repeat(Gap.before, 255) \o Repeat(Gap.zeros, 0)
               \o <<IndexMark>> \o Repeat(Gap.after, 255)
        ELSE LET s == SectorAt(places - 1)
             IN upTo[places - 1] \o SectorField(number, s, SectorData(image, s))
  IN upTo[Sectors] \o Repeat(Gap.track, 255)

(* Faulty variants, used only by the mutation runs. *)
FieldAfterMark(track, i) == [k \in 1 .. DataBytes |-> track[i + k - 1] % 256]

(* The bytes after a data mark; the sector an ID field names, or 0 when it *)
(* names none of this track.                                               *)
Field(track, i) == [k \in 1 .. DataBytes |-> track[i + k] % 256]
Addressed(number, track, i) ==
  LET id == [k \in 1 .. 4 |-> track[i + k] % 256]
  IN IF id[1] = number /\ id[2] = 0 /\ id[3] \in Sector /\ id[4] = 0 THEN id[3] ELSE 0

(* The sectors found from place i on, with the ID field of one of them (or *)
(* 0) passed; of two fields for a sector the later one counts, and one     *)
(* that would go on across the Index none.                                 *)
Found(number, track) ==
  LET n == Len(track)
      scan[i \in Nat] == [pending \in 0 .. Sectors |->
        CASE i > n -> [s \in Sector |-> <<>>]
          [] i <= n /\ track[i] = IdMark ->
               IF i + 6 > n THEN scan[i + 1][0]
               ELSE scan[i + 7][Addressed(number, track, i)]
          [] i <= n /\ track[i] \in DataMarks /\ pending # 0 ->
               IF i + DataBytes + 2 > n THEN scan[i + 1][0]
               ELSE [scan[i + DataBytes + 3][0] EXCEPT
                       ![pending] = IF @ = <<>> THEN Field(track, i) ELSE @]
          [] OTHER -> scan[i + 1][pending]]
  IN scan[1][0]

(* export_image; it needs every sector. *)
Export(number, track) ==
  LET found == Found(number, track)
  IN IF \E s \in Sector : found[s] = <<>> THEN NoImage
     ELSE [k \in 1 .. ImageSize |->
             found[(k - 1) \div DataBytes + 1][((k - 1) % DataBytes) + 1]]
=============================================================================
