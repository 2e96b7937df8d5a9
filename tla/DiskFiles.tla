------------------------------ MODULE DiskFiles ------------------------------
(***************************************************************************)
(* The disk images on the host: src/src/frontend/disk_files.cpp, the disk  *)
(* menus and the file dialog of src/src/frontend/ui.cpp, and the mounting  *)
(* at start and the saving at exit of src/src/frontend/main.cpp.  The file *)
(* dialog answers from another thread; files fail to open, to be read and  *)
(* to be written as they like, and other programs of the host damage them. *)
(* A disk is the bytes of one track, a file an image of its sectors.       *)
(***************************************************************************)
EXTENDS Ibm3740, FiniteSetsExt

CONSTANTS
  Path,          \* files of the host
  NoPath,
  Protected,     \* protected_disk_paths: the ROM and the printer's file
  InitialFiles,  \* what the files hold before the first start
  CommandLines,  \* bound: what --disk-a and --disk-b ask for, per drive
  MaxWrites,     \* bound: sectors the program writes; each gets new data
  Written,       \* bound: the sectors it writes
  Lateness,      \* bound: by how many bytes it writes a field too late
  Formats        \* bound: how late it begins to format, and how far it gets

Number == 0             \* the track
Value == 1 .. MaxWrites
Unknown == 0
Blank == Repeat(ImageSize, 229)
Absent == <<-1>>
Damaged == NoImage     \* not of the size of an image
Exists(file) == file # Absent

ASSUME FilesAssumption ==
  /\ NoPath \notin Path /\ Protected \subseteq Path
  /\ MaxWrites \in Nat /\ Lateness \subseteq Nat /\ Written \subseteq Sector
  /\ InitialFiles \in [Path -> Seq(Int)]
  /\ \A p \in Protected : Exists(InitialFiles[p]) \* main has read or opened them
  /\ Formats \subseteq [late : Nat, length : Nat]

Drive == {"A", "B"}
Other(d) == IF d = "A" THEN "B" ELSE "A"
Accesses == {"ro", "rw"}
Mount == [path : Path \cup {NoPath}, access : Accesses]
NoMount == [path |-> NoPath, access |-> "ro"]
NoDisk == <<>>
Request == {r \in [drive : Drive, access : Accesses, blank : BOOLEAN] :
              r.blank => r.access = "rw"}

ASSUME CommandLineAssumption == CommandLines \subseteq [Drive -> Mount]

VARIABLES
  stage,    \* "exited" or "running"
  host,     \* the files, the media in the drives and mounted_disks
  dialog,   \* the request of the native dialog that is open, in a sequence
  results,  \* file_dialog_results
  ui,       \* native_file_dialog_open, disk_dialog_was_running and paused
  last,     \* history: how many sectors the program has written
  newest,   \* history: what it wrote last to each sector of a disk of each file
  asked     \* history: the user has asked for the pause

fvars == <<stage, host, dialog, results, ui, last, newest, asked>>

Host == [files : [Path -> Seq(Int)], media : [Drive -> Seq(Int)],
         mounted : [Drive -> Mount]]
Ui == [open : BOOLEAN, wasRunning : BOOLEAN, paused : BOOLEAN]
NoUi == [open |-> FALSE, wasRunning |-> FALSE, paused |-> FALSE]

Readable(h, p) == p # NoPath /\ Exists(h.files[p]) /\ Len(h.files[p]) = ImageSize
SameExistingFile(h, p, q) == p = q /\ p # NoPath /\ Exists(h.files[p])
Opened(h, d, p, access, image) ==
  [h EXCEPT !.media[d] = Import(Number, image),
            !.mounted[d] = [path |-> p, access |-> access]]

(* Operations return the outcomes they can have: ok, and the host then.    *)
Succeeds(h) == [ok |-> TRUE, host |-> h]
Fails(h) == [ok |-> FALSE, host |-> h]

(* Faulty variants, used only by the mutation runs. *)
RestoredNot(h, d) == [h EXCEPT !.media[d] = NoDisk]

Closed(h, d) == [h EXCEPT !.media[d] = NoDisk, !.mounted[d].path = NoPath]

----------------------------------------------------------------------------
(* eject_8sd: a writable disk is converted and written over its file, in   *)
(* place; a disk that cannot be saved goes back into the drive.            *)
Restored(h, d) == h

(* What a write that fails half way leaves of the file.                    *)
Torn(old, new) == LET half == ImageSize \div 2
                  IN SubSeq(new, 1, half) \o SubSeq(old, half + 1, Len(old))

Save(h, d) ==
  LET p == h.mounted[d].path
      image == Export(Number, h.media[d])
  IN IF image = NoImage \/ ~Exists(h.files[p]) THEN {Fails(Restored(h, d))}
     ELSE {Succeeds(Closed([h EXCEPT !.files[p] = image], d)),
           Fails(Restored([h EXCEPT !.files[p] = Torn(@, image)], d)),
           Fails(Restored(h, d))}

Eject(h, d) ==
  IF h.media[d] # NoDisk /\ h.mounted[d].path # NoPath /\ h.mounted[d].access = "rw"
  THEN Save(h, d)
  ELSE {Succeeds(Closed(h, d))}

(* replace_8sd: the new image is read before the old disk is ejected,      *)
(* unless both are the same file.                                          *)
ReplaceOther(h, d, p, access) ==
  IF ~Readable(h, p) THEN {Fails(h)}
  ELSE {Fails(h)} \cup
       {IF e.ok THEN Succeeds(Opened(e.host, d, p, access, h.files[p])) ELSE e :
          e \in IF h.mounted[d].path = NoPath THEN {Succeeds(h)} ELSE Eject(h, d)}

Reopen(h, d, p, access) ==
  UNION {IF ~e.ok THEN {e}
         ELSE {Fails(e.host)} \cup
              (IF Readable(e.host, p)
               THEN {Succeeds(Opened(e.host, d, p, access, e.host.files[p]))} ELSE {}) :
           e \in Eject(h, d)}

Replace(h, d, p, access) ==
  IF SameExistingFile(h, h.mounted[d].path, p)
  THEN Reopen(h, d, p, access) ELSE ReplaceOther(h, d, p, access)

CreateBlankOver(h, p) == {Succeeds([h EXCEPT !.files[p] = Blank]), Fails(h)}

CreateBlank(h, p) ==
  IF Exists(h.files[p]) THEN {Fails(h)}
  ELSE {Succeeds([h EXCEPT !.files[p] = Blank]), Fails(h)}

----------------------------------------------------------------------------
(* The dialog. *)

ShowDiskDialog(request) ==
  /\ stage = "running" /\ ~ui.open
  /\ ui' = [open |-> TRUE, wasRunning |-> ~ui.paused, paused |-> TRUE]
  /\ dialog' = <<request>>
  /\ UNCHANGED <<stage, host, results, last, newest, asked>>

(* file_dialog_callback: a path, or none if it is cancelled or fails. *)
FileDialogCallback(path) ==
  /\ dialog # <<>> /\ dialog' = <<>>
  /\ results' = Append(results, [request |-> dialog[1], path |-> path])
  /\ UNCHANGED <<stage, host, ui, last, newest, asked>>

SharedWritableOfOne(h, r) ==
  /\ SameExistingFile(h, r.path, h.mounted[Other(r.request.drive)].path)
  /\ h.mounted[Other(r.request.drive)].access = "rw"

SharedWritable(h, r) ==
  LET other == h.mounted[Other(r.request.drive)]
  IN /\ SameExistingFile(h, r.path, other.path)
     /\ "rw" \in {r.request.access, other.access}

Refused(h, r) ==
  \/ r.path = NoPath
  \/ \E p \in Protected : SameExistingFile(h, r.path, p)
  \/ SharedWritable(h, r)

Selected(h, r) ==
  LET d == r.request.drive
      mount(g) == Replace(g, d, r.path, r.request.access)
  IN IF Refused(h, r) THEN {Fails(h)}
     ELSE IF r.request.blank
     THEN UNION {IF e.ok THEN mount(e.host) ELSE {e} : e \in CreateBlank(h, r.path)}
     ELSE mount(h)

FinishDiskDialogIfOpened(ok) ==
  [open |-> FALSE, wasRunning |-> FALSE, paused |-> ui.paused /\ ~(ui.wasRunning /\ ok)]

FinishDiskDialog(ok) ==
  [open |-> FALSE, wasRunning |-> FALSE, paused |-> ui.paused /\ ~ui.wasRunning]

ProcessFileDialogResults ==
  /\ stage = "running" /\ results # <<>>
  /\ \E e \in Selected(host, Head(results)) : host' = e.host /\ ui' = FinishDiskDialog(e.ok)
  /\ results' = Tail(results)
  /\ UNCHANGED <<stage, dialog, last, newest, asked>>

----------------------------------------------------------------------------
(* The rest of the menus. *)

EjectDisk(d) ==
  /\ stage = "running" /\ host.mounted[d].path # NoPath
  /\ \E e \in Eject(host, d) : host' = e.host
  /\ UNCHANGED <<stage, dialog, results, ui, last, newest, asked>>

ResetMachine ==
  /\ stage = "running"
  /\ ui' = [ui EXCEPT !.paused = FALSE] /\ asked' = FALSE
  /\ UNCHANGED <<stage, host, dialog, results, last, newest>>

TogglePause ==
  /\ stage = "running"
  /\ ui' = [ui EXCEPT !.paused = ~@] /\ asked' = ~ui.paused
  /\ UNCHANGED <<stage, host, dialog, results, last, newest>>

(* The program in the machine, through the disk electronics: bytes replace *)
(* bytes as the track passes, across the Index too, but a format lasts one *)
(* revolution from the Index on, and may be given up earlier.              *)
Overwritten(track, place, bytes) ==
  [i \in 1 .. Len(track) |->
     LET k == (i - place) % Len(track)
     IN IF k < Len(bytes) THEN bytes[k + 1] ELSE track[i]]
Around(track, i) == track[((i - 1) % Len(track)) + 1]
IdFields(track, s) ==
  {i \in 1 .. Len(track) :
     track[i] = IdMark
       /\ <<Number, 0, s, 0>> = [k \in 1 .. 4 |-> Around(track, i + k) % 256]}

ProgramUses(d) ==
  stage = "running" /\ ~ui.paused /\ host.media[d] # NoDisk /\ host.mounted[d].access = "rw"

ProgramWrites(d, s, late) ==
  /\ ProgramUses(d)
  /\ last < MaxWrites /\ last' = last + 1
  /\ \E i \in IdFields(host.media[d], s) :
       host' = [host EXCEPT !.media[d] =
                  Overwritten(@, i + 7 + Gap.id + late, DataField(Repeat(DataBytes, last')))]
  /\ newest' = [newest EXCEPT ![host.mounted[d].path][s] = last']
  /\ UNCHANGED <<stage, dialog, results, ui, asked>>

ProgramFormats(d, format) ==
  /\ ProgramUses(d)
  /\ LET bytes == Repeat(format.late, 255) \o Import(Number, Blank)
         length == Min({format.length, Len(host.media[d])})
     IN host' = [host EXCEPT !.media[d] = Overwritten(@, 1, SubSeq(bytes, 1, length))]
  /\ newest' = [newest EXCEPT ![host.mounted[d].path] = [s \in Sector |-> Unknown]]
  /\ UNCHANGED <<stage, dialog, results, ui, last, asked>>

(* Another program of the host truncates a file. *)
HostDamages(p) ==
  /\ Exists(host.files[p])
  /\ host' = [host EXCEPT !.files[p] = Damaged]
  /\ newest' = [newest EXCEPT ![p] =
                  IF \E d \in Drive : host.mounted[d] = [path |-> p, access |-> "rw"]
                  THEN @ ELSE [s \in Sector |-> Unknown]]
  /\ UNCHANGED <<stage, dialog, results, ui, last, asked>>

----------------------------------------------------------------------------
(* main: the disks of the command line are mounted, or there is no start.  *)
Start(commandLine) ==
  /\ stage = "exited"
  /\ \A d \in Drive : commandLine[d].path # NoPath => Readable(host, commandLine[d].path)
  /\ stage' = "running"
  /\ host' = [host EXCEPT
       !.media = [d \in Drive |->
         IF commandLine[d].path = NoPath THEN NoDisk
         ELSE Import(Number, host.files[commandLine[d].path])],
       !.mounted = commandLine]
  /\ UNCHANGED <<dialog, results, ui, last, newest, asked>>

(* Both drives are saved; a disk that cannot be is given up, and the exit  *)
(* status says so.                                                         *)
NothingKnown == [p \in Path |-> [s \in Sector |-> Unknown]]
EjectAtExit(h, d) == IF h.mounted[d].path = NoPath THEN {Succeeds(h)} ELSE Eject(h, d)

Quit ==
  /\ stage = "running" /\ stage' = "exited"
  /\ \E a \in EjectAtExit(host, "A") : \E b \in EjectAtExit(a.host, "B") :
       /\ host' = Closed(Closed(b.host, "A"), "B")
       /\ newest' = IF a.ok /\ b.ok THEN newest ELSE NothingKnown
  /\ dialog' = <<>> /\ results' = <<>>
  /\ ui' = NoUi /\ asked' = FALSE
  /\ UNCHANGED last

FilesInit ==
  /\ stage = "exited"
  /\ host = [files |-> InitialFiles, media |-> [d \in Drive |-> NoDisk],
             mounted |-> [d \in Drive |-> NoMount]]
  /\ dialog = <<>> /\ results = <<>>
  /\ ui = NoUi
  /\ last = 0 /\ newest = NothingKnown /\ asked = FALSE

FilesNext ==
  \/ \E commandLine \in CommandLines : Start(commandLine)
  \/ \E request \in Request : ShowDiskDialog(request)
  \/ \E path \in Path \cup {NoPath} : FileDialogCallback(path)
  \/ ProcessFileDialogResults
  \/ \E d \in Drive : EjectDisk(d)
  \/ ResetMachine
  \/ TogglePause
  \/ \E d \in Drive, s \in Written, late \in Lateness : ProgramWrites(d, s, late)
  \/ \E d \in Drive, format \in Formats : ProgramFormats(d, format)
  \/ \E p \in Path \ Protected : HostDamages(p)
  \/ Quit

FilesSpec == FilesInit /\ [][FilesNext]_fvars

----------------------------------------------------------------------------
(* At most one dialog is open or waits to be answered for. *)
FilesTypeOK ==
  /\ stage \in {"exited", "running"} /\ host \in Host /\ ui \in Ui
  /\ dialog \in Seq(Request)
  /\ results \in Seq([request : Request, path : Path \cup {NoPath}])
  /\ Len(dialog) + Len(results) <= 1
  /\ last \in 0 .. MaxWrites /\ asked \in BOOLEAN
  /\ newest \in [Path -> [Sector -> Value \cup {Unknown}]]

(* A drive holds a disk exactly while the menu shows its file, however an  *)
(* eject, a replacement or a save failed; a file is never in both drives   *)
(* with one of them writing to it, and the ROM and the printer's file are  *)
(* in none (ui.cpp:149, ui.cpp:138).                                       *)
MountsAreSound ==
  /\ FilesTypeOK
  /\ \A d \in Drive : host.media[d] # NoDisk <=> host.mounted[d].path # NoPath
  /\ \A d \in Drive : host.mounted[d].path \notin Protected
  /\ host.mounted["A"].path # NoPath /\ host.mounted["A"].path = host.mounted["B"].path
       => \A d \in Drive : host.mounted[d].access = "ro"

(* What a program reads of a sector, wherever the head comes down: the     *)
(* field behind the next data mark.                                        *)
SectorMarkAt(track, i) == Around(track, i) \in DataMarks \cup {IdMark}
Reads(track, s) ==
  {LET j == Min({k \in i + 1 .. i + Len(track) : SectorMarkAt(track, k)})
   IN IF Around(track, j) = IdMark THEN <<>>
      ELSE [k \in 1 .. DataBytes |-> Around(track, j + k) % 256] : i \in IdFields(track, s)}

(* What the program wrote last to a sector can be read from the disk in    *)
(* the drive or is in the file: no failed save, replacement or exit that   *)
(* reports success loses it, nor does the conversion (README.md: a disk    *)
(* that cannot be converted or saved stays in the drive and the status     *)
(* line says so).                                                          *)
NoWriteIsLost ==
  \A p \in Path, s \in Sector :
    newest[p][s] # Unknown =>
      LET data == Repeat(DataBytes, newest[p][s])
      IN \/ Readable(host, p) /\ SectorData(host.files[p], s) = data
         \/ \E d \in Drive : host.mounted[d].path = p /\ Reads(host.media[d], s) = {data}

(* A disk that can be converted back is saved as the program reads it,     *)
(* however it has been written and formatted.                              *)
SavedIsRead ==
  \A d \in Drive :
    LET image == Export(Number, host.media[d])
    IN image # NoImage =>
         \A s \in Sector : Reads(host.media[d], s) = {SectorData(image, s)}

(* A file changes only when it is created blank, where there was none, or  *)
(* when a complete disk that was opened from it for writing is saved; a    *)
(* disk opened read-only or formatted in part never reaches its file.      *)
FilesAreSaved ==
  [][\A p \in Path :
       host'.files[p] # host.files[p] =>
         \/ HostDamages(p)
         \/ ~Exists(host.files[p]) /\ host'.files[p] = Blank
         \/ \E d \in Drive :
              LET image == Export(Number, host.media[d])
              IN /\ host.mounted[d] = [path |-> p, access |-> "rw"]
                 /\ image # NoImage
                 /\ host'.files[p] \in {image, Torn(host.files[p], image)}]_fvars

(* With no dialog open the emulation stands still only if the user has     *)
(* asked for it: whatever became of a dialog, its own pause has ended.     *)
PauseIsTheUsers == stage = "running" /\ ui.paused /\ ~ui.open => asked
=============================================================================
