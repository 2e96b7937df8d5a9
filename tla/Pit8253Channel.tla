--------------------------- MODULE Pit8253Channel ---------------------------
(***************************************************************************)
(* One timer channel under every operation the CPU and the board apply to  *)
(* it, in any order.  The history variables record what a reader of the    *)
(* data sheet would watch on the pins.                                     *)
(***************************************************************************)
EXTENDS Pit8253

CONSTANTS Modes,      \* the modes the CPU programs, out of 0 .. 7
          Accesses,   \* the byte sequences it programs
          Codes,      \* binary (FALSE) or BCD (TRUE) counting
          Counts      \* the byte values it writes

ASSUME ChannelAssumption ==
  /\ Modes \subseteq 0 .. 7 /\ Accesses \subseteq Access /\ Codes \subseteq BOOLEAN
  /\ Counts \subseteq 0 .. ByteBase - 1

VARIABLES
  channel,
  counted,   \* clocks counted since the channel was last loaded or triggered
  age,       \* clocks since OUT last rose, or -1 if it has not since a restart
             \* (both stop just above WordBase, which no count exceeds)
  promised   \* the count at the moment of the latch command in force

cvars == <<channel, counted, age, promised>>

ChannelInit == channel = ResetChannel /\ counted = 0 /\ age = -1 /\ promised = 0

Restarted == counted' = 0 /\ age' = -1

Program(access, mode, bcd) ==
  /\ channel' = Configure(channel, access, mode, bcd)
  /\ Restarted
  /\ UNCHANGED promised

WriteCount(v) ==
  /\ channel' = WriteChannel(channel, v)
  /\ IF channel.access = "lsb_msb" /\ channel.writeLow
     THEN UNCHANGED <<counted, age>> ELSE Restarted
  /\ UNCHANGED promised

LatchCommand ==
  /\ channel' = Latch(channel)
  /\ promised' = IF channel.latched THEN promised ELSE VisibleCount(channel)
  /\ UNCHANGED <<counted, age>>

ReadCount ==
  /\ channel' = ReadChannel(channel)
  /\ UNCHANGED <<counted, age, promised>>

(* In modes 0 and 4 the gate pauses the count, in 1 and 5 a rising edge    *)
(* starts it again, in 2 and 3 both edges disturb it.                      *)
Gate(high) ==
  /\ channel' = SetGate(channel, high)
  /\ IF \/ ~channel.gate /\ high /\ channel.mode \in {1, 2, 3, 5}
        \/ channel.gate /\ ~high /\ channel.mode \in {2, 3}
     THEN Restarted
     ELSE UNCHANGED <<counted, age>>
  /\ UNCHANGED promised

Clock ==
  /\ channel' = ClockOnce(channel)
  /\ counted' = IF channel.running /\ counted <= WordBase THEN counted + 1 ELSE counted
  /\ age' = IF ~channel.output /\ channel'.output THEN 0
            ELSE IF channel.running /\ age \in 0 .. WordBase THEN age + 1 ELSE age
  /\ UNCHANGED promised

ChannelNext ==
  \/ \E access \in Accesses, mode \in Modes, bcd \in Codes : Program(access, mode, bcd)
  \/ \E v \in Counts : WriteCount(v)
  \/ LatchCommand
  \/ ReadCount
  \/ \E high \in BOOLEAN : Gate(high)
  \/ Clock

ChannelSpec == ChannelInit /\ [][ChannelNext]_cvars

----------------------------------------------------------------------------
(* The channel's state, with the range every count keeps once it is loaded:*)
(* a zero written means the full range and nothing counts below zero.      *)
ChannelTypeOK ==
  /\ channel \in Channel
  /\ channel.pendingLow < ByteBase /\ channel.latchedValue < WordBase
  /\ channel.loaded =>
       /\ channel.reload \in 1 .. WordBase
       /\ channel.current \in 0 .. channel.reload
       /\ channel.mode = 3 => channel.phase \in 1 .. HighPhase(channel.reload)
  /\ channel.running => channel.loaded

OutRises == ~channel.output /\ channel'.output
OutFalls == channel.output /\ ~channel'.output

(* In modes 0 and 1 OUT rises exactly at the clock that completes the      *)
(* programmed count, however the gate paused or retriggered it; in mode 5  *)
(* the strobe falls at that clock; in modes 2 and 3 two successive rising  *)
(* edges of OUT are exactly the programmed count apart (a count of 1 is    *)
(* outside the data sheet).  The disk's end of data (channel 2), its write *)
(* delay (channel 1) and the bit clock of the UART rest on this.           *)
CountIsExact ==
  [][Clock => /\ channel.mode \in {0, 1} /\ OutRises => counted' = channel.reload
              /\ channel.mode = 5 /\ OutFalls => counted' = channel.reload
              /\ channel.mode \in {2, 3} /\ OutRises /\ age >= 0 /\ channel.reload > 1
                   => age + 1 = channel.reload]_cvars

(* Latch: the bytes the CPU reads are those of the count at the moment of  *)
(* the first latch command, whatever is clocked, gated, reloaded or        *)
(* latched again between the two reads; the low byte leaves the latch      *)
(* closed for the high byte, which opens it.                               *)
LatchedReadIsTrue ==
  [][ReadCount /\ channel.latched =>
       /\ ReadValue(channel) = IF channel.access = "lsb" \/ channel'.latched
                               THEN promised % ByteBase ELSE promised \div ByteBase
       /\ channel'.latched => channel.access = "lsb_msb" /\ ~channel'.latchedLow]_cvars
=============================================================================
