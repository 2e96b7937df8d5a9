---------------------------- MODULE MachineClock ----------------------------
(***************************************************************************)
(* The time of class Machine (src/src/core/machine.cpp): run_cycles runs   *)
(* whole instructions, an IN or OUT brings the devices up to the T state   *)
(* of the access, and advance_time divides the ticks for the timer and the *)
(* video.                                                                  *)
(***************************************************************************)
EXTENDS Integers, FiniteSetsExt

CONSTANTS
  CyclesPerFrame,  \* what the frontend asks run_cycles for
  TicksPerCycle,   \* master_ticks_per_cpu_cycle
  TicksPerClock,   \* of the timer's channel 1
  TicksPerFrame,   \* master_ticks_per_frame
  Instructions     \* the T states an instruction can take

ASSUME ClockAssumption ==
  /\ {CyclesPerFrame, TicksPerCycle, TicksPerClock, TicksPerFrame} \subseteq Nat \ {0}
  /\ Instructions \subseteq Nat \ {0}
  /\ \E longest \in Instructions : \A length \in Instructions : length <= longest

VARIABLES
  clock,   \* cpu_cycle_overrun_, remaining of run_cycles, timer_clock_accumulator,
           \* frame_tick_accumulator_, synchronized_instruction_cycles; and whether
           \* the instruction is about to access a device
  behind   \* history: cycles asked for and not run, ticks without a timer clock,
           \* ticks without a frame

clockVars == <<clock, behind>>

Started == [overrun |-> 0, remaining |-> 0, synchronized |-> 0, accessing |-> FALSE,
            timer |-> 0, frame |-> 0]
OnTime == [cycles |-> 0, timer |-> 0, frame |-> 0]

(* advance_time, and its history. *)
TimerClocks(c, ticks) == (c.timer + ticks) \div TicksPerClock
Frames(c, ticks) == (c.frame + ticks) \div TicksPerFrame
Passed(c, ticks) ==
  [c EXCEPT !.timer = (@ + ticks) % TicksPerClock, !.frame = (@ + ticks) % TicksPerFrame]
After(b, cycles) ==
  LET ticks == cycles * TicksPerCycle
  IN [cycles |-> b.cycles - cycles,
      timer |-> b.timer + ticks - TicksPerClock * TimerClocks(clock, ticks),
      frame |-> b.frame + ticks - TicksPerFrame * Frames(clock, ticks)]

(* Faulty variants, used only by the mutation runs. *)
BudgetedAnew(c) == [c EXCEPT !.remaining = CyclesPerFrame]

(* The cycles the last call ran too many are taken off this one. *)
Budgeted(c) ==
  IF CyclesPerFrame <= c.overrun THEN [c EXCEPT !.overrun = @ - CyclesPerFrame]
  ELSE [c EXCEPT !.remaining = CyclesPerFrame - c.overrun, !.overrun = 0]

Completed(c, length) ==
  [c EXCEPT !.synchronized = 0,
            !.remaining = IF length >= @ THEN 0 ELSE @ - length,
            !.overrun = IF length >= c.remaining THEN length - c.remaining ELSE 0]

Running == clock.remaining # 0

RunCycles ==
  /\ ~Running
  /\ clock' = Budgeted(clock)
  /\ behind' = [behind EXCEPT !.cycles = @ + CyclesPerFrame]

SynchronizeCpuIo(cycle) ==
  /\ Running /\ clock.synchronized = 0 /\ cycle <= Max(Instructions)
  /\ clock' = [Passed(clock, cycle * TicksPerCycle) EXCEPT !.synchronized = cycle,
                                                           !.accessing = TRUE]
  /\ behind' = After(behind, cycle)

CompleteInstruction(length) ==
  LET cycles == length - clock.synchronized
  IN /\ Running /\ ~clock.accessing /\ cycles >= 0
     /\ clock' = Completed(Passed(clock, cycles * TicksPerCycle), length)
     /\ behind' = After(behind, cycles)

ResetClock == clock' = Started /\ behind' = OnTime

----------------------------------------------------------------------------
(* Between two frames the machine has run what it was asked for and less   *)
(* than an instruction more, however the instructions fall and whatever    *)
(* they access; every clock of the timer and every frame of the video has  *)
(* come and none twice, however advance_time cut the ticks.                *)
CyclesAreKept ==
  /\ ~Running => behind.cycles \in 1 - Max(Instructions) .. 0
  /\ behind.timer \in 0 .. TicksPerClock - 1
  /\ behind.frame \in 0 .. TicksPerFrame - 1
=============================================================================
