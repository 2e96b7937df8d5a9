---------------------------- MODULE MouseEncoder ----------------------------
(***************************************************************************)
(* The mouse of class Machine (src/src/core/machine.cpp): host motion is   *)
(* queued and let out as the edges of two quadrature encoders, one edge an *)
(* interval; every changed wire raises the latch behind interrupt I3 while *)
(* PA3 of the control 8255 lets it.                                        *)
(***************************************************************************)
EXTENDS Integers, FiniteSetsExt

CONSTANTS
  EdgeInterval,  \* mouse_edge_interval_ticks
  Limit,         \* the most motion queued on an axis
  Deltas,        \* bound: the motions the host reports at once
  TestSignals,   \* wire levels set_mouse_signals forces
  Steps,         \* the lengths of an advance_time call, in ticks
  Pressable,     \* bound: the buttons the user touches
  Opens          \* bound: the levels the program gives PA3

ASSUME MouseAssumption ==
  /\ EdgeInterval \in Nat \ {0} /\ Limit \in Nat \ {0}
  /\ Deltas \subseteq Int
  /\ TestSignals \subseteq SUBSET {"AX", "BX", "AY", "BY", "T1", "T2"}
  /\ Steps \subseteq Nat \ {0}
  /\ Pressable \subseteq {"T1", "T2"} /\ Opens \subseteq BOOLEAN

(* Encoders AX, BX, AY and BY, and the buttons, which rest high. *)
Wire == {"AX", "BX", "AY", "BY", "T1", "T2"}
Button == {"T1", "T2"}
Axis == {"x", "y"}
WiresOf == [x |-> {"AX", "BX"}, y |-> {"AY", "BY"}]

VARIABLES
  mouse,  \* the mouse fields of PeripheralState
  gate,   \* PA3 is an output and high
  watched,\* history: PA3 has been open since the program last read group 70h
  moved,  \* history: a wire has changed since then
  target, \* history: the phases when all queued motion will be out
  lead,   \* history: edges of y less edges of x since both axes wait
  slack   \* history: one interval and the ticks since the encoders last rested,
          \* less an interval for every edge since then

vars == <<mouse, gate, watched, moved, target, lead, slack>>

Mouse == [signals : SUBSET Wire, phase : [Axis -> 0 .. 3],
          pending : [Axis -> -Limit .. Limit],
          ticks : 0 .. EdgeInterval, yNext : BOOLEAN, latch : BOOLEAN]

(* The Gray code of a phase on wires A and B, and the phase of two wires. *)
GrayA == {1, 2}
GrayB == {2, 3}
Gray(axis, phase) ==
  CASE axis = "x" -> {w \in {"AX"} : phase \in GrayA} \cup {w \in {"BX"} : phase \in GrayB}
    [] axis = "y" -> {w \in {"AY"} : phase \in GrayA} \cup {w \in {"BY"} : phase \in GrayB}
PhaseOf(axis, signals) ==
  CHOOSE phase \in 0 .. 3 : Gray(axis, phase) = signals \cap WiresOf[axis]

Idle(m) == m.pending["x"] = 0 /\ m.pending["y"] = 0
Both(m) == m.pending["x"] # 0 /\ m.pending["y"] # 0

----------------------------------------------------------------------------
(* Faulty variants, used only by the mutation runs. *)
UpdateOnlyEncoders(m, open, signals) ==
  [m EXCEPT !.signals = signals,
            !.latch = @ \/ (open /\ signals \ Button # m.signals \ Button)]

ForwardAlike(axis, positive) == IF positive THEN 1 ELSE 3
RestKeepsTicks(m) == m

(* update_mouse_signals: any changed wire sets the latch, if PA3 lets it. *)
UpdateSignals(m, open, signals) ==
  [m EXCEPT !.signals = signals, !.latch = @ \/ (open /\ signals # m.signals)]

(* One turn of the loop in advance_mouse.  The x encoder is mounted the    *)
(* other way round: motion to the right runs through the phases backwards. *)
Forward(axis, positive) == IF positive = (axis = "y") THEN 1 ELSE 3

NextAxis(m) ==
  IF m.pending["x"] = 0 \/ (Both(m) /\ m.yNext) THEN "y" ELSE "x"

Edge(m, open) ==
  LET axis == NextAxis(m)
      positive == m.pending[axis] > 0
      phase == (m.phase[axis] + Forward(axis, positive)) % 4
      turned == [m EXCEPT !.pending[axis] = @ + (IF positive THEN -1 ELSE 1),
                          !.phase[axis] = phase,
                          !.ticks = @ - EdgeInterval,
                          !.yNext = IF Both(m) THEN ~@ ELSE @]
  IN UpdateSignals(turned, open, (m.signals \ WiresOf[axis]) \cup Gray(axis, phase))

(* How many edges a call lets out: as many as are queued and due. *)
Size(n) == IF n < 0 THEN -n ELSE n
EdgesDue(m, ticks) ==
  Min({(m.ticks + ticks) \div EdgeInterval, Size(m.pending["x"]) + Size(m.pending["y"])})

Rest(m) == IF Idle(m) THEN [m EXCEPT !.ticks = Min({@, EdgeInterval})] ELSE m

(* The mouse after each edge of a call. *)
Turned(m, open, ticks) ==
  LET after[n \in Nat] == IF n = 0 THEN [m EXCEPT !.ticks = @ + ticks]
                          ELSE Edge(after[n - 1], open)
  IN [n \in 0 .. EdgesDue(m, ticks) |-> after[n]]

AdvanceMouse(m, open, ticks) == Rest(Turned(m, open, ticks)[EdgesDue(m, ticks)])

Queue(pending, delta) == Max({-Limit, Min({Limit, pending + delta})})

----------------------------------------------------------------------------
Init ==
  /\ mouse = [signals |-> Button, phase |-> [a \in Axis |-> 0],
              pending |-> [a \in Axis |-> 0],
              ticks |-> EdgeInterval, yNext |-> FALSE, latch |-> FALSE]
  /\ gate = FALSE
  /\ watched = FALSE /\ moved = FALSE
  /\ target = [a \in Axis |-> 0] /\ lead = 0 /\ slack = EdgeInterval

(* The history of a call that may move the wires. *)
Moves == moved' = (moved \/ (watched /\ mouse'.signals # mouse.signals))

(* The history of a call that lets edges out: which axis each came from. *)
Led(m, ticks) ==
  LET states == Turned(m, gate, ticks)
      led[n \in Nat] ==
        IF n = 0 THEN IF Both(m) THEN lead ELSE 0
        ELSE IF ~Both(states[n]) THEN 0
        ELSE led[n - 1] + (IF states[n].pending["y"] # states[n - 1].pending["y"]
                           THEN 1 ELSE -1)
  IN led[EdgesDue(m, ticks)]

Slack(m, ticks) == IF Idle(m) THEN Min({ticks, EdgeInterval}) ELSE ticks

AdvanceTime(ticks) ==
  /\ mouse' = AdvanceMouse(mouse, gate, ticks)
  /\ lead' = Led(mouse, ticks)
  /\ slack' = Slack(mouse', slack + ticks - EdgeInterval * EdgesDue(mouse, ticks))
  /\ Moves
  /\ UNCHANGED <<gate, watched, target>>

MouseMotion(dx, dy) ==
  LET queued == [mouse EXCEPT !.pending = [x |-> Queue(@["x"], dx), y |-> Queue(@["y"], dy)]]
      gained(axis) == queued.pending[axis] - mouse.pending[axis]
  IN /\ mouse' = AdvanceMouse(queued, gate, 0)
     /\ target' = [x |-> (target["x"] - gained("x")) % 4,
                   y |-> (target["y"] + gained("y")) % 4]
     /\ lead' = Led(queued, 0)
     /\ slack' = Slack(mouse', slack - EdgeInterval * EdgesDue(queued, 0))
     /\ Moves
     /\ UNCHANGED <<gate, watched>>

SetMouseButton(button, pressed) ==
  /\ mouse' = UpdateSignals(mouse, gate, IF pressed THEN mouse.signals \ {button}
                                         ELSE mouse.signals \cup {button})
  /\ Moves
  /\ UNCHANGED <<gate, watched, target, lead, slack>>

SetMouseSignals(signals) ==
  LET phase == [a \in Axis |-> PhaseOf(a, signals)]
  IN /\ mouse' = UpdateSignals([mouse EXCEPT !.phase = phase,
                                             !.pending = [a \in Axis |-> 0],
                                             !.ticks = EdgeInterval],
                               gate, signals)
     /\ target' = phase /\ lead' = 0 /\ slack' = EdgeInterval
     /\ Moves
     /\ UNCHANGED <<gate, watched>>

(* IN from group 70h. *)
ReadMouse ==
  /\ mouse' = [mouse EXCEPT !.latch = FALSE]
  /\ watched' = gate /\ moved' = FALSE
  /\ UNCHANGED <<gate, target, lead, slack>>

(* OUT to group 60h: the byte on port A, or the control word, moves PA3. *)
WriteControl(open) ==
  /\ gate' = open
  /\ watched' = (watched /\ open) /\ moved' = (moved /\ open)
  /\ UNCHANGED <<mouse, target, lead, slack>>

(* Machine::reset clears the latch and shuts PA3, and forgets no motion. *)
Reset ==
  /\ mouse' = [mouse EXCEPT !.latch = FALSE]
  /\ gate' = FALSE /\ watched' = FALSE /\ moved' = FALSE
  /\ UNCHANGED <<target, lead, slack>>

(* What the host and the program do to it. *)
MouseEvent ==
  \/ \E dx, dy \in Deltas : MouseMotion(dx, dy)
  \/ \E button \in Pressable, pressed \in BOOLEAN : SetMouseButton(button, pressed)
  \/ \E signals \in TestSignals : SetMouseSignals(signals)

MouseAccess == ReadMouse \/ \E open \in Opens : WriteControl(open)

Next == MouseEvent \/ MouseAccess \/ Reset \/ \E ticks \in Steps : AdvanceTime(ticks)

Spec == Init /\ [][Next]_vars

----------------------------------------------------------------------------
(* With motion queued the tick count stays below the interval: no edge is  *)
(* overdue; without, it stops at the interval.                             *)
TypeOK ==
  /\ mouse \in Mouse /\ gate \in BOOLEAN
  /\ ~Idle(mouse) => mouse.ticks < EdgeInterval
  /\ watched \in BOOLEAN /\ moved \in BOOLEAN /\ lead \in Int
  /\ target \in [Axis -> 0 .. 3] /\ slack \in Int

(* No motion is lost or invented: what an encoder shows and what is still  *)
(* queued add up to what the host has queued, in the direction             *)
(* hardware-spec.md 13.2 gives each axis, and the wires show the phase.    *)
MotionIsConserved ==
  /\ target["x"] = (mouse.phase["x"] - mouse.pending["x"]) % 4
  /\ target["y"] = (mouse.phase["y"] + mouse.pending["y"]) % 4
  /\ \A a \in Axis : mouse.signals \cap WiresOf[a] = Gray(a, mouse.phase[a])

(* In any stretch of time from a rest on there is at most one edge more    *)
(* than intervals: a rest earns no burst, nor does motion queued in pieces; *)
(* and with motion queued no edge is overdue.  While both axes have motion *)
(* queued they take turns, so a diagonal stays one.                        *)
EdgesAreSpaced == TypeOK /\ slack >= 0 /\ lead \in -1 .. 1

(* A program that keeps PA3 open after reading group 70h hears of every    *)
(* later change: once a wire has moved, even back again, I3 is up.         *)
ChangesAreAnnounced == watched /\ moved => mouse.latch
=============================================================================
