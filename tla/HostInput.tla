----------------------------- MODULE HostInput -----------------------------
(***************************************************************************)
(* The loop of src/src/frontend/main.cpp: the host's keys, buttons and     *)
(* motion go through the decoder and the capture of the mouse to class     *)
(* Machine, which then runs a frame of instructions; an instruction may    *)
(* read or write the mouse's ports on the way.  One advance_time serves    *)
(* keyboard, mouse and timer.  A reset from the menu forgets the held key, *)
(* which the host goes on holding, and keeps the mouse's motion.           *)
(***************************************************************************)
EXTENDS MouseEncoder, AtKeyboard, Keyboard, MachineClock

CONSTANTS
  Pressed,  \* bound: for each key, the modifiers it is pressed with
  Uses      \* bound: what one user has to do with: "keyboard", "mouse"

ASSUME HostAssumption ==
  /\ \A key \in Key : /\ key.scan \in IF key.extended THEN Extended ELSE Scan
                      /\ Pressed[key] \subseteq SUBSET Modifiers
  /\ NoPress \notin Key /\ Byte \subseteq Code
  /\ Uses \subseteq SUBSET {"keyboard", "mouse"}

VARIABLES
  use,
  decoder,   \* at_keyboard
  kb,        \* class Keyboard
  captured,  \* mouse_captured
  holding,   \* the mouse buttons the user holds down
  digits,    \* history: the digit typed with Scroll Lock that waits for another
  latest,    \* history: the key pressed last, until it is released
  age,       \* history: ticks since it went down, whole repeats taken off
  sent,      \* history: codes it has sent, the same number taken off
  entered    \* history: the byte entered last is that of its two digits

hand == <<captured, holding>>
typing == <<decoder, digits, entered>>
kvars == <<kb, latest, age, sent>>
hvars == <<use, vars, kvars, typing, hand, clockVars>>

HostInit ==
  /\ use \in Uses /\ Init
  /\ kb = ResetKeyboard /\ decoder = ResetDecoder
  /\ captured = FALSE /\ holding = {}
  /\ latest = NoPress /\ age = 0 /\ sent = 0
  /\ digits = <<>> /\ entered = TRUE
  /\ clock = Started /\ behind = OnTime

Released == latest' = NoPress /\ age' = 0 /\ sent' = 0
Emitted(key) == IF Emits(kb, key) THEN 1 ELSE 0

----------------------------------------------------------------------------
(* SDL_EVENT_KEY_DOWN, not a repeat; a dead key, a digit or a key without  *)
(* a code does not reach the machine, and the key held before goes on.     *)
Sends(key, code) ==
  /\ kb' = KeyPressed(kb, key, code)
  /\ latest' = key
  /\ IF key = latest
     THEN sent' = sent + Emitted(key) /\ UNCHANGED age
     ELSE sent' = Emitted(key) /\ age' = 0

(* The digit a key stands for is its code with nothing else held.          *)
Typed(key, mods) ==
  IF key.extended \/ key.scan = AltScan \/ (decoder.czech /\ key.scan = DeadScan) THEN None
  ELSE LET plain == [ResetDecoder EXCEPT !.czech = decoder.czech]
           code == Translate(plain, key, mods \ {"scroll", "control"}).code
       IN Digit(code)

KeyDown(key, mods) ==
  LET t == Translate(decoder, key, mods)
      digit == IF "scroll" \in mods THEN Typed(key, mods) ELSE None
  IN /\ "keyboard" \in use /\ ~Running
     /\ decoder' = t.decoder
     /\ IF t.code # None THEN Sends(key, t.code) ELSE UNCHANGED kvars
     /\ digits' = IF digit # None THEN IF digits = <<>> THEN <<digit>> ELSE <<>>
                  ELSE IF "scroll" \in mods \/ key.scan = AltScan THEN digits ELSE <<>>
     /\ entered' = IF digit = None THEN entered
                   ELSE t.code = IF digits = <<>> THEN None
                                 ELSE Output(decoder, digits[1] * 16 + digit).code
     /\ UNCHANGED <<use, vars, hand, clockVars>>

ScrollUp ==
  /\ "keyboard" \in use /\ ~Running
  /\ decoder' = ReleaseScroll(decoder) /\ digits' = <<>>
  /\ UNCHANGED <<use, vars, kvars, entered, hand, clockVars>>

KeyUp(key) ==
  /\ "keyboard" \in use /\ ~Running
  /\ kb' = KeyReleased(kb, key)
  /\ IF key = latest THEN Released ELSE UNCHANGED <<latest, age, sent>>
  /\ UNCHANGED <<use, vars, typing, hand, clockVars>>

----------------------------------------------------------------------------
(* A faulty variant, used only by a mutation run. *)
SetMouseCaptureOnly(capture) == captured' = capture /\ UNCHANGED vars

(* set_mouse_capture, which SDL may refuse: F12, the menu, a lost focus.   *)
(* Both buttons are released for the machine when the mouse is.            *)
SetMouseCapture(capture) ==
  /\ captured' = capture
  /\ IF captured /\ ~capture
     THEN /\ mouse' = UpdateSignals(mouse, gate, mouse.signals \cup Button)
          /\ Moves /\ UNCHANGED <<gate, watched, target, lead, slack>>
     ELSE UNCHANGED vars

MouseUsed == "mouse" \in use /\ ~Running /\ UNCHANGED <<use, kvars, typing, clockVars>>

MouseCapture(capture) ==
  /\ MouseUsed /\ SetMouseCapture(capture) /\ UNCHANGED holding

(* The first click only captures the mouse. *)
ButtonDown(button, captures) ==
  /\ MouseUsed /\ button \notin holding /\ holding' = holding \cup {button}
  /\ IF captured THEN SetMouseButton(button, TRUE) /\ UNCHANGED captured
     ELSE SetMouseCapture(captures)

ButtonUp(button) ==
  /\ MouseUsed /\ button \in holding /\ holding' = holding \ {button}
  /\ IF captured THEN SetMouseButton(button, FALSE) ELSE UNCHANGED vars
  /\ UNCHANGED captured

Motion(dx, dy) == MouseUsed /\ captured /\ MouseMotion(dx, dy) /\ UNCHANGED hand

TestSignalsSet(signals) ==
  MouseUsed /\ SetMouseSignals(signals) /\ UNCHANGED hand

----------------------------------------------------------------------------
(* advance_time; the history counts the repeats of the key held longest    *)
(* from the last one on.                                                   *)
Folded(ticks) ==
  IF ticks < RepeatDelay + RepeatInterval THEN 0 ELSE (ticks - RepeatDelay) \div RepeatInterval

HostAdvance(ticks) ==
  LET older == age + ticks
  IN /\ AdvanceTime(ticks)
     /\ kb' = Waited(kb, ticks)
     /\ IF latest = NoPress THEN UNCHANGED <<age, sent>>
        ELSE /\ age' = older - RepeatInterval * Folded(older)
             /\ sent' = sent + Repeats(kb, ticks) - Folded(older)
     /\ UNCHANGED latest

Frame == RunCycles /\ UNCHANGED <<use, vars, kvars, typing, hand>>

(* An IN or OUT: the devices are brought up to it, and then answer.        *)
Synchronize(cycle) ==
  /\ SynchronizeCpuIo(cycle) /\ HostAdvance(cycle * TicksPerCycle)
  /\ UNCHANGED <<use, typing, hand>>

Access ==
  /\ clock.accessing /\ clock' = [clock EXCEPT !.accessing = FALSE]
  /\ MouseAccess \/ UNCHANGED vars
  /\ UNCHANGED <<use, kvars, typing, hand, behind>>

Complete(length) ==
  /\ CompleteInstruction(length)
  /\ IF length = clock.synchronized THEN UNCHANGED <<vars, kvars>>
     ELSE HostAdvance((length - clock.synchronized) * TicksPerCycle)
  /\ UNCHANGED <<use, typing, hand>>

(* Machine::reset, from the menu. *)
HostReset ==
  /\ ~Running /\ Reset /\ ResetClock
  /\ kb' = ResetKeyboard /\ Released
  /\ UNCHANGED <<use, typing, hand>>

HostNext ==
  \/ \E key \in Key : \E mods \in Pressed[key] : KeyDown(key, mods)
  \/ \E key \in Key : KeyUp(key)
  \/ ScrollUp
  \/ \E capture \in BOOLEAN : MouseCapture(capture)
  \/ \E button \in Pressable, captures \in BOOLEAN : ButtonDown(button, captures)
  \/ \E button \in Pressable : ButtonUp(button)
  \/ \E dx, dy \in Deltas : Motion(dx, dy)
  \/ \E signals \in TestSignals : TestSignalsSet(signals)
  \/ Frame
  \/ \E cycle \in 1 .. Max(Instructions) : Synchronize(cycle)
  \/ Access
  \/ \E length \in Instructions : Complete(length)
  \/ HostReset

HostSpec == HostInit /\ [][HostNext]_hvars

----------------------------------------------------------------------------
(* Codes owed to a key held for that long. *)
Due(ticks) == IF ticks < RepeatDelay THEN 1
              ELSE 2 + (ticks - RepeatDelay) \div RepeatInterval

(* The key pressed last has sent its code once at once, again after the    *)
(* delay and then once an interval until it is released, and nothing is    *)
(* sent after that: however instructions and accesses cut the time, and    *)
(* whatever the release of older keys and resets do (hardware-spec.md 7.3).*)
RepeatsOnTime ==
  /\ kb \in KeyboardState
  /\ sent = IF latest = NoPress THEN 0 ELSE Due(age)

(* A byte entered with Scroll Lock is that of two digits seen with it, one *)
(* after the other, with no release of it and no key without it between,   *)
(* and each used once: language toggles, dead keys, keys that are no       *)
(* digits and those of the cursor block do not come between (README.md,    *)
(* keyboard).                                                              *)
BytesAreTyped == decoder \in Decoder /\ entered

(* A button the machine sees down is one the user holds on a captured      *)
(* mouse: whatever captures and releases it, and whichever events the      *)
(* window keeps for itself, no button stays down and the click that        *)
(* captures the mouse presses none (main.cpp:725).                         *)
ButtonsAreHeld ==
  \A button \in Button :
    button \notin mouse.signals => captured /\ button \in holding
=============================================================================
