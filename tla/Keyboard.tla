------------------------------ MODULE Keyboard ------------------------------
(***************************************************************************)
(* class Keyboard of src/src/core/keyboard.cpp as operators on a record:   *)
(* the key that is held, its code, and the ticks until the code repeats.   *)
(***************************************************************************)
EXTENDS Naturals

CONSTANTS
  Key,             \* host scancodes
  Code,            \* logical key codes
  NoPress,         \* no key is held
  RepeatDelay,     \* ticks until the first repeat
  RepeatInterval   \* ticks between repeats

ASSUME KeyboardAssumption ==
  /\ RepeatDelay \in Nat \ {0} /\ RepeatInterval \in Nat \ {0}
  /\ RepeatInterval <= RepeatDelay
  /\ NoPress \notin [key : Key, code : Code]

Press == [key : Key, code : Code]
KeyboardState == [held : Press \cup {NoPress}, wait : 1 .. RepeatDelay]

Holds(kb, key) == kb.held # NoPress /\ kb.held.key = key

ResetKeyboard == [held |-> NoPress, wait |-> RepeatDelay]

(* The host repeats its own key-down events: those of the held key emit nothing. *)
Emits(kb, key) == ~Holds(kb, key)

KeyPressed(kb, key, code) ==
  IF Emits(kb, key)
  THEN [held |-> [key |-> key, code |-> code], wait |-> RepeatDelay]
  ELSE kb

KeyReleased(kb, key) == IF Holds(kb, key) THEN ResetKeyboard ELSE kb

(* What advance returns, and what it leaves. *)
Repeats(kb, ticks) ==
  IF kb.held = NoPress \/ ticks < kb.wait THEN 0
  ELSE 1 + (ticks - kb.wait) \div RepeatInterval

(* A faulty variant, used only by the mutation runs. *)
WaitedRestarts(kb, ticks) ==
  IF kb.held = NoPress THEN kb
  ELSE IF ticks < kb.wait THEN [kb EXCEPT !.wait = @ - ticks]
  ELSE [kb EXCEPT !.wait = RepeatInterval]

Waited(kb, ticks) ==
  IF kb.held = NoPress THEN kb
  ELSE IF ticks < kb.wait THEN [kb EXCEPT !.wait = @ - ticks]
  ELSE [kb EXCEPT !.wait = RepeatInterval - ((ticks - @) % RepeatInterval)]
=============================================================================
