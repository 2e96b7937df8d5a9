----------------------------- MODULE AtKeyboard -----------------------------
(***************************************************************************)
(* class AtKeyboard of src/src/core/keyboard.cpp as operators on a record: *)
(* set-2 scan codes become the logical bytes of the FK-1's keyboard, with  *)
(* two languages, dead keys and bytes entered as two hexadecimal digits.   *)
(***************************************************************************)
EXTENDS Integers

CONSTANTS
  Scan,      \* scan codes of the main block
  Extended,  \* scan codes behind E0h
  Table,     \* us_mp, us_vp, cz_mp and cz_vp; 0 where a key has no code
  Accent,    \* cz_car and cz_hac, from letters to bytes; 0 where there is none
  Navigation \* the part of us_mp for extended keys, plain and shifted

Byte == 0 .. 255
Tables == {"us_mp", "us_vp", "cz_mp", "cz_vp"}
Modifiers == {"shift", "caps", "control", "num", "scroll"}
AltScan == 17
DeadScan == 85
None == -1

ASSUME AtKeyboardAssumption ==
  /\ Scan \subseteq Nat /\ Extended \subseteq Nat
  /\ Table \in [Tables -> [Scan -> Byte]]
  /\ Accent \in [{"acute", "caron"} -> [65 .. 90 -> Byte]]
  /\ Navigation \in [BOOLEAN -> [Extended -> Byte]]

Decoder == [czech : BOOLEAN, dead : SUBSET {"acute", "caron"},
            pending : BOOLEAN, high : 0 .. 15]
ResetDecoder == [czech |-> FALSE, dead |-> {}, pending |-> FALSE, high |-> 0]

(* Results: the decoder, and the code if it gives one. *)
Gives(d, code) == [decoder |-> d, code |-> code]
Nothing(d) == Gives(d, None)

Digit(code) ==
  CASE code \in 48 .. 57 -> code - 48
    [] code \in 65 .. 70 -> code - 55
    [] code \in 97 .. 102 -> code - 87
    [] OTHER -> None

(* Faulty variants, used only by the mutation runs. *)
ReleaseScrollKeeps(d) == d

ReleaseScroll(d) == [d EXCEPT !.pending = FALSE]

(* OUTPUT swaps the case of KOI-8 letters: bit 5 of the upper quarter.     *)
Output(d, code) ==
  Gives(d, IF d.czech /\ code >= 192 THEN IF (code \div 32) % 2 = 1 THEN code - 32 ELSE code + 32
           ELSE code)

Hexadecimal(d, code) ==
  IF Digit(code) = None THEN Nothing(d)
  ELSE IF d.pending THEN Output(ReleaseScroll(d), d.high * 16 + Digit(code))
  ELSE Nothing([d EXCEPT !.pending = TRUE, !.high = Digit(code)])

(* The first dead key is used up whether the key takes an accent or not.   *)
Accented(d, code, shift) ==
  LET dead == IF "acute" \in d.dead THEN "acute" ELSE "caron"
      letter == code % 128
      upper == IF letter >= 96 THEN letter - 32 ELSE letter
      accent == IF letter \in 65 .. 122 /\ upper \in 65 .. 90 THEN Accent[dead][upper] ELSE 0
  IN Output([d EXCEPT !.dead = @ \ {dead}],
            IF accent = 0 THEN code ELSE (accent + (IF shift THEN 32 ELSE 0)) % 256)

Controlled(d, code) ==
  LET character == code % 128
  IN IF character < 63 THEN Nothing(d)
     ELSE Output(d, IF character = 63 THEN code ELSE character % 32)

Main(d, scan, mods) ==
  LET shift == "shift" \in mods
      upper == shift # ("caps" \in mods)
      code == Table[IF d.czech THEN IF upper THEN "cz_vp" ELSE "cz_mp"
                               ELSE IF upper THEN "us_vp" ELSE "us_mp"][scan]
  IN IF d.czech /\ scan = DeadScan
     THEN Nothing([d EXCEPT !.dead = @ \cup {IF shift THEN "caron" ELSE "acute"}])
     ELSE IF code = 0 THEN Nothing(d)
     ELSE IF "scroll" \in mods THEN Hexadecimal(d, code)
     ELSE IF d.czech /\ d.dead # {} THEN Accented(d, code, shift)
     ELSE IF "control" \in mods THEN Controlled(d, code)
     ELSE Output(d, code)

(* 5Ah and 4Ah are Enter and / of the keypad, the others need Num Lock off. *)
Extra(d, scan, mods) ==
  LET code == CASE scan = 90 -> 13
                [] scan = 74 -> 47
                [] OTHER -> IF "num" \in mods THEN 0 ELSE Navigation["shift" \in mods][scan]
  IN IF code = 0 THEN Nothing(d) ELSE Output(d, code)

Translate(d, key, mods) ==
  LET entry == IF "scroll" \in mods THEN d ELSE ReleaseScroll(d)
  IN IF key.scan = AltScan THEN Nothing([d EXCEPT !.czech = ~@])
     ELSE IF key.extended THEN Extra(entry, key.scan, mods)
     ELSE Main(entry, key.scan, mods)
=============================================================================
