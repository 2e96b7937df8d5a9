---------------------------- MODULE MCHostInput ----------------------------
(***************************************************************************)
(* HostInput for a user of the keyboard and one of the mouse: motion of up *)
(* to Limit steps and beyond, and the state set_mouse_signals forces in    *)
(* the tests (x a quarter turn on, y at rest); the keys A, 2, =, Alt and   *)
(* Delete with the bytes of their tables, and the modifiers that matter.   *)
(***************************************************************************)
EXTENDS HostInput, TLC
MCDeltas == {-1, 0, 3}
MCTestSignals == {{"BX", "T1", "T2"}}
MCScan == {17, 28, 30, 85}
MCExtended == {113}
MCTable ==
  [table \in Tables |->
     CASE table = "us_mp" -> (17 :> 0 @@ 28 :> 97 @@ 30 :> 50 @@ 85 :> 61)
       [] table = "us_vp" -> (17 :> 0 @@ 28 :> 65 @@ 30 :> 64 @@ 85 :> 43)
       [] table = "cz_mp" -> (17 :> 0 @@ 28 :> 97 @@ 30 :> 197 @@ 85 :> 39)
       [] table = "cz_vp" -> (17 :> 0 @@ 28 :> 65 @@ 30 :> 50 @@ 85 :> 59)]
MCAccent == [dead \in {"acute", "caron"} |->
               [letter \in 65 .. 90 |-> IF letter # 65 THEN 0
                                        ELSE IF dead = "acute" THEN 193 ELSE 216]]
MCNavigation == [shift \in BOOLEAN |-> 113 :> 127]
MCMain(scan) == [scan |-> scan, extended |-> FALSE]
MCDelete == [scan |-> 113, extended |-> TRUE]
MCKey == {MCMain(scan) : scan \in MCScan} \cup {MCDelete}
MCPressed ==
  [key \in MCKey |->
     CASE key = MCMain(17) -> {{}, {"scroll"}}
       [] key = MCMain(28) -> {{}, {"scroll"}, {"control"}, {"shift", "caps"}}
       [] key = MCMain(30) -> {{}, {"scroll"}, {"shift", "scroll"}}
       [] key = MCMain(85) -> {{}, {"shift"}, {"scroll"}}
       [] key = MCDelete -> {{}, {"scroll"}, {"num"}}]
MCUses == {{"keyboard"}, {"mouse"}}
=============================================================================
