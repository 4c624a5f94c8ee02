----------------------------- MODULE MCMachine ------------------------------
EXTENDS Machine

Line(c, at) == [chars |-> c, attrs |-> at]
PageA == [i \in 1..Rows[25] |-> Line(<<1, 0>>, <<<<0, {"switch", "col2"}>>, <<1, {"RV"}>>>>)]
PageB == [i \in 1..Rows[25] |-> Line(<<1, 1>>, <<<<128, {"BL"}>>, <<1, {"UP"}>>>>)]
MCPages == {PageA, PageB}
MCRows == 20 :> 1 @@ 24 :> 2 @@ 25 :> 2
MCFormats ==
  {[k |-> 0, v |-> [cols |-> Columns]],
   [k |-> 1, v |-> [lines |-> 20, blink |-> 1]], [k |-> 1, v |-> [lines |-> 25, blink |-> 2]],
   [k |-> 2, v |-> [skip |-> TRUE, style |-> "LO", cblink |-> FALSE]],
   [k |-> 3, v |-> [cols |-> Columns]],
   [k |-> 4, v |-> [nonsep |-> TRUE, color |-> FALSE, special |-> FALSE]]}
MCActs == [map |-> 2, vram |-> 3, screen |-> 2, user |-> 2, state |-> 3, clock |-> 3,
           crtc |-> 8]
MCDates == {4 * 1999 + 3, 4 * 2031 + 2}
MCSerials == {-1, 1}
MCAluOps ==
  {[i \in Planes |-> "none"], [i \in Planes |-> "set"],
   0 :> "set" @@ 1 :> "reset" @@ 2 :> "invert", 0 :> "invert" @@ 1 :> "none" @@ 2 :> "reset"}
MCStems == [d \in {"disk", "none"} |-> IF d = "disk" THEN 4 ELSE 1]
=============================================================================
