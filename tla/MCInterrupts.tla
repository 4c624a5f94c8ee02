---------------------------- MODULE MCInterrupts ----------------------------
(* Two tapes, a line of two bytes, and four addresses of ADPCM memory.     *)
EXTENDS Interrupts

Tag(kind, n) == [k |-> kind, n |-> n]
MCImage ==
  [cmt |-> <<Tag("byte", 0), Tag("byte", 0)>>,
   t88 |-> <<Tag("other", 0), Tag("data", 2), Tag("byte", 0), Tag("byte", 0),
             Tag("time", 2), Tag("data", 0), Tag("data", 1), Tag("byte", 0),
             Tag("end", 0)>>,
   odd |-> <<Tag("data", 1), Tag("byte", 0), Tag("end", 0), Tag("byte", 0)>>]
=============================================================================
