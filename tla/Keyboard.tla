------------------------------ MODULE Keyboard ------------------------------
(***************************************************************************)
(* The key matrix and the function keys (keyboard.c): key codes come in    *)
(* through quasi88_key, the program on the main CPU reads key_scan.        *)
(*                                                                         *)
(* The functions take and give back the record k:                          *)
(*   down       keys whose bit in key_scan is 0                            *)
(*   mode, next_mode        as set_mode and the main loop set them         *)
(*   key_func               what a code does instead of typing             *)
(*   romaji_input_mode      letters are turned into kana                   *)
(*   frameskip_rate, wait_rate, no_wait    options a function key changes  *)
(* and the fields of Romaji.                                               *)
(***************************************************************************)
EXTENDS Romaji

CONSTANT Functions   \* assignments to the function keys (function_f) to look at

\* A function key may stand for a function, or for another key (-kanjikey).
FunctionKeys ==
  {"F1", "F2", "F3", "F4", "F5", "F6", "F7", "F8", "F9", "F10", "F11", "F12", "F13", "F14",
   "F15", "F16", "F17", "F18", "F19", "F20", "SYS_STATUS", "SYS_MENU"}
FunctionNames ==
  {"FN_FRATE_UP", "FN_FRATE_DOWN", "FN_VOLUME_UP", "FN_VOLUME_DOWN", "FN_PAUSE", "FN_RESIZE",
   "FN_FULLSCREEN", "FN_NOWAIT", "FN_SPEED_UP", "FN_SPEED_DOWN", "FN_MAX_SPEED",
   "FN_MAX_CLOCK", "FN_MAX_BOOST",
   "FN_IMAGE_NEXT1", "FN_IMAGE_PREV1", "FN_IMAGE_NEXT2", "FN_IMAGE_PREV2", "FN_NUMLOCK",
   "FN_RESET", "FN_KANA", "FN_ROMAJI", "FN_CAPS", "FN_SNAPSHOT", "FN_STATUS", "FN_MENU"}

ASSUME FunctionsAssumption == \A f \in Functions : DOMAIN f \subseteq FunctionKeys

(***************************************************************************)
(* Codes and bits.  A code is a name; that of a bit is the key on which it *)
(* is.  Small and capital letters share one.                               *)
(***************************************************************************)
keyport(code) ==
  CASE code = "F6" -> "F1" [] code = "F7" -> "F2" [] code = "F8" -> "F3"
    [] code = "F9" -> "F4" [] code = "F10" -> "F5"
    [] code \in {"BS", "INS", "DEL"} -> "INS_DEL"
    [] code \in {"HENKAN", "KETTEI"} -> "SPACE"
    [] code \in {"RETURNL", "RETURNR"} -> "RETURN"
    [] code \in {"SHIFTL", "SHIFTR"} -> "SHIFT"
    [] OTHER -> code
IS_KEY88_LATTERTYPE(code) == keyport(code) # code

\* The later models' keys have a bit of their own as well, and some come with
\* SHIFT: the bits a code moves.
Ext(code) == "EXT_" \o code
WithShiftKey == {"F6", "F7", "F8", "F9", "F10", "INS"}
Bits(code) ==
  {keyport(code)} \cup (IF IS_KEY88_LATTERTYPE(code) THEN {Ext(code)} ELSE {})
                  \cup (IF code \in WithShiftKey THEN {"SHIFT"} ELSE {})

(***************************************************************************)
(* The functions.                                                          *)
(***************************************************************************)
Toggled(down, b) == IF b \in down THEN down \ {b} ELSE down \cup {b}

RateList == <<1, 2, 3, 4, 5, 6, 10, 12, 15, 20, 30, 60>>
\* The next rate that is faster, or slower; from the end on to the other end.
change_framerate(rate, up) ==
  LET faster == {i \in DOMAIN RateList : RateList[i] < rate}
      slower == {i \in DOMAIN RateList : rate < RateList[i]}
  IN  IF up THEN IF faster = {} THEN Last(RateList) ELSE RateList[Max(faster)]
            ELSE IF slower = {} THEN RateList[1] ELSE RateList[Min(slower)]

change_wait(rate, up) ==
  IF up THEN Min({200, rate + 10}) ELSE Max({10, rate - 10})
\* change_max_speed: its limits are joined by "or", and never correct anything.
fn_max_speed == 1600
change_max_speed(rate) == IF rate < fn_max_speed THEN fn_max_speed ELSE 100

keyboard_reset(k) ==
  romaji_clear([k EXCEPT !.down = {}])
\* set_mode asks for a mode only when it is not the one that runs.
SetNext(k, m) == IF k.mode = m THEN k ELSE [k EXCEPT !.next_mode = m]

\* quasi88_cfg_key_romaji does the same when the lock is not as asked for.
ToggleRomaji(k) ==
  LET t == [k EXCEPT !.down = Toggled(@, "KANA")]
  IN  IF "KANA" \in t.down THEN romaji_clear([t EXCEPT !.romaji_input_mode = TRUE])
      ELSE [t EXCEPT !.romaji_input_mode = FALSE]

\* do_func of a key that goes down; one that comes up does nothing, but for
\* the next image of a drive (DiskFiles), which touches nothing here.
do_func(k, f) ==
  CASE f = "FN_FRATE_UP" -> [k EXCEPT !.frameskip_rate = change_framerate(@, TRUE)]
    [] f = "FN_FRATE_DOWN" -> [k EXCEPT !.frameskip_rate = change_framerate(@, FALSE)]
    [] f = "FN_NOWAIT" -> [k EXCEPT !.no_wait = ~@]
    [] f = "FN_SPEED_UP" -> [k EXCEPT !.wait_rate = change_wait(@, TRUE)]
    [] f = "FN_SPEED_DOWN" -> [k EXCEPT !.wait_rate = change_wait(@, FALSE)]
    [] f = "FN_MAX_SPEED" ->
         [k EXCEPT !.wait_rate = change_max_speed(@), !.no_wait = FALSE]
    [] f = "FN_PAUSE" -> SetNext(k, "PAUSE")
    [] f = "FN_MENU" -> SetNext(k, "MENU")
    [] f = "FN_RESET" -> keyboard_reset(k)
    [] f = "FN_KANA" -> [k EXCEPT !.down = Toggled(@, "KANA"), !.romaji_input_mode = FALSE]
    [] f = "FN_ROMAJI" -> ToggleRomaji(k)
    [] f = "FN_CAPS" -> [k EXCEPT !.down = Toggled(@, "CAPS")]
    [] OTHER -> k   \* volume, size, images, numlock, snapshot, clock, boost, status

(***************************************************************************)
(* A key goes down or comes up.                                            *)
(***************************************************************************)
do_key(k, code, on) ==
  [k EXCEPT !.down = IF on THEN @ \cup Bits(code) ELSE @ \ Bits(code)]

\* The function or the key a code stands for.
Assigned(k, code) == IF code \in DOMAIN k.key_func THEN k.key_func[code] ELSE code

\* What romaji_input has not taken is pressed.
Pressed(r) == IF r.key = "none" THEN r.k ELSE do_key(r.k, r.key, TRUE)

KeyAs(k, f, on) ==
  CASE f \in FunctionNames -> IF on THEN do_func(k, f) ELSE k
    [] f \notin FunctionNames /\ on /\ k.romaji_input_mode -> Pressed(romaji_input(k, f))
    [] OTHER -> do_key(k, f, on)
quasi88_key(k, code, on) ==
  IF k.mode # "EXEC" \/ code = "0xff" THEN k ELSE KeyAs(k, Assigned(k, code), on)

\* keyboard_update: a frame is over.  Mouse and pads are never moved here, and
\* no key record is open (DiskFiles has what playback does to the drives).
keyboard_update(k) ==
  IF k.mode = "EXEC" /\ k.romaji_input_mode THEN romaji_output(k) ELSE k

\* keyboard_switch, when the main loop enters another mode.
keyboard_switch(k) ==
  LET m == [k EXCEPT !.mode = k.next_mode]
  IN  IF m.mode = "EXEC" THEN m ELSE romaji_clear(m)

keyboard_init(type, functions) ==
  [down |-> {}, mode |-> "EXEC", next_mode |-> "EXEC", key_func |-> functions,
   romaji_input_mode |-> FALSE, frameskip_rate |-> 1, wait_rate |-> 100, no_wait |-> FALSE,
   romaji_type |-> type, input_buf |-> <<>>, romaji_set |-> 0, romaji_ptr |-> 0,
   romaji_que |-> [i \in 0..(ROMAJI_QUE_SIZE - 1) |-> Plain("SPACE")], press_timer |-> 0,
   typed |-> <<>>, said |-> <<>>]

=============================================================================
