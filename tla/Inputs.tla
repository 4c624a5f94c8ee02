------------------------------- MODULE Inputs -------------------------------
(***************************************************************************)
(* Where keys come from on the M5Stack (event.cpp): characters of the      *)
(* serial line, a text file typed by itself, the reports of a USB          *)
(* keyboard.  All are looked at in checkKeyboard, once in a sixtieth of a  *)
(* second; keyboard_update follows, and the program then sees the matrix.  *)
(***************************************************************************)
EXTENDS Keyboard

CONSTANTS
  Scenes,       \* what there is to type with: records of
                \*   lines   what may arrive on the serial line at once
                \*   keys    what a report of the USB keyboard may hold as its first key
                \*   mods    the sets of modifiers it may hold
                \*   files   text files to choose
                \*   types   tables of the romaji mode
                \*   events  how many lines, reports and resets there are
  KeyPolls      \* polls until 100 ms have passed

ASSUME InputsAssumption ==
  /\ KeyPolls \subseteq 6..20
  /\ \A s \in Scenes : /\ s.mods \subseteq SUBSET {"SHIFT", "CTRL", "GRAPH"}
                       /\ s.types \subseteq DOMAIN list

VARIABLES
  kb,                   \* the keyboard
  pressedKey88, keyCheckFrameCount,
  kanaMode, _last_key,
  autoKeyData, autoKeyIndex, autoKeyLineDelay, autoKeyNext, isAutoKeyHeadChar,
  scene, events,        \* the sources of this behaviour, what came from them
  mods,                 \* ghost: the modifiers of the last report
  overlooked,           \* ghost: keys that are down and of which nobody knows
  file, seen            \* ghosts: the file chosen, the keys the program saw

autoVars == <<autoKeyData, autoKeyIndex, autoKeyLineDelay, autoKeyNext, isAutoKeyHeadChar>>
vars == <<kb, pressedKey88, keyCheckFrameCount, kanaMode, _last_key, autoVars, scene,
          events, mods, overlooked, file, seen>>

(***************************************************************************)
(* The tables: rows of each kind.                                          *)
(***************************************************************************)
keysym2key88 ==
  "\r" :> "RETURNL" @@ "BACKSPACE" :> "INS_DEL" @@ "TAB" :> "TAB" @@ "SPACE" :> "SPACE" @@
  "a" :> "A" @@ "b" :> "B" @@ "z" :> "Z" @@ "x" :> "X" @@ "k" :> "K" @@
  "1" :> "1" @@ "3" :> "3" @@ "7" :> "7" @@ "-" :> "-" @@
  "UP" :> "UP" @@ "INSERT" :> "INS" @@ "HOME" :> "HOME"
\* The row of Z holds an x.
withShiftKey ==
  "A" :> "a" @@ "B" :> "b" @@ "K" :> "k" @@ "X" :> "x" @@ "Z" :> "x" @@
  "!" :> "1" @@ "#" :> "3" @@ "'" :> "7" @@ "=" :> "-" @@ "DELETE" :> "BACKSPACE"
hid_to_emu ==
  "a" :> "A" @@ "k" :> "K" @@ "n" :> "N" @@ "y" :> "Y" @@ "t" :> "T" @@ "u" :> "U" @@
  "s" :> "S" @@ "x" :> "X" @@ "enter" :> "RETURNL" @@ "esc" :> "ESC" @@ "ins" :> "INS" @@
  "f1" :> "F1" @@ "f2" :> "F2" @@ "f3" :> "F3" @@ "f4" :> "F4" @@ "grave" :> "KANA" @@ "caps" :> "CAPS" @@
  "convert" :> "HENKAN" @@ "f6" :> "0xff"

\* The code of a character, "none" for 0, and whether it comes with SHIFT.
Code(c) ==
  LET base == IF c \in DOMAIN withShiftKey THEN withShiftKey[c] ELSE c
  IN  IF base \in DOMAIN keysym2key88 THEN keysym2key88[base] ELSE "none"
WithShift88(c) == c \in DOMAIN withShiftKey

\* The bits that a key is on as it is assigned; a function has none.
Assumed(k, code) ==
  LET f == Assigned(k, code) IN IF code = "0xff" \/ f \in FunctionNames THEN {} ELSE Bits(f)

(***************************************************************************)
(* One look at the sources: each calls quasi88_key, one after the other.   *)
(***************************************************************************)
None == "none"

\* A key of the serial line or a file is let go after five looks.
LetGo(k) ==
  IF pressedKey88 = None THEN k
  ELSE quasi88_key(quasi88_key(k, pressedKey88, FALSE), "SHIFTR", FALSE)

\* keyPress: no character of the serial line or a file stands for KANA.
keyPress(k, c) ==
  IF Code(c) = None THEN k
  ELSE quasi88_key(IF WithShift88(c) THEN quasi88_key(k, "SHIFTR", TRUE) ELSE k, Code(c), TRUE)

\* checkSerialKeyboard: of what has arrived only the first counts.  ESC starts
\* a name of a key; by itself it reads -1, and then in front of both tables.
SerialChar(line) ==
  CASE line[1] # "ESC" -> {IF line[1] = "DELETE" THEN "BACKSPACE" ELSE line[1]}
    [] line[1] = "ESC" /\ Len(line) > 1 -> {line[2]}
    [] OTHER -> {None} \cup DOMAIN keysym2key88

\* A report of the USB keyboard: the modifiers each time, then the first key,
\* if it is another than before; the KANA key leaves the one before alone.
Modifiers(k, m) ==
  LET shift == quasi88_key(k, "SHIFT", "SHIFT" \in m)
      ctrl == quasi88_key(shift, "CTRL", "CTRL" \in m)
  IN  quasi88_key(ctrl, "GRAPH", "GRAPH" \in m)
Emu(k, key, on) == IF key = None THEN k ELSE quasi88_key(k, hid_to_emu[key], on)
IsKana(key) == key # None /\ hid_to_emu[key] = "KANA"
NoReport(k) == [k |-> k, last |-> _last_key, kana |-> kanaMode]
\* Mutant: the key before is let go only when no key follows.
FirstKeyChord(n, key) ==
  CASE key = _last_key -> NoReport(n)
    [] key # _last_key /\ IsKana(key) ->
         [k |-> Emu(n, key, ~kanaMode), last |-> _last_key, kana |-> ~kanaMode]
    [] OTHER -> [k |-> Emu(IF key = None THEN Emu(n, _last_key, FALSE) ELSE n, key, TRUE),
                 last |-> key, kana |-> kanaMode]
FirstKey(n, key) ==
  CASE key = _last_key -> NoReport(n)
    [] key # _last_key /\ IsKana(key) ->
         [k |-> Emu(n, key, ~kanaMode), last |-> _last_key, kana |-> ~kanaMode]
    [] OTHER -> [k |-> Emu(Emu(n, _last_key, FALSE), key, TRUE),
                 last |-> key, kana |-> kanaMode]
keyboard(k, m, key) == FirstKey(Modifiers(k, m), key)

(***************************************************************************)
(* The file that types itself: setAutoKey, checkAutoKeyboard.              *)
(***************************************************************************)
\* The delay behind a line: 100 ms, or the number of seconds in a first line
\* that starts with #.  A line that is no number is a delay of 0.
FirstLine(text) == CHOOSE n \in DOMAIN text : text[n] = "\r" /\ \A m \in 1..(n - 1) : text[m] # "\r"
HasHead(text) == text # <<>> /\ text[1] = "#" /\ "\r" \in Range(text)
LineDelay(text) ==
  IF ~HasHead(text) THEN KeyPolls
  ELSE IF text[2] \in {"1", "7"} THEN {2 * Max(KeyPolls)} ELSE {0}

\* A # by itself on a line is a pause, and nothing is typed.
PauseAt(n) ==
  /\ autoKeyData[n] = "#" /\ isAutoKeyHeadChar
  /\ n < Len(autoKeyData) /\ autoKeyData[n + 1] = "\r"

AutoDue == autoKeyData # <<>> /\ autoKeyNext = 0
\* autoKeyIndex counts from 0, and one more turn finds the end: what a turn
\* types ("line" for a pause, as behind a line) and where it goes on.
\* Mutant: the pause steps over the # only.
AutoTurnShort ==
  LET n == autoKeyIndex + 1
  IN  CASE ~AutoDue -> [types |-> None, wait |-> "none", index |-> autoKeyIndex]
        [] AutoDue /\ n > Len(autoKeyData) -> [types |-> None, wait |-> "key", index |-> 0]
        [] AutoDue /\ n <= Len(autoKeyData) /\ PauseAt(n) ->
             [types |-> None, wait |-> "pause", index |-> n]
        [] OTHER -> [types |-> autoKeyData[n], index |-> n,
                     wait |-> IF autoKeyData[n] = "\r" THEN "line" ELSE "key"]
AutoTurn ==
  LET n == autoKeyIndex + 1
  IN  CASE ~AutoDue -> [types |-> None, wait |-> "none", index |-> autoKeyIndex]
        [] AutoDue /\ n > Len(autoKeyData) -> [types |-> None, wait |-> "key", index |-> 0]
        [] AutoDue /\ n <= Len(autoKeyData) /\ PauseAt(n) ->
             [types |-> None, wait |-> "pause", index |-> n + 1]
        [] OTHER -> [types |-> autoKeyData[n], index |-> n,
                     wait |-> IF autoKeyData[n] = "\r" THEN "line" ELSE "key"]

\* millis() passes the time set, a poll at a time.
Passes(n) == autoKeyNext' = IF n = 0 THEN 0 ELSE n - 1
checkAutoKeyboard(t) ==
  /\ autoKeyIndex' = t.index
  /\ autoKeyData' = IF AutoDue /\ autoKeyIndex = Len(autoKeyData) THEN <<>> ELSE autoKeyData
  /\ isAutoKeyHeadChar' =
       IF t.wait \in {"none", "pause"} THEN isAutoKeyHeadChar ELSE t.wait = "line"
  /\ \E n \in CASE t.wait = "none" -> {autoKeyNext}
                [] t.wait = "key" -> KeyPolls
                [] OTHER -> autoKeyLineDelay : Passes(n)
  /\ UNCHANGED autoKeyLineDelay

(***************************************************************************)
(* Steps.                                                                  *)
(***************************************************************************)
Event == events < scene.events /\ events' = events + 1

\* What the program sees when it looks at the matrix once a frame: the bits
\* it reads as characters.
Codes88 == {"A", "B", "K", "X", "Z", "1", "3", "7", "-", "SPACE", "RETURN", "INS_DEL"}
Look ==
  LET new == Codes88 \cap (kb'.down \ kb.down)
      one(b) == [key |-> b, shift |-> "SHIFT" \in kb'.down]
  IN  seen' = IF scene.files = {} THEN seen
              ELSE seen \o SetToSeq({one(b) : b \in new})

\* The first four looks after a key went down stop at the count.
PollHolds ==
  /\ pressedKey88 # None /\ keyCheckFrameCount < 4
  /\ keyCheckFrameCount' = keyCheckFrameCount + 1
  /\ kb' = keyboard_update(kb)
  /\ Passes(autoKeyNext)
  /\ UNCHANGED <<pressedKey88, kanaMode, _last_key, mods, events, autoKeyData, autoKeyIndex,
                 autoKeyLineDelay, isAutoKeyHeadChar>>

Chars == {None} \cup UNION {SerialChar(line) : line \in scene.lines}
Reports == {<<>>} \cup (scene.mods \X scene.keys)

\* The serial line, the report, the file.
Reported(k, report) ==
  IF report = <<>> THEN NoReport(k) ELSE keyboard(k, report[1], report[2])
Typing(r, c, t) ==
  /\ kb' = keyboard_update(keyPress(r.k, t.types))
  /\ pressedKey88' = IF Code(t.types) = None THEN Code(c) ELSE Code(t.types)
  /\ checkAutoKeyboard(t)
  /\ kanaMode' = r.kana /\ _last_key' = r.last
PollLooks(c, report) ==
  /\ pressedKey88 # None => keyCheckFrameCount = 4
  /\ keyCheckFrameCount' = 0
  /\ Typing(Reported(keyPress(LetGo(kb), c), report), c, AutoTurn)
  /\ mods' = IF report = <<>> THEN mods ELSE report[1]

\* Only one key is remembered to be let go: of a character of the serial line
\* and one of a file in the same look, the file's.
Overlooked(c, t) ==
  IF Code(c) # None /\ Code(t) # None THEN Assumed(kb, Code(c)) ELSE {}
StillDown(keys) == overlooked' = keys \cap kb'.down

Poll ==
  /\ kb.next_mode = kb.mode
  /\ \/ PollHolds /\ StillDown(overlooked)
     \/ \E c \in Chars, report \in Reports :
          /\ IF c = None /\ report = <<>> THEN UNCHANGED events ELSE Event
          /\ PollLooks(c, report)
          /\ StillDown(overlooked \cup Overlooked(c, AutoTurn.types))
  /\ Look /\ UNCHANGED <<scene, file>>

\* The main loop enters the mode asked for.
Switch ==
  /\ kb.next_mode # kb.mode
  /\ kb' = keyboard_switch(kb) /\ StillDown(overlooked)
  /\ UNCHANGED <<pressedKey88, keyCheckFrameCount, kanaMode, _last_key, autoVars, scene,
                 events, mods, file, seen>>

\* The menu of the buttons, inside event_update: reset, or a text file chosen.
MenuReset ==
  /\ Event /\ kb' = keyboard_reset(kb) /\ StillDown(overlooked)
  /\ UNCHANGED <<pressedKey88, keyCheckFrameCount, kanaMode, _last_key, autoVars, scene,
                 mods, file, seen>>
setAutoKey(text) ==
  /\ autoKeyData' = text
  /\ autoKeyIndex' = IF HasHead(text) THEN FirstLine(text) ELSE 0
  /\ autoKeyLineDelay' = LineDelay(text)
  /\ isAutoKeyHeadChar' = TRUE
  /\ UNCHANGED autoKeyNext
MenuFile ==
  /\ file = <<>>
  /\ \E text \in scene.files : setAutoKey(text) /\ file' = text
  /\ UNCHANGED <<kb, pressedKey88, keyCheckFrameCount, kanaMode, _last_key, scene, events,
                 mods, overlooked, seen>>

Init ==
  /\ pressedKey88 = None /\ keyCheckFrameCount = 0 /\ kanaMode = FALSE /\ _last_key = None
  /\ autoKeyData = <<>> /\ autoKeyIndex = 0 /\ autoKeyLineDelay = KeyPolls
  /\ autoKeyNext = 0 /\ isAutoKeyHeadChar = TRUE
  /\ scene \in Scenes
  /\ \E type \in scene.types, f \in Functions : kb = keyboard_init(type, f)
  /\ events = 0 /\ mods = {} /\ overlooked = {} /\ file = <<>> /\ seen = <<>>

Next == Poll \/ Switch \/ MenuReset \/ MenuFile
\* The main loop looks again and again, and a file is chosen; nothing else is
\* promised but of a file that comes alone.
FileOnly == scene.files # {} /\ scene.lines = {} /\ scene.keys = {}
Fairness == WF_vars(FileOnly /\ Poll) /\ WF_vars(MenuFile)
Spec == Init /\ [][Next]_vars /\ Fairness

(***************************************************************************)
(* Properties.                                                             *)
(***************************************************************************)
Locks == {"KANA", "CAPS"}
Held ==
  mods
  \cup (IF _last_key = None THEN {} ELSE Assumed(kb, hid_to_emu[_last_key]))
  \cup (IF pressedKey88 = None THEN {} ELSE Assumed(kb, pressedKey88) \cup Assumed(kb, "SHIFTR"))
  \cup (IF kb.romaji_input_mode /\ KeyDown(kb)
        THEN WithShift(kb.romaji_que[kb.romaji_ptr]) ELSE {})

\* The kana key that was down when the romaji mode was left: its count stands
\* still, and it is let go by entering that mode again, another, or a reset.
Frozen ==
  IF ~kb.romaji_input_mode /\ KeyDown(kb) THEN WithShift(kb.romaji_que[kb.romaji_ptr]) ELSE {}

\* No key is down that nobody holds: a key is held by the last report of the
\* USB keyboard, by the count of five looks, or by romaji_output while it is
\* called; the locks stay.  (quasi88_key sees a press and its release in
\* different states of the function keys, the romaji mode and the modifiers.)
\* There are two ways to leave one down: a character of the serial line in the
\* look in which a file types one, and the end of the romaji mode in the
\* middle of a kana.
NoStuck ==
  kb.mode = "EXEC" => kb.down \subseteq Held \cup Locks \cup overlooked \cup Frozen

\* Who types leaves the ring (romaji_que) room for what one look can bring: a
\* letter of each source, with the keys of three others in front of it.
PollKeys == 18
Waiting(k) == (k.romaji_set - k.romaji_ptr) % ROMAJI_QUE_SIZE
Room == Waiting(kb) + PollKeys < ROMAJI_QUE_SIZE

Queued ==
  LET first == IF KeyDown(kb) THEN 1 ELSE 0
  IN  [i \in 1..(Waiting(kb) - first) |->
         kb.romaji_que[(kb.romaji_ptr + first + i - 1) % ROMAJI_QUE_SIZE]]
\* The letters come from the USB keyboard, and nothing else presses SHIFT.
LettersOnly ==
  /\ scene.lines = {} /\ scene.files = {} /\ scene.mods = {{}}
  /\ \A key \in scene.keys : key # None => hid_to_emu[key] \notin WithShiftKey
\* MS-IME's TSA, which its row turns into tu and small ya.
Misprinted ==
  /\ kb.romaji_type = "msime"
  /\ \E i \in DOMAIN kb.typed : IsPrefix(<<"T", "S", "A">>, SubSeq(kb.typed, i, Len(kb.typed)))

\* The kana pressed so far and those queued are what the tables of romaji in
\* romaji-table.h promise for the letters, read as a whole, and the letters
\* kept are those that mean nothing yet (romaji_input works letter by letter);
\* but for the rows of the lists that hold another kana than their comment.
Converted ==
  LET m == Meaning(Kana[kb.romaji_type], kb.typed)
  IN  LettersOnly /\ ~Misprinted => kb.said \o Queued = m.keys /\ kb.input_buf = m.rest

\* What a text file is meant to type: the key of each character behind the
\* first line of options, but not the lines of a single #.
Intended ==
  "a" :> Plain("A") @@ "A" :> Shifted("A") @@ "b" :> Plain("B") @@ "Z" :> Shifted("Z") @@
  "!" :> Shifted("1") @@ "#" :> Shifted("3") @@ "1" :> Plain("1") @@ "\r" :> Plain("RETURN")
Expected(text) ==
  LET from == IF HasHead(text) THEN FirstLine(text) + 1 ELSE 1
      Starts(n) == n = from \/ text[n - 1] = "\r"
      Mark(n) == Starts(n) /\ text[n] = "#" /\ n < Len(text) /\ text[n + 1] = "\r"
      Types(n) == ~Mark(n) /\ ~(n > from /\ Mark(n - 1)) /\ text[n] \in DOMAIN Intended
      \* Behind a RETURN with no delay one more comes with the letting go.
      Lost(n) == /\ LineDelay(text) = {0} /\ n > from
                 /\ text[n] = "\r" /\ text[n - 1] = "\r" /\ Types(n - 1)
      at == SelectSeq([n \in 1..Len(text) |-> n],
                      LAMBDA n : n >= from /\ Types(n) /\ ~Lost(n))
  IN  [i \in DOMAIN at |-> Intended[text[at[i]]]]

\* A program that looks at the keys once a frame reads the whole file, each
\* character once and double ones twice (checkKeyboard lets go after five
\* frames, the next character comes after 100 ms); but for the empty lines of a
\* file that sets its delay to 0: there the RETURN is let go and pressed again
\* in one look, and the program never sees it up.
Typed ==
  FileOnly /\ file # <<>> /\ events = 0 ~> [](events = 0 => seen = Expected(file))

=============================================================================
